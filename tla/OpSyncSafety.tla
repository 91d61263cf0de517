---------------------------- MODULE OpSyncSafety ----------------------------
(***************************************************************************)
(* Safety of OpSync for any devices, messages and bounds: cursors are      *)
(* honest and never move back, no message and no deletion is lost, both    *)
(* ends come to agree, and the sender is shown how far a message is.       *)
(*                                                                         *)
(* The argument: an envelope on its way (link queue or mailbox) says       *)
(* nothing that is not so at its sender (FlightHonest), and an op counted  *)
(* as applied has had its effect (TakenDone).  A report therefore never    *)
(* exceeds the cursor, the sender compacts no more than the cursor         *)
(* (CompactedBehind), and what is compacted has had its effect.  All of it *)
(* rests on the fact that no step forgets anything (Grows): logs are       *)
(* append-only, cursors do not move back, rows leave table messages only   *)
(* for deleted_msgs, and what is purged there was deleted (Deleted).       *)
(***************************************************************************)
EXTENDS OpSync, SequenceTheorems, TLAPS

-----------------------------------------------------------------------------
(* Types.  The lemmas follow the building blocks of the actions; each says  *)
(* that the variables a block sets keep their types.                        *)

ChanType == [Device -> [Device -> [Role -> Seq(Envelope)]]]
MailType == [Device -> [Device -> SUBSET Envelope]]

\* Ops and envelopes are what their types say.
LEMMA Constructors ==
  /\ \A m \in Msg : MsgOp(m) \in OpBody
  /\ \A ids \in SUBSET Msg : DeleteOp(ids) \in OpBody
  /\ ClearOp \in OpBody /\ ProfileOp \in OpBody /\ NoOp \in OpBody
  /\ \A s \in Nat, b \in OpBody : OpEnv(s, b) \in Envelope
  /\ \A c \in Nat : Hello(c) \in Envelope /\ Ack(c) \in Envelope
BY DEF MsgOp, DeleteOp, ClearOp, ProfileOp, NoOp, OpBody, OpEnv, Hello, Ack, Envelope

\* The mailbox copies of a sequence of envelopes are envelopes.
LEMMA CopiesAreEnvelopes ==
  ASSUME NEW envs \in Seq(Envelope) PROVE MailCopies(envs) \subseteq Envelope
BY DEF MailCopies, ToSet

\* _pushLive puts envelopes into one of the two queues.
LEMMA PushToType ==
  ASSUME NEW queues \in [Role -> Seq(Envelope)], NEW sinkSeq \in Seq(SinkEnd),
         NEW live \in SUBSET Role, NEW envs \in Seq(Envelope)
  PROVE  PushTo(queues, sinkSeq, live, envs) \in [Role -> Seq(Envelope)]
<1>1. CASE sinkSeq # <<>> /\ Last(sinkSeq) \in live
  <2>1. queues[Last(sinkSeq)] \o envs \in Seq(Envelope)
    BY <1>1, ConcatProperties
  <2> QED BY <1>1, <2>1 DEF PushTo
<1>2. CASE ~(sinkSeq # <<>> /\ Last(sinkSeq) \in live)
  BY <1>2 DEF PushTo
<1> QED BY <1>1, <1>2

LEMMA PushType ==
  ASSUME TypeOK, NEW d \in Device, NEW p \in Device, NEW envs \in Seq(Envelope),
         NEW q \in ChanType, Push(d, p, envs, q)
  PROVE  chan' \in ChanType /\ mail' \in MailType
<1>1. Live(d, p) \subseteq Role
  BY DEF Live
<1>2. PushTo(q[d][p], sinks[d][p], Live(d, p), envs) \in [Role -> Seq(Envelope)]
  <2>1. q[d][p] \in [Role -> Seq(Envelope)] /\ sinks[d][p] \in Seq(SinkEnd)
    BY DEF TypeOK, ChanType
  <2> QED BY <1>1, <2>1, PushToType
<1>3. MailCopies(envs) \subseteq Envelope
  BY CopiesAreEnvelopes
<1> QED BY <1>2, <1>3 DEF Push, TypeOK, ChanType, MailType

\* Marking the messages of _pendingAcks yields send states.
LEMMA RetagType ==
  ASSUME TypeOK, NEW d \in Device, NEW p \in Device, NEW from, NEW to \in SendState
  PROVE  Retag(d, p, from, to) \in [Msg -> SendState]
BY DEF Retag, TypeOK

LEMMA WriteOwnType ==
  ASSUME TypeOK, NEW d \in Device, NEW p \in Device, NEW m \in Msg, NEW state \in SendState,
         WriteOwn(d, p, m, state)
  PROVE  /\ inbox' \in [Device -> [Device -> SUBSET Msg]]
         /\ sent' \in [Device -> [Device -> SUBSET Msg]]
         /\ sendState' \in [Msg -> SendState]
BY DEF WriteOwn, TypeOK

LEMMA AppendAndPushType ==
  ASSUME TypeOK, NEW d \in Device, NEW p \in Device, NEW body \in OpBody,
         AppendAndPush(d, p, body)
  PROVE  /\ log' \in [Device -> [Device -> Seq(OpBody)]]
         /\ chan' \in ChanType /\ mail' \in MailType
<1>1. log[d][p] \in Seq(OpBody) /\ chan \in ChanType
  BY DEF TypeOK, ChanType
<1>2. NextSeq(d, p) \in Nat
  BY <1>1, LenProperties DEF NextSeq
<1>3. <<OpEnv(NextSeq(d, p), body)>> \in Seq(Envelope)
  BY <1>2, Constructors
<1>4. chan' \in ChanType /\ mail' \in MailType
  BY <1>1, <1>3, PushType DEF AppendAndPush
<1>5. Append(log[d][p], body) \in Seq(OpBody)
  BY <1>1, AppendProperties
<1>6. log' \in [Device -> [Device -> Seq(OpBody)]]
  BY <1>5 DEF AppendAndPush, TypeOK
<1> QED BY <1>4, <1>6

\* What a device ever deleted grows by what is deleted now; a purge only moves it from
\* deleted_msgs to what is forgotten.
LEMMA Buried ==
  ASSUME TypeOK, NEW d \in Device, NEW ids \in SUBSET Msg, NEW aged, Bury(d, ids, aged)
  PROVE  /\ aged \in SUBSET Msg
         /\ tombs' \in [Device -> SUBSET Msg] /\ forgotten' \in [Device -> SUBSET Msg]
         /\ \A x \in Device : Deleted(x)' = IF x = d THEN Deleted(x) \cup ids ELSE Deleted(x)
         /\ \A x \in Device : tombs'[x] \subseteq IF x = d THEN tombs[x] \cup ids ELSE tombs[x]
<1>1. /\ tombs \in [Device -> SUBSET Msg] /\ forgotten \in [Device -> SUBSET Msg]
      /\ aged \subseteq tombs[d] \cup ids
  BY DEF TypeOK, Bury
<1>2. aged \in SUBSET Msg
  BY <1>1
<1>3. /\ tombs' = [tombs EXCEPT ![d] = (@ \cup ids) \ aged]
      /\ forgotten' = [forgotten EXCEPT ![d] = @ \cup aged]
  BY DEF Bury
<1>4. tombs' \in [Device -> SUBSET Msg] /\ forgotten' \in [Device -> SUBSET Msg]
  BY <1>1, <1>2, <1>3
<1>5. \A x \in Device :
        /\ tombs'[x] = IF x = d THEN (tombs[x] \cup ids) \ aged ELSE tombs[x]
        /\ forgotten'[x] = IF x = d THEN forgotten[x] \cup aged ELSE forgotten[x]
  BY <1>1, <1>3
<1> QED BY <1>1, <1>2, <1>4, <1>5 DEF Deleted

LEMMA RemoveRowsType ==
  ASSUME TypeOK, NEW d \in Device, NEW p \in Device, NEW ids \in SUBSET Msg, NEW aged,
         RemoveRows(d, p, ids, aged)
  PROVE  /\ inbox' \in [Device -> [Device -> SUBSET Msg]]
         /\ tombs' \in [Device -> SUBSET Msg] /\ forgotten' \in [Device -> SUBSET Msg]
         /\ sendState' \in [Msg -> SendState]
<1>1. tombs' \in [Device -> SUBSET Msg] /\ forgotten' \in [Device -> SUBSET Msg]
  BY Buried DEF RemoveRows
<1>2. inbox' \in [Device -> [Device -> SUBSET Msg]] /\ sendState' \in [Msg -> SendState]
  BY DEF RemoveRows, TypeOK, SendState
<1> QED BY <1>1, <1>2

LEMMA ApplyType ==
  ASSUME TypeOK, NEW d \in Device, NEW p \in Device, NEW body \in OpBody, NEW aged,
         Apply(d, p, body, aged)
  PROVE  /\ inbox' \in [Device -> [Device -> SUBSET Msg]]
         /\ tombs' \in [Device -> SUBSET Msg] /\ forgotten' \in [Device -> SUBSET Msg]
         /\ sendState' \in [Msg -> SendState]
<1>1. body.ids \in SUBSET Msg /\ inbox[d][p] \in SUBSET Msg
  BY DEF OpBody, TypeOK
<1>2. CASE body.kind = "msg"
  <2>1. /\ inbox' = [inbox EXCEPT ![d][p] = @ \cup (body.ids \ tombs[d])]
        /\ Bury(d, {}, aged) /\ UNCHANGED sendState
    BY <1>2 DEF Apply
  <2>2. inbox[d][p] \cup (body.ids \ tombs[d]) \in SUBSET Msg
    BY <1>1
  <2>3. tombs' \in [Device -> SUBSET Msg] /\ forgotten' \in [Device -> SUBSET Msg]
    BY <2>1, Buried
  <2> QED BY <2>1, <2>2, <2>3 DEF TypeOK
<1>3. CASE body.kind = "delete"
  BY <1>1, <1>3, RemoveRowsType DEF Apply
<1>4. CASE body.kind = "clear"
  BY <1>1, <1>4, RemoveRowsType DEF Apply
<1>5. CASE body.kind \in {"profile", "noop"}
  <2>1. Bury(d, {}, aged) /\ UNCHANGED <<inbox, sendState>>
    BY <1>5 DEF Apply
  <2>2. tombs' \in [Device -> SUBSET Msg] /\ forgotten' \in [Device -> SUBSET Msg]
    BY <2>1, Buried
  <2> QED BY <2>1, <2>2 DEF TypeOK
<1> QED BY <1>2, <1>3, <1>4, <1>5 DEF Apply

LEMMA AckedType ==
  ASSUME TypeOK, NEW d \in Device, NEW p \in Device, NEW cursor \in Nat, Acked(d, p, cursor)
  PROVE  /\ compacted' \in [Device -> [Device -> Nat]]
         /\ pending' \in [Device -> [Device -> SUBSET (Nat \X Msg)]]
         /\ sendState' \in [Msg -> SendState]
<1>1. /\ compacted \in [Device -> [Device -> Nat]] /\ sendState \in [Msg -> SendState]
      /\ pending \in [Device -> [Device -> SUBSET (Nat \X Msg)]]
  BY DEF TypeOK
<1>2. compacted' \in [Device -> [Device -> Nat]]
  BY <1>1 DEF Acked, AckPending
<1>3. pending' \in [Device -> [Device -> SUBSET (Nat \X Msg)]]
  <2>1. pending' = [pending EXCEPT ![d][p] = @ \ {s \in pending[d][p] : s[1] <= cursor}]
    BY DEF Acked, AckPending
  <2>2. pending[d][p] \ {s \in pending[d][p] : s[1] <= cursor} \in SUBSET (Nat \X Msg)
    BY <1>1
  <2> QED BY <1>1, <2>1, <2>2
<1>4. sendState' \in [Msg -> SendState]
  BY <1>1 DEF Acked, AckPending, SendState
<1> QED BY <1>2, <1>3, <1>4

\* What opsSince returns is a sequence of envelopes.
LEMMA OpsSinceType ==
  ASSUME TypeOK, NEW d \in Device, NEW p \in Device, NEW cursor \in Nat
  PROVE  OpsSince(d, p, cursor) \in Seq(Envelope)
<1> DEFINE low == IF cursor > compacted[d][p] THEN cursor ELSE compacted[d][p]
           n == Len(log[d][p]) - low
<1>1. low \in Nat /\ log[d][p] \in Seq(OpBody) /\ Len(log[d][p]) \in Nat
  BY LenProperties DEF TypeOK
<1>2. \A i \in 1 .. n :
        OpEnv(low + i, IF low + i \in expired[d][p] THEN NoOp ELSE log[d][p][low + i]) \in Envelope
  <2> TAKE i \in 1 .. n
  <2>1. low + i \in Nat /\ low + i \in 1 .. Len(log[d][p])
    BY <1>1
  <2>2. log[d][p][low + i] \in OpBody
    BY <1>1, <2>1, ElementOfSeq
  <2> QED BY <2>1, <2>2, Constructors
<1>3. CASE n \in Nat
  BY <1>2, <1>3 DEF OpsSince
<1>4. CASE n \notin Nat
  <2>1. 1 .. n = 1 .. 0
    BY <1>1, <1>4
  <2>2. OpsSince(d, p, cursor) = <<>>
    BY <2>1 DEF OpsSince
  <2> QED BY <2>2
<1> QED BY <1>3, <1>4

LEMMA AdvanceCursorType ==
  ASSUME TypeOK, NEW d \in Device, NEW p \in Device, NEW s \in Nat, NEW q \in ChanType,
         AdvanceCursor(d, p, s, q)
  PROVE  /\ applied' \in [Device -> [Device -> SUBSET Nat]]
         /\ myApplied' \in [Device -> [Device -> Nat]]
         /\ chan' \in ChanType /\ mail' \in MailType
<1> DEFINE cursor == myApplied[d][p]
           got    == applied[d][p] \cup {s}
<1>1. cursor \in Nat /\ got \in SUBSET Nat
  BY DEF TypeOK
<1>2. CASE s <= cursor
  <2>1. UNCHANGED <<applied, myApplied>> /\ Push(d, p, <<>>, q)
    BY <1>1, <1>2 DEF AdvanceCursor
  <2>2. <<>> \in Seq(Envelope)
    BY EmptySeq
  <2> QED BY <2>1, <2>2, PushType DEF TypeOK
<1>3. CASE s > cursor
  <2>1. applied' = [applied EXCEPT ![d][p] = got]
    BY <1>1, <1>3 DEF AdvanceCursor
  <2>2. PICK k \in got \cup {cursor} :
          /\ myApplied' = [myApplied EXCEPT ![d][p] = k]
          /\ Push(d, p, Reply(cursor, s, k), q)
    BY <1>1, <1>3 DEF AdvanceCursor
  <2>3. k \in Nat
    BY <1>1
  <2>4. /\ <<Ack(k)>> \in Seq(Envelope) /\ <<Hello(cursor)>> \in Seq(Envelope)
        /\ <<>> \in Seq(Envelope)
    BY <1>1, <2>3, Constructors, EmptySeq
  <2>5. chan' \in ChanType /\ mail' \in MailType
    BY <2>2, <2>4, PushType DEF Reply
  <2> QED BY <1>1, <2>1, <2>2, <2>3, <2>5 DEF TypeOK
<1> QED BY <1>1, <1>2, <1>3

\* Handling an envelope keeps every type.
LEMMA HandleType ==
  ASSUME TypeOK, NEW d \in Device, NEW p \in Device, NEW e \in Envelope, NEW q \in ChanType,
         Handle(d, p, e, q)
  PROVE  TypeOK'
<1>1. e.seq \in Nat /\ e.body \in OpBody
  BY DEF Envelope
<1>2. CASE HandleHello(d, p, e, q)
  <2>1. OpsSince(d, p, e.seq) \in Seq(Envelope)
    BY <1>1, OpsSinceType
  <2>2. chan' \in ChanType /\ mail' \in MailType
    BY <1>2, <2>1, PushType DEF HandleHello
  <2>3. /\ compacted' \in [Device -> [Device -> Nat]]
        /\ pending' \in [Device -> [Device -> SUBSET (Nat \X Msg)]]
        /\ sendState' \in [Msg -> SendState]
    BY <1>1, <1>2, AckedType DEF HandleHello
  <2> QED BY <1>2, <2>2, <2>3 DEF HandleHello, Handle, TypeOK, ChanType, MailType
<1>3. CASE HandleAck(d, p, e, q)
  <2>1. <<>> \in Seq(Envelope)
    BY EmptySeq
  <2>2. chan' \in ChanType /\ mail' \in MailType
    BY <1>3, <2>1, PushType DEF HandleAck
  <2>3. /\ compacted' \in [Device -> [Device -> Nat]]
        /\ pending' \in [Device -> [Device -> SUBSET (Nat \X Msg)]]
        /\ sendState' \in [Msg -> SendState]
    BY <1>1, <1>3, AckedType DEF HandleAck
  <2> QED BY <1>3, <2>2, <2>3 DEF HandleAck, Handle, TypeOK, ChanType, MailType
<1>4. CASE HandleOp(d, p, e, q)
  <2>1. /\ inbox' \in [Device -> [Device -> SUBSET Msg]]
        /\ tombs' \in [Device -> SUBSET Msg] /\ forgotten' \in [Device -> SUBSET Msg]
        /\ sendState' \in [Msg -> SendState]
    BY <1>1, <1>4, ApplyType DEF HandleOp
  <2>2. /\ applied' \in [Device -> [Device -> SUBSET Nat]]
        /\ myApplied' \in [Device -> [Device -> Nat]]
        /\ chan' \in ChanType /\ mail' \in MailType
    BY <1>1, <1>4, AdvanceCursorType DEF HandleOp
  <2> QED BY <1>4, <2>1, <2>2 DEF HandleOp, Handle, TypeOK, ChanType, MailType
<1> QED BY <1>2, <1>3, <1>4 DEF Handle

\* The queue from p's link end r to d without its head.
LEMMA PoppedType ==
  ASSUME TypeOK, NEW d \in Device, NEW p \in Device, NEW r \in Role, chan[p][d][r] # <<>>
  PROVE  /\ Head(chan[p][d][r]) \in Envelope
         /\ [chan EXCEPT ![p][d][r] = Tail(@)] \in ChanType
<1>1. chan \in ChanType
  BY DEF TypeOK, ChanType
<1>0. chan[p][d][r] \in Seq(Envelope)
  BY <1>1 DEF ChanType
<1>2. Head(chan[p][d][r]) \in Envelope /\ Tail(chan[p][d][r]) \in Seq(Envelope)
  BY <1>0, HeadTailProperties
<1> QED BY <1>1, <1>2 DEF ChanType

LEMMA ReceiveType ==
  ASSUME TypeOK, NEW d \in Device, NEW p \in Device, NEW r \in Role, Receive(d, p, r)
  PROVE  TypeOK'
BY PoppedType, HandleType DEF Receive, Deliverable

LEMMA MailDeliverType ==
  ASSUME TypeOK, NEW d \in Device, NEW p \in Device, MailDeliver(d, p)
  PROVE  TypeOK'
<1>1. PICK e \in mail[p][d] : Handle(d, p, e, chan)
  BY DEF MailDeliver
<1>2. e \in Envelope /\ chan \in ChanType
  BY DEF TypeOK, ChanType
<1> QED BY <1>1, <1>2, HandleType

-----------------------------------------------------------------------------
(* Links. *)

LEMMA RegisterSinkType ==
  ASSUME TypeOK, NEW d \in Device, NEW p \in Device, NEW sinkSeq \in Seq(SinkEnd),
         NEW envs \in Seq(Envelope), sinkSeq # <<>>, Last(sinkSeq) \in Role,
         RegisterSink(d, p, sinkSeq, envs, chan)
  PROVE  /\ sinks' \in [Device -> [Device -> Seq(SinkEnd)]]
         /\ sendState' \in [Msg -> SendState]
         /\ log' \in [Device -> [Device -> Seq(OpBody)]]
         /\ chan' \in ChanType /\ mail' \in MailType
<1> DEFINE profile == IF HasProfile THEN <<ProfileOp>> ELSE <<>>
           first   == IF HasProfile THEN <<OpEnv(NextSeq(d, p), ProfileOp)>> ELSE <<>>
<1>1. log[d][p] \in Seq(OpBody) /\ mail[d][p] \in SUBSET Envelope
  BY DEF TypeOK
<1>2. NextSeq(d, p) \in Nat
  BY <1>1, LenProperties DEF NextSeq
<1>3. profile \in Seq(OpBody) /\ first \in Seq(Envelope)
  BY <1>2, Constructors, EmptySeq
<1>4. log[d][p] \o profile \in Seq(OpBody) /\ first \o envs \in Seq(Envelope)
  BY <1>1, <1>3, ConcatProperties
<1>5. MailCopies(first) \subseteq Envelope
  BY <1>3, CopiesAreEnvelopes
<1>6. "sending" \in SendState
  BY DEF SendState
<1>7. Retag(d, p, "queued", "sending") \in [Msg -> SendState]
  BY <1>6, RetagType
<1>8. /\ sinks' = [sinks EXCEPT ![d][p] = sinkSeq]
      /\ sendState' = IF IsOnline(d, p) THEN sendState ELSE Retag(d, p, "queued", "sending")
      /\ log' = [log EXCEPT ![d][p] = @ \o profile]
      /\ chan' = [chan EXCEPT ![d][p][Last(sinkSeq)] = first \o envs]
      /\ mail' = [mail EXCEPT ![d][p] = @ \cup MailCopies(first)]
  BY DEF RegisterSink
<1>9. sinks' \in [Device -> [Device -> Seq(SinkEnd)]] /\ sendState' \in [Msg -> SendState]
  BY <1>7, <1>8 DEF TypeOK
<1>10. log' \in [Device -> [Device -> Seq(OpBody)]]
  BY <1>4, <1>8 DEF TypeOK
<1>11. mail' \in MailType
  BY <1>1, <1>5, <1>8 DEF TypeOK, MailType
<1>12. chan' \in ChanType
  <2> HIDE DEF first
  <2> QED BY <1>4, <1>8 DEF TypeOK, ChanType
<1> QED BY <1>9, <1>10, <1>11, <1>12

LEMMA UnregisterSinkType ==
  ASSUME TypeOK, NEW d \in Device, NEW p \in Device, NEW i \in DOMAIN sinks[d][p],
         UnregisterSink(d, p, i)
  PROVE  /\ sinks' \in [Device -> [Device -> Seq(SinkEnd)]]
         /\ sendState' \in [Msg -> SendState]
<1> DEFINE s == sinks[d][p]
<1>1. s \in Seq(SinkEnd)
  BY DEF TypeOK
<1>2. Len(s) \in Nat /\ i \in 1 .. Len(s) /\ \A j \in 1 .. Len(s) : s[j] \in SinkEnd
  BY <1>1, LenProperties, ElementOfSeq
<1>3. SubSeq(s, 1, i - 1) \in Seq(SinkEnd)
  <2>1. \A j \in 1 .. i - 1 : s[j] \in SinkEnd
    BY <1>2
  <2> QED BY <1>2, <2>1, SubSeqProperties
<1>4. SubSeq(s, i + 1, Len(s)) \in Seq(SinkEnd)
  <2>1. \A j \in i + 1 .. Len(s) : s[j] \in SinkEnd
    BY <1>2
  <2> QED BY <1>2, <2>1, SubSeqProperties
<1>5. RemoveAt(s, i) \in Seq(SinkEnd)
  BY <1>3, <1>4, ConcatProperties DEF RemoveAt
<1>6. "queued" \in SendState
  BY DEF SendState
<1>7. Retag(d, p, "sending", "queued") \in [Msg -> SendState]
  BY <1>6, RetagType
<1> QED BY <1>5, <1>7 DEF UnregisterSink, TypeOK

LEMMA DemoteType ==
  ASSUME NEW s \in Seq(SinkEnd) PROVE Demote(s) \in Seq(SinkEnd)
<1>1. DOMAIN s = 1 .. Len(s) /\ Len(s) \in Nat /\ \A i \in 1 .. Len(s) : s[i] \in SinkEnd
  BY LenProperties, ElementOfSeq
<1>2. \A i \in 1 .. Len(s) : (IF s[i] = "accept" THEN "stale" ELSE s[i]) \in SinkEnd
  BY <1>1 DEF SinkEnd
<1>3. [i \in 1 .. Len(s) |-> IF s[i] = "accept" THEN "stale" ELSE s[i]] \in Seq(SinkEnd)
  BY <1>1, <1>2
<1> QED BY <1>1, <1>3 DEF Demote

\* A sink added at the end is the newest one.
LEMMA NewestSink ==
  ASSUME NEW s \in Seq(SinkEnd), NEW r \in SinkEnd
  PROVE  /\ Append(s, r) \in Seq(SinkEnd) /\ Append(s, r) # <<>>
         /\ Last(Append(s, r)) = r
BY AppendProperties DEF Last

LEMMA DialType ==
  ASSUME TypeOK, NEW d \in Device, NEW p \in Device, Dial(d, p)
  PROVE  TypeOK'
<1>1. sinks[d][p] \in Seq(SinkEnd) /\ myApplied[d][p] \in Nat
  BY DEF TypeOK
<1>2. "dial" \in SinkEnd /\ "dial" \in Role /\ "dialing" \in LinkState
  BY DEF SinkEnd, Role, LinkState
<1>3. /\ Append(sinks[d][p], "dial") \in Seq(SinkEnd)
      /\ Append(sinks[d][p], "dial") # <<>>
      /\ Last(Append(sinks[d][p], "dial")) = "dial"
  BY <1>1, <1>2, NewestSink
<1>4. <<Hello(myApplied[d][p])>> \in Seq(Envelope)
  BY <1>1, Constructors
<1>5. /\ sinks' \in [Device -> [Device -> Seq(SinkEnd)]]
      /\ sendState' \in [Msg -> SendState]
      /\ log' \in [Device -> [Device -> Seq(OpBody)]]
      /\ chan' \in ChanType /\ mail' \in MailType
  BY <1>2, <1>3, <1>4, RegisterSinkType DEF Dial
<1>6. conn' \in [Device -> [Device -> LinkState]]
  BY <1>2 DEF Dial, TypeOK
<1> QED BY <1>5, <1>6 DEF Dial, TypeOK, ChanType, MailType

LEMMA AcceptType ==
  ASSUME TypeOK, NEW d \in Device, NEW p \in Device, Accept(d, p)
  PROVE  TypeOK'
<1>1. Demote(sinks[d][p]) \in Seq(SinkEnd)
  BY DemoteType DEF TypeOK
<1>2. "accept" \in SinkEnd /\ "accept" \in Role /\ "up" \in LinkState
  BY DEF SinkEnd, Role, LinkState
<1>3. /\ Append(Demote(sinks[d][p]), "accept") \in Seq(SinkEnd)
      /\ Append(Demote(sinks[d][p]), "accept") # <<>>
      /\ Last(Append(Demote(sinks[d][p]), "accept")) = "accept"
  BY <1>1, <1>2, NewestSink
<1>4. <<>> \in Seq(Envelope)
  BY EmptySeq
<1>5. /\ sinks' \in [Device -> [Device -> Seq(SinkEnd)]]
      /\ sendState' \in [Msg -> SendState]
      /\ log' \in [Device -> [Device -> Seq(OpBody)]]
      /\ chan' \in ChanType /\ mail' \in MailType
  BY <1>2, <1>3, <1>4, RegisterSinkType DEF Accept
<1>6. conn' \in [Device -> [Device -> LinkState]]
  BY <1>2 DEF Accept, TypeOK
<1> QED BY <1>5, <1>6 DEF Accept, TypeOK, ChanType, MailType

LEMMA ClosedType ==
  ASSUME TypeOK, NEW d \in Device, NEW p \in Device, DialClosed(d, p) \/ AcceptClosed(d, p)
  PROVE  TypeOK'
<1>1. PICK i \in DOMAIN sinks[d][p] : UnregisterSink(d, p, i)
  BY DEF DialClosed, AcceptClosed
<1>2. /\ sinks' \in [Device -> [Device -> Seq(SinkEnd)]]
      /\ sendState' \in [Msg -> SendState]
  BY <1>1, UnregisterSinkType
<1>3. CASE DialClosed(d, p)
  <2>1. conn' \in [Device -> [Device -> LinkState]]
    BY <1>3 DEF DialClosed, TypeOK, LinkState
  <2> QED BY <1>2, <1>3, <2>1 DEF DialClosed, TypeOK
<1>4. CASE AcceptClosed(d, p)
  BY <1>2, <1>4 DEF AcceptClosed, TypeOK, network
<1> QED BY <1>3, <1>4

-----------------------------------------------------------------------------
(* Faults. *)

LEMMA CutAtType ==
  ASSUME TypeOK, NEW d \in Device, NEW S \in SUBSET Device, NEW session \in LinkState,
         CutAt(d, S, session)
  PROVE  conn' \in [Device -> [Device -> LinkState]] /\ chan' \in ChanType
<1>1. conn' \in [Device -> [Device -> LinkState]]
  BY DEF CutAt, TypeOK, LinkState
<1>2. NoQueues \in [Role -> Seq(Envelope)] /\ <<>> \in Seq(Envelope)
  BY EmptySeq DEF NoQueues
<1>3. \A x, y \in Device :
        [chan[x][y] EXCEPT !["accept"] = <<>>,
                           !["dial"] = IF conn[x][y] = "up" THEN <<>> ELSE @]
          \in [Role -> Seq(Envelope)]
  <2> TAKE x, y \in Device
  <2>1. chan[x][y] \in [Role -> Seq(Envelope)]
    BY DEF TypeOK
  <2> QED BY <1>2, <2>1
<1>4. \A x, y \in Device : chan[x][y] \in [Role -> Seq(Envelope)]
  BY DEF TypeOK
<1>5. chan' \in ChanType
  BY <1>2, <1>3, <1>4 DEF CutAt, ChanType
<1> QED BY <1>1, <1>5

LEMMA RestartType ==
  ASSUME TypeOK, NEW d \in Device, Restart(d)
  PROVE  /\ conn' \in [Device -> [Device -> LinkState]] /\ chan' \in ChanType
         /\ sinks' \in [Device -> [Device -> Seq(SinkEnd)]]
         /\ applied' \in [Device -> [Device -> SUBSET Nat]]
         /\ pending' \in [Device -> [Device -> SUBSET (Nat \X Msg)]]
<1>1. "off" \in LinkState /\ Peers(d) \in SUBSET Device /\ <<>> \in Seq(SinkEnd)
  BY EmptySeq DEF LinkState, Peers
<1>2. conn' \in [Device -> [Device -> LinkState]] /\ chan' \in ChanType
  BY <1>1, CutAtType DEF Restart
<1> QED BY <1>1, <1>2 DEF Restart, TypeOK

LEMMA BreakType ==
  ASSUME TypeOK, NEW d \in Device, NEW p \in Device, Break(d, p)
  PROVE  TypeOK'
<1>1. conn' \in [Device -> [Device -> LinkState]] /\ faults' \in Nat
  BY DEF Break, Fault, TypeOK, LinkState
<1>2. <<>> \in Seq(Envelope)
  BY EmptySeq
<1>3. chan' \in ChanType
  <2> DEFINE half == [chan EXCEPT ![d][p]["dial"] = <<>>]
  <2>1. chan \in ChanType /\ "dial" \in Role /\ "accept" \in Role
    BY DEF TypeOK, ChanType, Role
  <2>2. half \in ChanType
    BY <1>2, <2>1 DEF ChanType
  <2>3. [half EXCEPT ![p][d]["accept"] = <<>>] \in ChanType
    <3> HIDE DEF half
    <3> QED BY <1>2, <2>1, <2>2 DEF ChanType
  <2>4. chan' = [half EXCEPT ![p][d]["accept"] = <<>>]
    BY DEF Break
  <2> QED BY <2>3, <2>4
<1> QED BY <1>1, <1>3 DEF Break, TypeOK, ChanType, durable, volatile

LEMMA ForceDisconnectType ==
  ASSUME TypeOK, NEW d \in Device, NEW p \in Device, ForceDisconnect(d, p)
  PROVE  TypeOK'
<1>1. "gone" \in LinkState /\ "queued" \in SendState /\ <<>> \in Seq(SinkEnd)
  BY EmptySeq DEF LinkState, SendState
<1>2. conn' \in [Device -> [Device -> LinkState]] /\ chan' \in ChanType
  BY <1>1, CutAtType DEF ForceDisconnect
<1>3. sendState' \in [Msg -> SendState]
  BY <1>1, RetagType DEF ForceDisconnect
<1>4. sinks' \in [Device -> [Device -> Seq(SinkEnd)]] /\ faults' \in Nat
  BY <1>1 DEF ForceDisconnect, Fault, TypeOK
<1> QED BY <1>2, <1>3, <1>4 DEF ForceDisconnect, TypeOK, ChanType

\* What is purged when a process starts again.
LEMMA PurgeType ==
  ASSUME TypeOK, NEW d \in Device, \E aged \in SUBSET Msg : Bury(d, {}, aged)
  PROVE  tombs' \in [Device -> SUBSET Msg] /\ forgotten' \in [Device -> SUBSET Msg]
BY Buried

LEMMA CrashType ==
  ASSUME TypeOK, NEW d \in Device, Crash(d)
  PROVE  TypeOK'
<1>1. faults' \in Nat
  BY DEF Crash, Fault, TypeOK
<1>2. tombs' \in [Device -> SUBSET Msg] /\ forgotten' \in [Device -> SUBSET Msg]
  BY PurgeType DEF Crash
<1> QED BY <1>1, <1>2, RestartType DEF Crash, TypeOK, ChanType

LEMMA TornSendType ==
  ASSUME TypeOK, NEW d \in Device, NEW p \in Device, NEW m \in Msg, TornSend(d, p, m)
  PROVE  TypeOK'
<1>1. faults' \in Nat
  BY DEF TornSend, Fault, TypeOK
<1>2. PICK state \in {"ok", OnTheWay(d, p)} : WriteOwn(d, p, m, state)
  BY DEF TornSend
<1>3. state \in SendState
  BY DEF OnTheWay, SendState
<1>4. /\ inbox' \in [Device -> [Device -> SUBSET Msg]]
      /\ sent' \in [Device -> [Device -> SUBSET Msg]]
      /\ sendState' \in [Msg -> SendState]
  BY <1>2, <1>3, WriteOwnType
<1>5. tombs' \in [Device -> SUBSET Msg] /\ forgotten' \in [Device -> SUBSET Msg]
  BY PurgeType DEF TornSend
<1> QED BY <1>1, <1>4, <1>5, RestartType DEF TornSend, TypeOK, ChanType

\* The op that arrives when the process ends, and what is purged at the start.
LEMMA TornOp ==
  ASSUME NEW d, NEW p, NEW r, TornApply(d, p, r)
  PROVE  /\ Head(chan[p][d][r]).type = "op"
         /\ \E aged \in SUBSET Msg : Apply(d, p, Head(chan[p][d][r]).body, aged)
BY DEF TornApply

LEMMA TornApplyType ==
  ASSUME TypeOK, NEW d \in Device, NEW p \in Device, NEW r \in Role, TornApply(d, p, r)
  PROVE  TypeOK'
<1>1. faults' \in Nat
  BY DEF TornApply, Fault, TypeOK
<1>2. Head(chan[p][d][r]) \in Envelope
  BY PoppedType DEF TornApply, Deliverable
<1>3. Head(chan[p][d][r]).body \in OpBody
  BY <1>2 DEF Envelope
<1>4. /\ inbox' \in [Device -> [Device -> SUBSET Msg]]
      /\ tombs' \in [Device -> SUBSET Msg] /\ forgotten' \in [Device -> SUBSET Msg]
      /\ sendState' \in [Msg -> SendState]
  BY <1>3, TornOp, ApplyType
<1> QED BY <1>1, <1>4, RestartType DEF TornApply, TypeOK, ChanType

LEMMA TornDeleteType ==
  ASSUME TypeOK, NEW d \in Device, NEW p \in Device, NEW ids \in SUBSET Msg,
         TornDelete(d, p, ids)
  PROVE  TypeOK'
<1>1. faults' \in Nat
  BY DEF TornDelete, Fault, TypeOK
<1>2. /\ inbox' \in [Device -> [Device -> SUBSET Msg]]
      /\ tombs' \in [Device -> SUBSET Msg] /\ forgotten' \in [Device -> SUBSET Msg]
      /\ sendState' \in [Msg -> SendState]
  BY RemoveRowsType DEF TornDelete
<1> QED BY <1>1, <1>2, RestartType DEF TornDelete, TypeOK, ChanType

LEMMA ExpireType ==
  ASSUME TypeOK, NEW d \in Device, NEW p \in Device, Expire(d, p)
  PROVE  TypeOK'
<1>1. PICK i \in DOMAIN log[d][p] : expired' = [expired EXCEPT ![d][p] = @ \cup {i}]
  BY DEF Expire
<1>2. log[d][p] \in Seq(OpBody) /\ expired[d][p] \in SUBSET Nat
  BY DEF TypeOK
<1>3. i \in Nat
  BY <1>2, LenProperties
<1>4. expired[d][p] \cup {i} \in SUBSET Nat
  BY <1>2, <1>3
<1>5. expired' \in [Device -> [Device -> SUBSET Nat]]
  BY <1>1, <1>4 DEF TypeOK
<1>6. faults' \in Nat
  BY DEF Expire, Fault, TypeOK
<1> QED BY <1>5, <1>6 DEF Expire, TypeOK, volatile, network

-----------------------------------------------------------------------------
(* Users. *)

LEMMA SendTextType ==
  ASSUME TypeOK, NEW d \in Device, NEW p \in Device, NEW m \in Msg, SendText(d, p, m)
  PROVE  TypeOK'
<1>1. OnTheWay(d, p) \in SendState /\ MsgOp(m) \in OpBody
  BY Constructors DEF OnTheWay, SendState
<1>2. NextSeq(d, p) \in Nat
  BY LenProperties DEF NextSeq, TypeOK
<1>3. /\ inbox' \in [Device -> [Device -> SUBSET Msg]]
      /\ sent' \in [Device -> [Device -> SUBSET Msg]]
      /\ sendState' \in [Msg -> SendState]
  BY <1>1, WriteOwnType DEF SendText
<1>4. /\ log' \in [Device -> [Device -> Seq(OpBody)]]
      /\ chan' \in ChanType /\ mail' \in MailType
  BY <1>1, AppendAndPushType DEF SendText
<1>5. pending' \in [Device -> [Device -> SUBSET (Nat \X Msg)]]
  <2>1. pending \in [Device -> [Device -> SUBSET (Nat \X Msg)]]
    BY DEF TypeOK
  <2>2. pending[d][p] \cup {<<NextSeq(d, p), m>>} \in SUBSET (Nat \X Msg)
    BY <1>2, <2>1
  <2> QED BY <2>1, <2>2 DEF SendText
<1> QED BY <1>3, <1>4, <1>5 DEF SendText, TypeOK, ChanType, MailType

LEMMA DeleteType ==
  ASSUME TypeOK, NEW d \in Device, NEW p \in Device, NEW ids \in SUBSET Msg,
         DeleteMessages(d, p, ids) \/ ClearAll(d, p)
  PROVE  TypeOK'
<1>1. inbox[d][p] \in SUBSET Msg /\ DeleteOp(ids) \in OpBody /\ ClearOp \in OpBody
  <2>1. inbox[d][p] \in SUBSET Msg
    BY DEF TypeOK
  <2> QED BY <2>1, Constructors
<1>2. /\ inbox' \in [Device -> [Device -> SUBSET Msg]]
      /\ tombs' \in [Device -> SUBSET Msg] /\ forgotten' \in [Device -> SUBSET Msg]
      /\ sendState' \in [Msg -> SendState]
  BY <1>1, RemoveRowsType DEF DeleteMessages, ClearAll
<1>3. /\ log' \in [Device -> [Device -> Seq(OpBody)]]
      /\ chan' \in ChanType /\ mail' \in MailType
  BY <1>1, AppendAndPushType DEF DeleteMessages, ClearAll
<1> QED BY <1>2, <1>3 DEF DeleteMessages, ClearAll, TypeOK, ChanType, MailType

-----------------------------------------------------------------------------
\* A step is one of the operations of one device towards one peer, or a stutter.
LEMMA StepCases ==
  ASSUME [Next]_vars
  PROVE  \/ UNCHANGED vars
         \/ \E d \in Device : \E p \in Peers(d) :
              UserStep(d, p) \/ LinkStep(d, p) \/ FaultStep(d, p)
BY DEF Next

LEMMA TypeStep ==
  ASSUME TypeOK, [Next]_vars
  PROVE  TypeOK'
<1>1. CASE UNCHANGED vars
  BY <1>1 DEF TypeOK, vars, durable, volatile, network
<1>2. ASSUME NEW d \in Device, NEW p \in Peers(d),
             UserStep(d, p) \/ LinkStep(d, p) \/ FaultStep(d, p)
      PROVE  TypeOK'
  <2>1. p \in Device
    BY DEF Peers
  <2>2. CASE UserStep(d, p)
    BY <2>1, <2>2, SendTextType, DeleteType DEF UserStep
  <2>3. CASE LinkStep(d, p)
    BY <2>1, <2>3, DialType, AcceptType, ClosedType, MailDeliverType, ReceiveType DEF LinkStep
  <2>4. CASE FaultStep(d, p)
    BY <2>1, <2>4, BreakType, ForceDisconnectType, CrashType, ExpireType, TornSendType,
       TornApplyType, TornDeleteType DEF FaultStep
  <2> QED BY <1>2, <2>2, <2>3, <2>4
<1> QED BY <1>1, <1>2, StepCases

LEMMA TypeInit == Init => TypeOK
<1>1. <<>> \in Seq(OpBody) /\ <<>> \in Seq(SinkEnd) /\ <<>> \in Seq(Envelope)
  BY EmptySeq
<1>2. "none" \in SendState /\ "off" \in LinkState
  BY DEF SendState, LinkState
<1> QED BY <1>1, <1>2 DEF Init, TypeOK, PerPeer, NoQueues

\* Every reachable state of OpSync has the types the code's tables, queues and link
\* states have: the invariant TypeOK, for all values of the constants.
THEOREM TypeCorrect == Spec => []TypeOK
BY TypeInit, TypeStep, PTL DEF Spec

-----------------------------------------------------------------------------
(* What is on its way, and what has arrived. *)

\* What x has sent to y and may still arrive
Flight(x, y) == mail[x][y] \cup UNION {ToSet(chan[x][y][r]) : r \in Role}

\* An envelope from x to y tells the truth about x
Honest(x, y, e) ==
  /\ e.type # "op" => e.seq <= myApplied[x][y]
  /\ e.type = "op" =>
       /\ e.seq \in DOMAIN log[x][y]
       /\ \/ e.body = log[x][y][e.seq]
          \/ e.body = NoOp /\ e.seq \in expired[x][y]

FlightHonest == \A x, y \in Device : \A e \in Flight(x, y) : Honest(x, y, e)

CompactedBehind == \A x, y \in Device : compacted[x][y] <= myApplied[y][x]

\* An op of y has had its effect at x
Done(x, y, body) ==
  /\ body.kind = "msg" => body.ids \subseteq inbox[x][y] \cup Deleted(x)
  /\ body.kind = "delete" => body.ids \subseteq Deleted(x)

\* pseqs of y that x counts as applied
Taken(x, y) == applied[x][y] \cup 1 .. myApplied[x][y]

TakenDone ==
  \A x, y \in Device : \A i \in Taken(x, y) :
    /\ i \in DOMAIN log[y][x]
    /\ i \in expired[y][x] \/ Done(x, y, log[y][x][i])

ExpiredDeletes ==
  \A x, y \in Device : \A i \in expired[x][y] :
    i \in DOMAIN log[x][y] /\ log[x][y][i].kind \in {"delete", "clear"}

SentLogged ==
  \A x, y \in Device : \A m \in sent[x][y] :
    \E i \in DOMAIN log[x][y] : log[x][y][i] = MsgOp(m)

IInv ==
  /\ TypeOK
  /\ FlightHonest
  /\ CompactedBehind
  /\ TakenDone
  /\ ExpiredDeletes
  /\ "torn_send" \notin Faults => SentLogged

-----------------------------------------------------------------------------
(* What a step does to the parts of the invariant. *)

LogKept ==
  \A x, y \in Device :
    /\ DOMAIN log[x][y] \subseteq DOMAIN log'[x][y]
    /\ \A i \in DOMAIN log[x][y] : log'[x][y][i] = log[x][y][i]

RowsKept ==
  \A x, y \in Device :
    /\ inbox[x][y] \cup Deleted(x) \subseteq inbox'[x][y] \cup Deleted(x)'
    /\ Deleted(x) \subseteq Deleted(x)'

CursorKept == \A x, y \in Device : myApplied[x][y] <= myApplied'[x][y]

ExpiryKept == \A x, y \in Device : expired[x][y] \subseteq expired'[x][y]

Grows == LogKept /\ RowsKept /\ CursorKept /\ ExpiryKept

NewHonest ==
  \A x, y \in Device : \A e \in Flight(x, y)' : e \in Flight(x, y) \/ Honest(x, y, e)'

\* compaction moves to a cursor that was reported
CompactReported ==
  \A x, y \in Device :
    \/ compacted'[x][y] = compacted[x][y]
    \/ \E e \in Flight(y, x) : e.type # "op" /\ compacted'[x][y] = e.seq

\* an op is counted as applied after its effect
NewDone ==
  \A x, y \in Device : \A i \in Taken(x, y)' :
    \/ i \in Taken(x, y)
    \/ \E e \in Flight(y, x) : e.type = "op" /\ e.seq = i /\ Done(x, y, e.body)'

NewExpired ==
  \A x, y \in Device : \A i \in expired'[x][y] :
    \/ i \in expired[x][y]
    \/ i \in DOMAIN log'[x][y] /\ log'[x][y][i].kind \in {"delete", "clear"}

NewSent ==
  \A x, y \in Device : \A m \in sent'[x][y] :
    m \in sent[x][y] \/ \E i \in DOMAIN log'[x][y] : log'[x][y][i] = MsgOp(m)

Progress ==
  /\ Grows /\ NewHonest /\ CompactReported /\ NewDone /\ NewExpired
  /\ "torn_send" \notin Faults => NewSent

-----------------------------------------------------------------------------
(* A step that makes progress keeps the invariant. *)

\* What was said truthfully stays true.
LEMMA StaysHonest ==
  ASSUME TypeOK, TypeOK', Grows, NEW x \in Device, NEW y \in Device, NEW e \in Envelope,
         Honest(x, y, e)
  PROVE  Honest(x, y, e)'
<1>1. /\ myApplied[x][y] \in Nat /\ myApplied'[x][y] \in Nat /\ e.seq \in Nat
      /\ myApplied[x][y] <= myApplied'[x][y]
  BY DEF TypeOK, Envelope, Grows, CursorKept
<1>2. /\ DOMAIN log[x][y] \subseteq DOMAIN log'[x][y]
      /\ \A i \in DOMAIN log[x][y] : log'[x][y][i] = log[x][y][i]
      /\ expired[x][y] \subseteq expired'[x][y]
  BY DEF Grows, LogKept, ExpiryKept
<1> QED BY <1>1, <1>2 DEF Honest

LEMMA StaysDone ==
  ASSUME Grows, NEW x \in Device, NEW y \in Device, NEW body, Done(x, y, body)
  PROVE  Done(x, y, body)'
<1>1. /\ inbox[x][y] \cup Deleted(x) \subseteq inbox'[x][y] \cup Deleted(x)'
      /\ Deleted(x) \subseteq Deleted(x)'
  BY DEF Grows, RowsKept
<1> QED BY <1>1 DEF Done

\* Envelopes on their way are envelopes.
LEMMA FlightType ==
  ASSUME TypeOK, NEW x \in Device, NEW y \in Device
  PROVE  Flight(x, y) \subseteq Envelope
<1>1. mail[x][y] \subseteq Envelope /\ \A r \in Role : chan[x][y][r] \in Seq(Envelope)
  BY DEF TypeOK
<1>2. \A r \in Role : ToSet(chan[x][y][r]) \subseteq Envelope
  BY <1>1 DEF ToSet
<1> QED BY <1>1, <1>2 DEF Flight

LEMMA ProgressKeeps ==
  ASSUME IInv, TypeOK', Progress PROVE IInv'
<1> USE DEF IInv, Progress
<1>1. FlightHonest'
  <2> SUFFICES ASSUME NEW x \in Device, NEW y \in Device, NEW e \in Flight(x, y)'
               PROVE  Honest(x, y, e)'
    BY DEF FlightHonest
  <2>1. CASE e \in Flight(x, y)
    BY <2>1, StaysHonest, FlightType DEF FlightHonest
  <2>2. CASE e \notin Flight(x, y)
    BY <2>2 DEF NewHonest
  <2> QED BY <2>1, <2>2
<1>2. CompactedBehind'
  <2> SUFFICES ASSUME NEW x \in Device, NEW y \in Device
               PROVE  compacted'[x][y] <= myApplied'[y][x]
    BY DEF CompactedBehind
  <2>1. /\ compacted[x][y] \in Nat /\ myApplied[y][x] \in Nat /\ myApplied'[y][x] \in Nat
        /\ compacted[x][y] <= myApplied[y][x] /\ myApplied[y][x] <= myApplied'[y][x]
    BY DEF TypeOK, CompactedBehind, Grows, CursorKept
  <2>2. CASE compacted'[x][y] = compacted[x][y]
    BY <2>1, <2>2
  <2>3. ASSUME NEW e \in Flight(y, x), e.type # "op", compacted'[x][y] = e.seq
        PROVE  compacted'[x][y] <= myApplied'[y][x]
    <3>1. e.seq <= myApplied[y][x] /\ e.seq \in Nat
      BY <2>3, FlightType DEF FlightHonest, Honest, Envelope
    <3> QED BY <2>1, <2>3, <3>1
  <2> QED BY <2>2, <2>3 DEF CompactReported
<1>3. TakenDone'
  <2> SUFFICES ASSUME NEW x \in Device, NEW y \in Device, NEW i \in Taken(x, y)'
               PROVE  /\ i \in DOMAIN log'[y][x]
                      /\ i \in expired'[y][x] \/ Done(x, y, log[y][x][i])'
    BY DEF TakenDone
  <2>0. /\ DOMAIN log[y][x] \subseteq DOMAIN log'[y][x]
        /\ \A j \in DOMAIN log[y][x] : log'[y][x][j] = log[y][x][j]
        /\ expired[y][x] \subseteq expired'[y][x]
    BY DEF Grows, LogKept, ExpiryKept
  <2>1. CASE i \in Taken(x, y)
    <3>1. i \in DOMAIN log[y][x] /\ (i \in expired[y][x] \/ Done(x, y, log[y][x][i]))
      BY <2>1 DEF TakenDone
    <3>2. i \in DOMAIN log'[y][x] /\ log'[y][x][i] = log[y][x][i]
      BY <2>0, <3>1
    <3>3. CASE i \in expired[y][x]
      BY <2>0, <3>2, <3>3
    <3>4. CASE Done(x, y, log[y][x][i])
      <4>1. Done(x, y, log[y][x][i])'
        BY <3>4, <3>2, StaysDone DEF Done
      <4> QED BY <3>2, <4>1
    <3> QED BY <3>1, <3>3, <3>4
  <2>2. ASSUME NEW e \in Flight(y, x), e.type = "op", e.seq = i, Done(x, y, e.body)'
        PROVE  /\ i \in DOMAIN log'[y][x]
               /\ i \in expired'[y][x] \/ Done(x, y, log[y][x][i])'
    <3>1. i \in DOMAIN log[y][x] /\ (e.body = log[y][x][i] \/ i \in expired[y][x])
      BY <2>2 DEF FlightHonest, Honest
    <3>2. i \in DOMAIN log'[y][x] /\ log'[y][x][i] = log[y][x][i]
      BY <2>0, <3>1
    <3> QED BY <2>0, <2>2, <3>1, <3>2 DEF Done
  <2> QED BY <2>1, <2>2 DEF NewDone
<1>4. ExpiredDeletes'
  <2> SUFFICES ASSUME NEW x \in Device, NEW y \in Device, NEW i \in expired'[x][y]
               PROVE  i \in DOMAIN log'[x][y] /\ log'[x][y][i].kind \in {"delete", "clear"}
    BY DEF ExpiredDeletes
  <2>1. CASE i \in expired[x][y]
    <3>1. i \in DOMAIN log[x][y] /\ log[x][y][i].kind \in {"delete", "clear"}
      BY <2>1 DEF ExpiredDeletes
    <3> QED BY <3>1 DEF Grows, LogKept
  <2> QED BY <2>1 DEF NewExpired
<1>5. ASSUME "torn_send" \notin Faults PROVE SentLogged'
  <2> SUFFICES ASSUME NEW x \in Device, NEW y \in Device, NEW m \in sent'[x][y]
               PROVE  \E i \in DOMAIN log'[x][y] : log'[x][y][i] = MsgOp(m)
    BY DEF SentLogged, MsgOp
  <2>1. CASE m \in sent[x][y]
    <3>1. PICK i \in DOMAIN log[x][y] : log[x][y][i] = MsgOp(m)
      BY <1>5, <2>1 DEF SentLogged
    <3> QED BY <3>1 DEF Grows, LogKept
  <2> QED BY <1>5, <2>1 DEF NewSent
<1> QED BY <1>1, <1>2, <1>3, <1>4, <1>5

-----------------------------------------------------------------------------
(* The building blocks: the network. *)

LEMMA ConcatSet ==
  ASSUME NEW s \in Seq(Envelope), NEW t \in Seq(Envelope), NEW e \in ToSet(s \o t)
  PROVE  e \in ToSet(s) \/ e \in ToSet(t)
<1>1. PICK i \in DOMAIN (s \o t) : (s \o t)[i] = e
  BY DEF ToSet
<1>2. /\ Len(s) \in Nat /\ Len(t) \in Nat
      /\ DOMAIN s = 1 .. Len(s) /\ DOMAIN t = 1 .. Len(t)
      /\ DOMAIN (s \o t) = 1 .. Len(s) + Len(t)
  BY LenProperties, ConcatProperties
<1>3. CASE i <= Len(s)
  BY <1>1, <1>2, <1>3, ConcatProperties DEF ToSet
<1>4. CASE i > Len(s)
  <2>1. i - Len(s) \in DOMAIN t /\ e = t[i - Len(s)]
    BY <1>1, <1>2, <1>4, ConcatProperties
  <2> QED BY <2>1 DEF ToSet
<1> QED BY <1>1, <1>2, <1>3, <1>4

\* q holds no envelope that is not already in chan
Shrunk(q) == \A x, y \in Device : \A r \in Role : ToSet(q[x][y][r]) \subseteq ToSet(chan[x][y][r])

\* Pushing adds the envelopes pushed, and nothing else, to what is on its way.
LEMMA PushFlight ==
  ASSUME TypeOK, NEW d \in Device, NEW p \in Device, NEW envs \in Seq(Envelope),
         NEW q \in ChanType, Shrunk(q), Push(d, p, envs, q),
         NEW x \in Device, NEW y \in Device, NEW e \in Flight(x, y)'
  PROVE  e \in Flight(x, y) \/ (x = d /\ y = p /\ e \in ToSet(envs))
<1>1. CASE e \in mail'[x][y]
  <2>1. mail' = [mail EXCEPT ![d][p] = @ \cup MailCopies(envs)]
    BY DEF Push
  <2>2. MailCopies(envs) \subseteq ToSet(envs)
    BY DEF MailCopies
  <2>3. e \in mail[x][y] \/ (x = d /\ y = p /\ e \in ToSet(envs))
    BY <1>1, <2>1, <2>2 DEF TypeOK
  <2> QED BY <2>3 DEF Flight
<1>2. ASSUME NEW r \in Role, e \in ToSet(chan'[x][y][r])
      PROVE  e \in Flight(x, y) \/ (x = d /\ y = p /\ e \in ToSet(envs))
  <2>1. chan' = [q EXCEPT ![d][p] = PushTo(@, sinks[d][p], Live(d, p), envs)]
    BY DEF Push
  <2>2. q[x][y] \in [Role -> Seq(Envelope)] /\ q[x][y][r] \in Seq(Envelope)
    BY DEF ChanType
  <2>3. ToSet(q[x][y][r]) \subseteq Flight(x, y)
    BY DEF Shrunk, Flight
  <2>4. CASE x = d /\ y = p
    <3>1. chan'[x][y] = PushTo(q[x][y], sinks[d][p], Live(d, p), envs)
      BY <2>1, <2>4 DEF ChanType
    <3>2. chan'[x][y][r] = q[x][y][r] \/ chan'[x][y][r] = q[x][y][r] \o envs
      BY <2>2, <3>1 DEF PushTo
    <3> QED BY <1>2, <2>2, <2>3, <2>4, <3>2, ConcatSet
  <2>5. CASE ~(x = d /\ y = p)
    <3>1. chan'[x][y] = q[x][y]
      BY <2>1, <2>5 DEF ChanType
    <3> QED BY <1>2, <2>3, <3>1
  <2> QED BY <2>4, <2>5
<1> QED BY <1>1, <1>2 DEF Flight

\* A new profile op and the Hello of a dialing end are what a new link adds.
LEMMA RegisterFlight ==
  ASSUME TypeOK, NEW d \in Device, NEW p \in Device, NEW sinkSeq \in Seq(SinkEnd),
         NEW envs \in Seq(Envelope), Last(sinkSeq) \in Role,
         RegisterSink(d, p, sinkSeq, envs, chan),
         NEW x \in Device, NEW y \in Device, NEW e \in Flight(x, y)'
  PROVE  \/ e \in Flight(x, y)
         \/ /\ x = d /\ y = p
            /\ e \in ToSet(envs) \/ (HasProfile /\ e = OpEnv(NextSeq(d, p), ProfileOp))
<1> DEFINE one   == <<OpEnv(NextSeq(d, p), ProfileOp)>>
           first == IF HasProfile THEN one ELSE <<>>
<1>0. NextSeq(d, p) \in Nat /\ one \in Seq(Envelope) /\ first \in Seq(Envelope)
  <2>1. NextSeq(d, p) \in Nat
    BY LenProperties DEF NextSeq, TypeOK
  <2> QED BY <2>1, Constructors, EmptySeq
<1>1. \A f \in ToSet(first) : HasProfile /\ f = OpEnv(NextSeq(d, p), ProfileOp)
  BY DEF ToSet
<1>2. CASE e \in mail'[x][y]
  <2>1. mail' = [mail EXCEPT ![d][p] = @ \cup MailCopies(first)]
    BY DEF RegisterSink
  <2>2. MailCopies(first) \subseteq ToSet(first)
    BY DEF MailCopies
  <2>3. e \in mail[x][y] \/ (x = d /\ y = p /\ e \in ToSet(first))
    <3> HIDE DEF first
    <3> QED BY <1>2, <2>1, <2>2 DEF TypeOK
  <2> QED BY <1>1, <2>3 DEF Flight
<1>3. ASSUME NEW r \in Role, e \in ToSet(chan'[x][y][r])
      PROVE  e \in Flight(x, y) \/ (x = d /\ y = p /\ e \in ToSet(first) \cup ToSet(envs))
  <2>1. chan' = [chan EXCEPT ![d][p][Last(sinkSeq)] = first \o envs]
    BY DEF RegisterSink
  <2>2. chan'[x][y][r] = chan[x][y][r] \/ (x = d /\ y = p /\ chan'[x][y][r] = first \o envs)
    <3> DEFINE new == first \o envs
               k   == Last(sinkSeq)
    <3>1. chan \in ChanType /\ chan' = [chan EXCEPT ![d][p][k] = new]
      BY <2>1 DEF TypeOK, ChanType
    <3> HIDE DEF new, k
    <3>2. chan'[x][y][r] = chan[x][y][r] \/ (x = d /\ y = p /\ chan'[x][y][r] = new)
      BY <3>1 DEF ChanType
    <3> QED BY <3>2 DEF new
  <2>3. ToSet(chan[x][y][r]) \subseteq Flight(x, y)
    BY DEF Flight
  <2> HIDE DEF first
  <2> QED BY <1>0, <1>3, <2>2, <2>3, ConcatSet
<1> QED BY <1>1, <1>2, <1>3 DEF Flight

-----------------------------------------------------------------------------
(* The building blocks: local changes. *)

\* appendOp adds one row; the envelope pushed for it says what the row says.
LEMMA AppendKeeps ==
  ASSUME TypeOK, TypeOK', NEW d \in Device, NEW p \in Device, NEW body \in OpBody,
         AppendAndPush(d, p, body)
  PROVE  /\ LogKept /\ NewHonest
         /\ NextSeq(d, p) \in DOMAIN log'[d][p] /\ log'[d][p][NextSeq(d, p)] = body
<1> DEFINE n == NextSeq(d, p)
<1>1. /\ log[d][p] \in Seq(OpBody) /\ Len(log[d][p]) \in Nat
      /\ DOMAIN log[d][p] = 1 .. Len(log[d][p])
  BY LenProperties DEF TypeOK
<1>2. log' = [log EXCEPT ![d][p] = Append(@, body)]
  BY DEF AppendAndPush
<1>3. log'[d][p] = Append(log[d][p], body)
  BY <1>2 DEF TypeOK
<1>4. /\ DOMAIN log'[d][p] = 1 .. n /\ n \in Nat /\ log'[d][p][n] = body
      /\ \A i \in 1 .. Len(log[d][p]) : log'[d][p][i] = log[d][p][i]
  BY <1>1, <1>3, AppendProperties DEF NextSeq
<1>5. n \in DOMAIN log'[d][p] /\ log'[d][p][n] = body
  BY <1>1, <1>4 DEF NextSeq
<1>6. LogKept
  <2> SUFFICES ASSUME NEW x \in Device, NEW y \in Device
               PROVE  /\ DOMAIN log[x][y] \subseteq DOMAIN log'[x][y]
                      /\ \A i \in DOMAIN log[x][y] : log'[x][y][i] = log[x][y][i]
    BY DEF LogKept
  <2>0. 1 .. Len(log[d][p]) \subseteq 1 .. n
    BY <1>1 DEF NextSeq
  <2>1. CASE x = d /\ y = p
    BY <1>1, <1>4, <2>0, <2>1
  <2>2. CASE ~(x = d /\ y = p)
    <3>1. log'[x][y] = log[x][y]
      BY <1>2, <2>2 DEF TypeOK
    <3> QED BY <3>1
  <2> QED BY <2>1, <2>2
<1>7. NewHonest
  <2> SUFFICES ASSUME NEW x \in Device, NEW y \in Device, NEW e \in Flight(x, y)'
               PROVE  e \in Flight(x, y) \/ Honest(x, y, e)'
    BY DEF NewHonest
  <2>1. Shrunk(chan) /\ chan \in ChanType
    BY DEF Shrunk, TypeOK, ChanType
  <2>2. <<OpEnv(n, body)>> \in Seq(Envelope)
    BY <1>4, Constructors
  <2>3. e \in Flight(x, y) \/ (x = d /\ y = p /\ e = OpEnv(n, body))
    <3>1. \A f \in ToSet(<<OpEnv(n, body)>>) : f = OpEnv(n, body)
      BY DEF ToSet
    <3>2. Push(d, p, <<OpEnv(n, body)>>, chan)
      BY DEF AppendAndPush
    <3> DEFINE envs == <<OpEnv(n, body)>>
    <3>3. envs \in Seq(Envelope) /\ Push(d, p, envs, chan)
      BY <2>2, <3>2
    <3>4. \A f \in ToSet(envs) : f = OpEnv(n, body)
      BY <3>1
    <3> HIDE DEF envs
    <3>5. e \in Flight(x, y) \/ (x = d /\ y = p /\ e \in ToSet(envs))
      BY <2>1, <3>3, PushFlight
    <3> QED BY <3>4, <3>5
  <2>4. ASSUME x = d, y = p, e = OpEnv(n, body) PROVE Honest(x, y, e)'
    BY <1>5, <2>4 DEF Honest, OpEnv
  <2> QED BY <2>3, <2>4
<1> QED BY <1>5, <1>6, <1>7

\* Nothing is deleted; at most something is forgotten.
NoneBuried == \A x \in Device : tombs'[x] \subseteq tombs[x] /\ Deleted(x)' = Deleted(x)

LEMMA Unburied ==
  /\ UNCHANGED <<tombs, forgotten>> => NoneBuried
  /\ TypeOK => \A d \in Device : (\E aged : Bury(d, {}, aged)) => NoneBuried
<1>1. UNCHANGED <<tombs, forgotten>> => NoneBuried
  BY DEF NoneBuried, Deleted
<1>2. ASSUME TypeOK, NEW d \in Device, NEW aged, Bury(d, {}, aged) PROVE NoneBuried
  <2>1. /\ \A x \in Device : Deleted(x)' = IF x = d THEN Deleted(x) \cup {} ELSE Deleted(x)
        /\ \A x \in Device : tombs'[x] \subseteq IF x = d THEN tombs[x] \cup {} ELSE tombs[x]
    BY <1>2, Buried
  <2> QED BY <2>1 DEF NoneBuried
<1> QED BY <1>1, <1>2

\* Where nothing is deleted, rows stay.
LEMMA RowsStay ==
  ASSUME NoneBuried, \A x, y \in Device : inbox[x][y] \subseteq inbox'[x][y]
  PROVE  RowsKept
BY DEF NoneBuried, RowsKept

\* Rows that are deleted stay known as deleted.
LEMMA RemoveKeeps ==
  ASSUME TypeOK, NEW d \in Device, NEW p \in Device, NEW ids \in SUBSET Msg, NEW aged,
         RemoveRows(d, p, ids, aged)
  PROVE  RowsKept /\ ids \subseteq Deleted(d)'
<1>1. \A x \in Device : Deleted(x)' = IF x = d THEN Deleted(x) \cup ids ELSE Deleted(x)
  BY Buried DEF RemoveRows
<1>2. \A x, y \in Device :
        inbox'[x][y] = IF x = d /\ y = p THEN inbox[x][y] \ ids ELSE inbox[x][y]
  BY DEF RemoveRows, TypeOK
<1> QED BY <1>1, <1>2 DEF RowsKept

LEMMA WriteOwnKeeps ==
  ASSUME TypeOK, NEW d \in Device, NEW p \in Device, NEW m \in Msg, NEW state,
         WriteOwn(d, p, m, state), NoneBuried
  PROVE  /\ RowsKept
         /\ \A x, y \in Device : \A k \in sent'[x][y] :
              k \in sent[x][y] \/ (x = d /\ y = p /\ k = m)
<1>1. \A x, y \in Device : inbox[x][y] \subseteq inbox'[x][y]
  BY DEF WriteOwn, TypeOK
<1>2. \A x, y \in Device : \A k \in sent'[x][y] :
        k \in sent[x][y] \/ (x = d /\ y = p /\ k = m)
  BY DEF WriteOwn, TypeOK
<1> QED BY <1>1, <1>2, RowsStay

\* Applying an op of p at d has the effect that TakenDone speaks of.
LEMMA ApplyKeeps ==
  ASSUME TypeOK, NEW d \in Device, NEW p \in Device, NEW body \in OpBody, NEW aged,
         Apply(d, p, body, aged)
  PROVE  RowsKept /\ Done(d, p, body)'
<1>1. body.ids \in SUBSET Msg /\ inbox[d][p] \in SUBSET Msg
  BY DEF OpBody, TypeOK
<1>2. CASE body.kind = "msg"
  <2>1. /\ inbox' = [inbox EXCEPT ![d][p] = @ \cup (body.ids \ tombs[d])]
        /\ NoneBuried
    BY <1>2, Unburied DEF Apply
  <2>2. \A x, y \in Device : inbox[x][y] \subseteq inbox'[x][y]
    BY <2>1 DEF TypeOK
  <2>3. body.ids \subseteq inbox'[d][p] \cup tombs[d]
    BY <2>1 DEF TypeOK
  <2>4. tombs[d] \subseteq Deleted(d)'
    BY <2>1 DEF NoneBuried, Deleted
  <2> QED BY <1>2, <2>1, <2>2, <2>3, <2>4, RowsStay DEF Done
<1>3. CASE body.kind = "delete"
  BY <1>1, <1>3, RemoveKeeps DEF Apply, Done
<1>4. CASE body.kind = "clear"
  BY <1>1, <1>4, RemoveKeeps DEF Apply, Done
<1>5. CASE body.kind \in {"profile", "noop"}
  <2>1. UNCHANGED inbox /\ NoneBuried
    BY <1>5, Unburied DEF Apply
  <2>2. RowsKept
    BY <2>1, RowsStay
  <2> QED BY <1>5, <2>2 DEF Done
<1> QED BY <1>2, <1>3, <1>4, <1>5 DEF Apply

\* Nothing is counted as applied unless applied, myApplied change.
LEMMA QuietCursors ==
  ASSUME TypeOK, UNCHANGED myApplied,
         \A x, y \in Device : applied'[x][y] \subseteq applied[x][y]
  PROVE  CursorKept /\ NewDone
<1>1. CursorKept
  BY DEF CursorKept, TypeOK
<1>2. \A x, y \in Device : Taken(x, y)' \subseteq Taken(x, y)
  BY DEF Taken
<1> QED BY <1>1, <1>2 DEF NewDone

-----------------------------------------------------------------------------
(* The steps of the users. *)

LEMMA SendTextProgress ==
  ASSUME TypeOK, TypeOK', NEW d \in Device, NEW p \in Device, NEW m \in Msg, SendText(d, p, m)
  PROVE  Progress
<1>1. MsgOp(m) \in OpBody
  BY Constructors
<1>2. /\ LogKept /\ NewHonest
      /\ NextSeq(d, p) \in DOMAIN log'[d][p] /\ log'[d][p][NextSeq(d, p)] = MsgOp(m)
  BY <1>1, AppendKeeps DEF SendText
<1>3. RowsKept /\ \A x, y \in Device : \A k \in sent'[x][y] :
                    k \in sent[x][y] \/ (x = d /\ y = p /\ k = m)
  BY WriteOwnKeeps, Unburied DEF SendText
<1>4. CursorKept /\ NewDone
  BY QuietCursors DEF SendText
<1>5. ExpiryKept /\ CompactReported /\ NewExpired
  BY DEF SendText, ExpiryKept, CompactReported, NewExpired
<1>6. NewSent
  BY <1>2, <1>3 DEF NewSent
<1> QED BY <1>2, <1>3, <1>4, <1>5, <1>6 DEF Progress, Grows

LEMMA DeleteProgress ==
  ASSUME TypeOK, TypeOK', NEW d \in Device, NEW p \in Device, NEW ids \in SUBSET Msg,
         DeleteMessages(d, p, ids) \/ ClearAll(d, p)
  PROVE  Progress
<1>1. /\ DeleteOp(ids) \in OpBody /\ ClearOp \in OpBody
      /\ inbox[d][p] \in SUBSET Msg
  <2>1. inbox[d][p] \in SUBSET Msg
    BY DEF TypeOK
  <2> QED BY <2>1, Constructors
<1>2. LogKept /\ NewHonest
  BY <1>1, AppendKeeps DEF DeleteMessages, ClearAll
<1>3. RowsKept
  BY <1>1, RemoveKeeps DEF DeleteMessages, ClearAll
<1>4. CursorKept /\ NewDone
  BY QuietCursors DEF DeleteMessages, ClearAll
<1>5. ExpiryKept /\ CompactReported /\ NewExpired /\ NewSent
  BY DEF DeleteMessages, ClearAll, ExpiryKept, CompactReported, NewExpired, NewSent
<1> QED BY <1>2, <1>3, <1>4, <1>5 DEF Progress, Grows

-----------------------------------------------------------------------------
(* Arriving envelopes. *)

\* A replay sends rows of the log, or noops in the place of expired ones.
LEMMA OpsSinceHonest ==
  ASSUME TypeOK, NEW d \in Device, NEW p \in Device, NEW cursor \in Nat,
         NEW f \in ToSet(OpsSince(d, p, cursor))
  PROVE  Honest(d, p, f)
<1> DEFINE low == IF cursor > compacted[d][p] THEN cursor ELSE compacted[d][p]
<1>1. low \in Nat /\ Len(log[d][p]) \in Nat /\ DOMAIN log[d][p] = 1 .. Len(log[d][p])
  BY LenProperties DEF TypeOK
<1> HIDE DEF low
<1>2. PICK i \in 1 .. Len(log[d][p]) - low :
        f = OpEnv(low + i, IF low + i \in expired[d][p] THEN NoOp ELSE log[d][p][low + i])
  BY DEF OpsSince, ToSet, low
<1>3. low + i \in DOMAIN log[d][p]
  BY <1>1
<1> QED BY <1>2, <1>3 DEF Honest, OpEnv

\* The branch of _advanceCursor for an op above the cursor.
LEMMA AdvancePast ==
  ASSUME NEW d, NEW p, NEW s, NEW q, AdvanceCursor(d, p, s, q), ~(s <= myApplied[d][p])
  PROVE  \E k \in applied[d][p] \cup {s} \cup {myApplied[d][p]} :
           /\ applied' = [applied EXCEPT ![d][p] = applied[d][p] \cup {s}]
           /\ PrefixEnd(myApplied[d][p], applied[d][p] \cup {s}, k)
           /\ myApplied' = [myApplied EXCEPT ![d][p] = k]
           /\ Push(d, p, Reply(myApplied[d][p], s, k), q)
BY Zenon DEF AdvanceCursor

LEMMA PrefixRun ==
  ASSUME NEW c \in Nat, NEW g \in SUBSET Nat, NEW k, PrefixEnd(c, g, k)
  PROVE  k \in Nat /\ k >= c /\ (c + 1) .. k \subseteq g
BY DEF PrefixEnd

\* The cursor and the set of applied ops grow by the handled op only; what is sent in
\* answer reports the cursor, or what it was.
LEMMA AdvanceKeeps ==
  ASSUME TypeOK, TypeOK', NEW d \in Device, NEW p \in Device, NEW s \in Nat,
         NEW q \in ChanType, Shrunk(q), AdvanceCursor(d, p, s, q)
  PROVE  /\ CursorKept /\ NewHonest
         /\ \A x, y \in Device : \A i \in Taken(x, y)' :
              i \in Taken(x, y) \/ (x = d /\ y = p /\ i = s)
<1> DEFINE cur == myApplied[d][p]
           set == applied[d][p] \cup {s}
<1>1. cur \in Nat /\ set \in SUBSET Nat
  <2>1. /\ myApplied \in [Device -> [Device -> Nat]]
        /\ applied \in [Device -> [Device -> SUBSET Nat]]
    BY DEF TypeOK
  <2>2. myApplied[d][p] \in Nat /\ applied[d][p] \in SUBSET Nat
    BY <2>1
  <2> QED BY <2>2
<1>2. CASE s <= cur
  <2>1. UNCHANGED <<applied, myApplied>> /\ Push(d, p, <<>>, q)
    BY <1>1, <1>2 DEF AdvanceCursor
  <2>2. <<>> \in Seq(Envelope) /\ \A f : f \notin ToSet(<<>>)
    BY EmptySeq DEF ToSet
  <2>3. NewHonest
    <3> SUFFICES ASSUME NEW x \in Device, NEW y \in Device, NEW f \in Flight(x, y)'
                 PROVE  f \in Flight(x, y)
      BY DEF NewHonest
    <3> HIDE DEF cur, set
    <3>1. Push(d, p, <<>>, q) /\ f \notin ToSet(<<>>)
      BY <2>1, <2>2
    <3>2. f \in Flight(x, y) \/ (x = d /\ y = p /\ f \in ToSet(<<>>))
      BY <2>2, <3>1, PushFlight
    <3> QED BY <3>1, <3>2
  <2>4. CursorKept
    BY <2>1 DEF CursorKept, TypeOK
  <2> QED BY <2>1, <2>3, <2>4 DEF Taken
<1>3. CASE s > cur
  <2>0. ~(s <= myApplied[d][p])
    BY <1>1, <1>3
  <2>1. PICK k \in set \cup {cur} :
          /\ applied' = [applied EXCEPT ![d][p] = set]
          /\ PrefixEnd(cur, set, k)
          /\ myApplied' = [myApplied EXCEPT ![d][p] = k]
          /\ Push(d, p, Reply(cur, s, k), q)
    BY Zenon, <2>0, AdvancePast
  <2>2. applied' = [applied EXCEPT ![d][p] = set]
    BY <2>1
  <2>3. k \in Nat /\ k >= cur /\ (cur + 1) .. k \subseteq set
    <3> HIDE DEF cur, set
    <3> QED BY <1>1, <2>1, PrefixRun
  <2>4. CursorKept
    <3>1. myApplied \in [Device -> [Device -> Nat]] /\ k \in Nat /\ k >= myApplied[d][p]
      BY <2>3 DEF TypeOK
    <3>2. myApplied' = [myApplied EXCEPT ![d][p] = k]
      BY <2>1
    <3> QED BY <3>1, <3>2 DEF CursorKept
  <2>5. myApplied'[d][p] = k
    BY <2>1 DEF TypeOK
  <2>6. NewHonest
    <3> DEFINE reply == Reply(cur, s, k)
    <3>1. reply \in {<<Ack(k)>>, <<Hello(cur)>>, <<>>}
      BY DEF Reply
    <3>2. /\ <<Ack(k)>> \in Seq(Envelope) /\ <<Hello(cur)>> \in Seq(Envelope)
          /\ <<>> \in Seq(Envelope)
      BY <1>1, <2>3, Constructors, EmptySeq
    <3>3. \A f \in ToSet(reply) : f \in {Ack(k), Hello(cur)}
      BY <3>1 DEF ToSet
    <3>4. \A f \in {Ack(k), Hello(cur)} : Honest(d, p, f)'
      BY <1>1, <2>3, <2>5 DEF Honest, Ack, Hello
    <3>5. reply \in Seq(Envelope) /\ Push(d, p, reply, q)
      BY <2>1, <3>1, <3>2
    <3> HIDE DEF reply
    <3> SUFFICES ASSUME NEW x \in Device, NEW y \in Device, NEW f \in Flight(x, y)'
                 PROVE  f \in Flight(x, y) \/ Honest(x, y, f)'
      BY DEF NewHonest
    <3>6. f \in Flight(x, y) \/ (x = d /\ y = p /\ f \in ToSet(reply))
      BY <3>5, PushFlight
    <3> QED BY <3>3, <3>4, <3>6
  <2>7. \A x, y \in Device : \A i \in Taken(x, y)' :
          i \in Taken(x, y) \/ (x = d /\ y = p /\ i = s)
    <3> SUFFICES ASSUME NEW x \in Device, NEW y \in Device, NEW i \in Taken(x, y)'
                 PROVE  i \in Taken(x, y) \/ (x = d /\ y = p /\ i = s)
      OBVIOUS
    <3>1. CASE x = d /\ y = p
      <4>1. i \in set \/ i \in 1 .. k
        BY <2>2, <2>5, <3>1 DEF Taken, TypeOK
      <4>2. i \in set \/ i \in 1 .. cur
        BY <1>1, <2>3, <4>1
      <4> QED BY <3>1, <4>2 DEF Taken
    <3>2. CASE ~(x = d /\ y = p)
      <4>1. applied'[x][y] = applied[x][y]
        BY <2>2, <3>2 DEF TypeOK
      <4>2. myApplied'[x][y] = myApplied[x][y]
        BY <2>1, <3>2 DEF TypeOK
      <4> QED BY <4>1, <4>2 DEF Taken
    <3> QED BY <3>1, <3>2
  <2> QED BY <2>4, <2>6, <2>7
<1> QED BY <1>1, <1>2, <1>3

LEMMA HandleProgress ==
  ASSUME TypeOK, TypeOK', NEW d \in Device, NEW p \in Device, NEW e \in Flight(p, d),
         NEW q \in ChanType, Shrunk(q), Handle(d, p, e, q)
  PROVE  Progress
<1>1. e \in Envelope /\ e.seq \in Nat /\ e.body \in OpBody
  BY FlightType DEF Envelope
<1>2. ASSUME NEW envs \in Seq(Envelope), e.type # "op", Acked(d, p, e.seq), Push(d, p, envs, q),
             UNCHANGED <<inbox, tombs, forgotten, sent, log, expired, myApplied, applied>>,
             \A f \in ToSet(envs) : Honest(d, p, f)
      PROVE  Progress
  <2>1. LogKept /\ RowsKept /\ ExpiryKept /\ NewExpired /\ NewSent
    BY <1>2, Unburied, RowsStay DEF LogKept, ExpiryKept, NewExpired, NewSent
  <2>2. CursorKept /\ NewDone
    BY <1>2, QuietCursors
  <2>3. NewHonest
    <3>1. \A f \in ToSet(envs) : Honest(d, p, f)'
      BY <1>2 DEF Honest
    <3> QED BY <1>2, <3>1, PushFlight DEF NewHonest
  <2>4. CompactReported
    <3>1. compacted' = [compacted EXCEPT ![d][p] = IF e.seq > @ THEN e.seq ELSE @]
      BY <1>2 DEF Acked, AckPending
    <3>2. ASSUME NEW x \in Device, NEW y \in Device
          PROVE  \/ compacted'[x][y] = compacted[x][y]
                 \/ x = d /\ y = p /\ compacted'[x][y] = e.seq
      <4> DEFINE low == IF e.seq > compacted[d][p] THEN e.seq ELSE compacted[d][p]
      <4>1. low = compacted[d][p] \/ low = e.seq
        OBVIOUS
      <4>2. /\ compacted' = [compacted EXCEPT ![d][p] = low]
            /\ compacted \in [Device -> [Device -> Nat]]
        BY <3>1 DEF TypeOK
      <4> HIDE DEF low
      <4>3. compacted'[x][y] = compacted[x][y] \/ (x = d /\ y = p /\ compacted'[x][y] = low)
        BY <4>2
      <4> QED BY <4>1, <4>3
    <3> QED BY <1>2, <3>2 DEF CompactReported
  <2> QED BY <2>1, <2>2, <2>3, <2>4 DEF Progress, Grows
<1>3. CASE HandleHello(d, p, e, q)
  <2>1. OpsSince(d, p, e.seq) \in Seq(Envelope)
    BY <1>1, OpsSinceType
  <2>2. \A f \in ToSet(OpsSince(d, p, e.seq)) : Honest(d, p, f)
    BY <1>1, OpsSinceHonest
  <2> QED BY <1>2, <1>3, <2>1, <2>2 DEF HandleHello
<1>4. CASE HandleAck(d, p, e, q)
  <2>1. <<>> \in Seq(Envelope) /\ \A f : f \notin ToSet(<<>>)
    BY EmptySeq DEF ToSet
  <2> QED BY <1>2, <1>4, <2>1 DEF HandleAck
<1>5. CASE HandleOp(d, p, e, q)
  <2>1. /\ CursorKept /\ NewHonest
        /\ \A x, y \in Device : \A i \in Taken(x, y)' :
             i \in Taken(x, y) \/ (x = d /\ y = p /\ i = e.seq)
    BY <1>1, <1>5, AdvanceKeeps DEF HandleOp
  <2>2. RowsKept /\ Done(d, p, e.body)'
    BY <1>1, <1>5, ApplyKeeps DEF HandleOp
  <2>3. NewDone
    BY <1>5, <2>1, <2>2 DEF NewDone, HandleOp
  <2>4. LogKept /\ ExpiryKept /\ CompactReported /\ NewExpired /\ NewSent
    BY <1>5 DEF HandleOp, LogKept, ExpiryKept, CompactReported, NewExpired, NewSent
  <2> QED BY <2>1, <2>2, <2>3, <2>4 DEF Progress, Grows
<1> QED BY <1>3, <1>4, <1>5 DEF Handle

LEMMA ReceiveProgress ==
  ASSUME TypeOK, TypeOK', NEW d \in Device, NEW p \in Device, NEW r \in Role, Receive(d, p, r)
  PROVE  Progress
<1> DEFINE q == [chan EXCEPT ![p][d][r] = Tail(@)]
<1>1. chan[p][d][r] # <<>> /\ chan[p][d][r] \in Seq(Envelope)
  BY DEF Receive, Deliverable, TypeOK
<1>2. q \in ChanType
  BY <1>1, PoppedType
<1>3. Head(chan[p][d][r]) \in Flight(p, d)
  BY <1>1, LenProperties DEF Flight, ToSet
<1>4. ToSet(Tail(chan[p][d][r])) \subseteq ToSet(chan[p][d][r])
  BY <1>1, HeadTailProperties, LenProperties DEF ToSet
<1>5. Shrunk(q)
  <2>1. chan \in ChanType
    BY DEF TypeOK, ChanType
  <2> QED BY <1>4, <2>1 DEF Shrunk, ChanType
<1> QED BY <1>2, <1>3, <1>5, HandleProgress DEF Receive

LEMMA MailDeliverProgress ==
  ASSUME TypeOK, TypeOK', NEW d \in Device, NEW p \in Device, MailDeliver(d, p)
  PROVE  Progress
<1>1. PICK e \in mail[p][d] : Handle(d, p, e, chan)
  BY DEF MailDeliver
<1>2. e \in Flight(p, d) /\ chan \in ChanType /\ Shrunk(chan)
  BY DEF Flight, TypeOK, ChanType, Shrunk
<1> QED BY <1>1, <1>2, HandleProgress

-----------------------------------------------------------------------------
(* Links. *)

\* _registerSink appends at most a profile op, which is what it pushes.
LEMMA RegisterProgress ==
  ASSUME TypeOK, TypeOK', NEW d \in Device, NEW p \in Device, NEW sinkSeq \in Seq(SinkEnd),
         NEW envs \in Seq(Envelope), Last(sinkSeq) \in Role,
         RegisterSink(d, p, sinkSeq, envs, chan), \A f \in ToSet(envs) : Honest(d, p, f),
         UNCHANGED <<inbox, tombs, forgotten, sent, compacted, expired, myApplied, applied>>
  PROVE  Progress
<1> DEFINE profile == IF HasProfile THEN <<ProfileOp>> ELSE <<>>
           n == NextSeq(d, p)
<1>1. /\ log[d][p] \in Seq(OpBody) /\ Len(log[d][p]) \in Nat
      /\ DOMAIN log[d][p] = 1 .. Len(log[d][p])
  BY LenProperties DEF TypeOK
<1>2. log'[d][p] = log[d][p] \o profile
  <2>1. log' = [log EXCEPT ![d][p] = @ \o profile]
    BY DEF RegisterSink
  <2>2. log \in [Device -> [Device -> Seq(OpBody)]]
    BY DEF TypeOK
  <2> HIDE DEF profile
  <2> QED BY <2>1, <2>2
<1>3. profile \in Seq(OpBody)
  BY Constructors, EmptySeq
<1>4. \A i \in DOMAIN log[d][p] : i \in DOMAIN log'[d][p] /\ log'[d][p][i] = log[d][p][i]
  <2> HIDE DEF profile
  <2> QED BY <1>1, <1>2, <1>3, ConcatProperties, LenProperties
<1>5. HasProfile => n \in DOMAIN log'[d][p] /\ log'[d][p][n] = ProfileOp
  <2> SUFFICES ASSUME HasProfile
               PROVE  n \in DOMAIN log'[d][p] /\ log'[d][p][n] = ProfileOp
    OBVIOUS
  <2>1. profile = <<ProfileOp>> /\ <<ProfileOp>> \in Seq(OpBody)
    BY Constructors
  <2>2. /\ DOMAIN log'[d][p] = 1 .. Len(log[d][p]) + 1
        /\ log'[d][p][Len(log[d][p]) + 1] = <<ProfileOp>>[1]
    <3> HIDE DEF profile
    <3> QED BY <1>1, <1>2, <2>1, ConcatProperties, LenProperties
  <2> QED BY <1>1, <2>2 DEF NextSeq
<1>6. LogKept
  <2> SUFFICES ASSUME NEW x \in Device, NEW y \in Device
               PROVE  /\ DOMAIN log[x][y] \subseteq DOMAIN log'[x][y]
                      /\ \A i \in DOMAIN log[x][y] : log'[x][y][i] = log[x][y][i]
    BY DEF LogKept
  <2>1. CASE x = d /\ y = p
    BY <1>4, <2>1
  <2>2. CASE ~(x = d /\ y = p)
    <3>1. log' = [log EXCEPT ![d][p] = @ \o profile]
      BY DEF RegisterSink
    <3>2. log'[x][y] = log[x][y]
      BY <2>2, <3>1 DEF TypeOK
    <3> QED BY <3>2
  <2> QED BY <2>1, <2>2
<1>7. Grows
  BY <1>6, Unburied, RowsStay DEF Grows, CursorKept, ExpiryKept, TypeOK
<1>8. NewHonest
  <2> SUFFICES ASSUME NEW x \in Device, NEW y \in Device, NEW e \in Flight(x, y)'
               PROVE  e \in Flight(x, y) \/ Honest(x, y, e)'
    BY DEF NewHonest
  <2>1. \/ e \in Flight(x, y)
        \/ x = d /\ y = p /\ (e \in ToSet(envs) \/ (HasProfile /\ e = OpEnv(n, ProfileOp)))
    BY RegisterFlight
  <2>2. ASSUME x = d, y = p, e \in ToSet(envs) PROVE Honest(x, y, e)'
    <3>1. e \in Envelope
      BY <2>2 DEF ToSet
    <3> QED BY <1>7, <2>2, <3>1, StaysHonest
  <2>3. ASSUME x = d, y = p, HasProfile, e = OpEnv(n, ProfileOp) PROVE Honest(x, y, e)'
    BY <1>5, <2>3 DEF Honest, OpEnv
  <2> QED BY <2>1, <2>2, <2>3
<1>9. NewDone
  BY QuietCursors
<1>10. CompactReported /\ NewExpired /\ NewSent
  BY DEF CompactReported, NewExpired, NewSent
<1> QED BY <1>7, <1>8, <1>9, <1>10 DEF Progress

LEMMA DialProgress ==
  ASSUME TypeOK, TypeOK', NEW d \in Device, NEW p \in Device, Dial(d, p)
  PROVE  Progress
<1> DEFINE sinkSeq == Append(sinks[d][p], "dial")
           envs == <<Hello(myApplied[d][p])>>
<1>1. sinks[d][p] \in Seq(SinkEnd) /\ myApplied[d][p] \in Nat
  BY DEF TypeOK
<1>2. sinkSeq \in Seq(SinkEnd) /\ Last(sinkSeq) \in Role
  BY <1>1, NewestSink DEF SinkEnd, Role
<1>3. envs \in Seq(Envelope) /\ \A f \in ToSet(envs) : f = Hello(myApplied[d][p])
  BY <1>1, Constructors DEF ToSet
<1>4. \A f \in ToSet(envs) : Honest(d, p, f)
  BY <1>1, <1>3 DEF Honest, Hello
<1>5. RegisterSink(d, p, sinkSeq, envs, chan)
  BY DEF Dial
<1> HIDE DEF sinkSeq, envs
<1> QED BY <1>2, <1>3, <1>4, <1>5, RegisterProgress DEF Dial

LEMMA AcceptProgress ==
  ASSUME TypeOK, TypeOK', NEW d \in Device, NEW p \in Device, Accept(d, p)
  PROVE  Progress
<1> DEFINE sinkSeq == Append(Demote(sinks[d][p]), "accept")
           envs == <<>>
<1>1. sinks[d][p] \in Seq(SinkEnd)
  BY DEF TypeOK
<1>2. sinkSeq \in Seq(SinkEnd) /\ Last(sinkSeq) \in Role
  BY <1>1, DemoteType, NewestSink DEF SinkEnd, Role
<1>3. envs \in Seq(Envelope) /\ \A f : f \notin ToSet(envs)
  BY EmptySeq DEF ToSet
<1>4. RegisterSink(d, p, sinkSeq, envs, chan)
  BY DEF Accept
<1> HIDE DEF sinkSeq, envs
<1> QED BY <1>2, <1>3, <1>4, RegisterProgress DEF Accept

\* What is still under way after a cut was under way before.
LEMMA QuietProgress ==
  ASSUME TypeOK, TypeOK', UNCHANGED <<sent, log, compacted, expired, myApplied, mail>>,
         \A x, y \in Device : applied'[x][y] \subseteq applied[x][y],
         \A x, y \in Device : \A r \in Role : ToSet(chan'[x][y][r]) \subseteq ToSet(chan[x][y][r]),
         RowsKept
  PROVE  Progress
<1>1. NewHonest
  BY DEF NewHonest, Flight
<1>2. CursorKept /\ NewDone
  BY QuietCursors
<1>3. LogKept /\ ExpiryKept /\ CompactReported /\ NewExpired /\ NewSent
  BY DEF LogKept, ExpiryKept, CompactReported, NewExpired, NewSent
<1> QED BY <1>1, <1>2, <1>3 DEF Progress, Grows

LEMMA ClosedProgress ==
  ASSUME TypeOK, TypeOK', NEW d \in Device, NEW p \in Device,
         DialClosed(d, p) \/ AcceptClosed(d, p)
  PROVE  Progress
<1>1. UNCHANGED <<inbox, tombs, forgotten, sent, log, compacted, expired, myApplied, applied,
                  chan, mail>>
  BY DEF DialClosed, AcceptClosed, network
<1>2. RowsKept
  BY <1>1, Unburied, RowsStay
<1> QED BY <1>1, <1>2, QuietProgress

-----------------------------------------------------------------------------
(* Faults. *)

LEMMA CutAtShrinks ==
  ASSUME TypeOK, NEW d \in Device, NEW S \in SUBSET Device, NEW session, CutAt(d, S, session),
         NEW x \in Device, NEW y \in Device, NEW r \in Role
  PROVE  ToSet(chan'[x][y][r]) \subseteq ToSet(chan[x][y][r])
<1>1. ToSet(<<>>) = {}
  BY DEF ToSet
<1>2. chan[x][y] \in [Role -> Seq(Envelope)]
  BY DEF TypeOK
<1>3. chan'[x][y] = IF x = d /\ y \in S THEN NoQueues
                    ELSE IF x \in S /\ y = d
                    THEN [chan[x][y] EXCEPT !["accept"] = <<>>,
                                            !["dial"] = IF conn[x][y] = "up" THEN <<>> ELSE @]
                    ELSE chan[x][y]
  BY DEF CutAt
<1>4. chan'[x][y][r] = <<>> \/ chan'[x][y][r] = chan[x][y][r]
  BY <1>2, <1>3 DEF NoQueues
<1> QED BY <1>1, <1>4

LEMMA RestartShrinks ==
  ASSUME TypeOK, NEW d \in Device, Restart(d)
  PROVE  /\ \A x, y \in Device : applied'[x][y] \subseteq applied[x][y]
         /\ \A x, y \in Device : \A r \in Role :
              ToSet(chan'[x][y][r]) \subseteq ToSet(chan[x][y][r])
<1>1. Peers(d) \in SUBSET Device /\ CutAt(d, Peers(d), "off")
  BY DEF Peers, Restart
<1>2. \A x, y \in Device : applied'[x][y] \subseteq applied[x][y]
  BY DEF Restart, TypeOK
<1> QED BY <1>1, <1>2, CutAtShrinks

LEMMA BreakProgress ==
  ASSUME TypeOK, TypeOK', NEW d \in Device, NEW p \in Device,
         Break(d, p) \/ ForceDisconnect(d, p) \/ Crash(d)
  PROVE  Progress
<1>1. UNCHANGED <<inbox, sent, log, compacted, expired, myApplied, mail>>
  BY DEF Break, ForceDisconnect, Crash, durable
<1>2. \A x, y \in Device : \A r \in Role : ToSet(chan'[x][y][r]) \subseteq ToSet(chan[x][y][r])
  <2>1. CASE Break(d, p)
    <3>1. ToSet(<<>>) = {} /\ chan \in ChanType
      BY DEF ToSet, TypeOK, ChanType
    <3>2. chan' = [chan EXCEPT ![d][p]["dial"] = <<>>, ![p][d]["accept"] = <<>>]
      BY <2>1 DEF Break
    <3> DEFINE half == [chan EXCEPT ![d][p]["dial"] = <<>>]
    <3>4. /\ half \in [Device -> [Device -> [Role -> Seq(Envelope)]]]
          /\ \A x, y \in Device : \A r \in Role :
               half[x][y][r] = <<>> \/ half[x][y][r] = chan[x][y][r]
      <4>1. <<>> \in Seq(Envelope)
        BY EmptySeq
      <4> QED BY <3>1, <4>1 DEF ChanType
    <3>5. chan' = [half EXCEPT ![p][d]["accept"] = <<>>]
      BY <3>2
    <3> HIDE DEF half
    <3>3. \A x, y \in Device : \A r \in Role :
            chan'[x][y][r] = <<>> \/ chan'[x][y][r] = chan[x][y][r]
      BY <3>4, <3>5
    <3> QED BY <3>1, <3>3
  <2>2. CASE ForceDisconnect(d, p)
    BY <2>2, CutAtShrinks DEF ForceDisconnect
  <2>3. CASE Crash(d)
    BY <2>3, RestartShrinks DEF Crash
  <2> QED BY <2>1, <2>2, <2>3
<1>3. \A x, y \in Device : applied'[x][y] \subseteq applied[x][y]
  BY RestartShrinks DEF Break, ForceDisconnect, Crash, volatile
<1>4. RowsKept
  <2>1. NoneBuried
    BY Unburied DEF Break, ForceDisconnect, Crash, durable
  <2> QED BY <1>1, <2>1, RowsStay
<1> QED BY <1>1, <1>2, <1>3, <1>4, QuietProgress

\* The row of a torn send stays without an op: this is why NewSent excludes it.
LEMMA TornSendProgress ==
  ASSUME TypeOK, TypeOK', NEW d \in Device, NEW p \in Device, NEW m \in Msg, TornSend(d, p, m)
  PROVE  Progress
<1>1. RowsKept
  BY WriteOwnKeeps, Unburied DEF TornSend
<1>2. /\ \A x, y \in Device : applied'[x][y] \subseteq applied[x][y]
      /\ \A x, y \in Device : \A r \in Role :
           ToSet(chan'[x][y][r]) \subseteq ToSet(chan[x][y][r])
  BY RestartShrinks DEF TornSend
<1>3. UNCHANGED <<log, compacted, expired, myApplied, mail>>
  BY DEF TornSend
<1>4. NewHonest
  BY <1>2, <1>3 DEF NewHonest, Flight
<1>5. CursorKept /\ NewDone
  BY <1>2, <1>3, QuietCursors
<1>6. LogKept /\ ExpiryKept /\ CompactReported /\ NewExpired
  BY <1>3 DEF LogKept, ExpiryKept, CompactReported, NewExpired
<1>7. "torn_send" \in Faults
  BY DEF TornSend, Fault
<1> QED BY <1>1, <1>4, <1>5, <1>6, <1>7 DEF Progress, Grows

LEMMA TornApplyProgress ==
  ASSUME TypeOK, TypeOK', NEW d \in Device, NEW p \in Device, NEW r \in Role, TornApply(d, p, r)
  PROVE  Progress
<1>1. Head(chan[p][d][r]).body \in OpBody
  <2>1. Head(chan[p][d][r]) \in Envelope
    BY PoppedType DEF TornApply, Deliverable
  <2> QED BY <2>1 DEF Envelope
<1>2. RowsKept
  BY <1>1, TornOp, ApplyKeeps
<1>3. /\ \A x, y \in Device : applied'[x][y] \subseteq applied[x][y]
      /\ \A x, y \in Device : \A k \in Role :
           ToSet(chan'[x][y][k]) \subseteq ToSet(chan[x][y][k])
  BY RestartShrinks DEF TornApply
<1> QED BY <1>2, <1>3, QuietProgress DEF TornApply

LEMMA TornDeleteProgress ==
  ASSUME TypeOK, TypeOK', NEW d \in Device, NEW p \in Device, NEW ids \in SUBSET Msg,
         TornDelete(d, p, ids)
  PROVE  Progress
<1>1. RowsKept
  BY RemoveKeeps DEF TornDelete
<1>2. /\ \A x, y \in Device : applied'[x][y] \subseteq applied[x][y]
      /\ \A x, y \in Device : \A r \in Role :
           ToSet(chan'[x][y][r]) \subseteq ToSet(chan[x][y][r])
  BY RestartShrinks DEF TornDelete
<1> QED BY <1>1, <1>2, QuietProgress DEF TornDelete

LEMMA ExpireProgress ==
  ASSUME TypeOK, TypeOK', NEW d \in Device, NEW p \in Device, Expire(d, p)
  PROVE  Progress
<1>1. PICK i \in DOMAIN log[d][p] :
        /\ log[d][p][i].kind \in {"delete", "clear"}
        /\ expired' = [expired EXCEPT ![d][p] = @ \cup {i}]
  BY DEF Expire
<1>2. UNCHANGED <<inbox, tombs, forgotten, sent, log, compacted, myApplied, applied, chan,
                  mail>>
  BY DEF Expire, volatile, network
<1>3. expired \in [Device -> [Device -> SUBSET Nat]]
  BY DEF TypeOK
<1>4. ExpiryKept /\ NewExpired
  BY <1>1, <1>2, <1>3 DEF ExpiryKept, NewExpired
<1>5. CursorKept /\ NewDone
  BY <1>2, QuietCursors
<1>6. RowsKept /\ LogKept /\ CompactReported /\ NewSent
  BY <1>2, Unburied, RowsStay DEF LogKept, CompactReported, NewSent
<1>7. NewHonest
  BY <1>2 DEF NewHonest, Flight
<1> QED BY <1>4, <1>5, <1>6, <1>7 DEF Progress, Grows

-----------------------------------------------------------------------------
LEMMA ProgressStep ==
  ASSUME TypeOK, TypeOK', [Next]_vars
  PROVE  Progress
<1>1. CASE UNCHANGED vars
  <2>1. UNCHANGED <<inbox, tombs, forgotten, sent, log, compacted, expired, myApplied, applied,
                    chan, mail>>
    BY <1>1 DEF vars, durable, volatile, network
  <2>2. RowsKept
    BY <2>1, Unburied, RowsStay
  <2> QED BY <2>1, <2>2, QuietProgress
<1>2. ASSUME NEW d \in Device, NEW p \in Peers(d),
             UserStep(d, p) \/ LinkStep(d, p) \/ FaultStep(d, p)
      PROVE  Progress
  <2>1. p \in Device
    BY DEF Peers
  <2>2. CASE UserStep(d, p)
    BY <2>1, <2>2, SendTextProgress, DeleteProgress DEF UserStep
  <2>3. CASE LinkStep(d, p)
    BY <2>1, <2>3, DialProgress, AcceptProgress, ClosedProgress, MailDeliverProgress,
       ReceiveProgress DEF LinkStep
  <2>4. CASE FaultStep(d, p)
    BY <2>1, <2>4, BreakProgress, ExpireProgress, TornSendProgress, TornApplyProgress,
       TornDeleteProgress DEF FaultStep
  <2> QED BY <1>2, <2>2, <2>3, <2>4
<1> QED BY <1>1, <1>2, StepCases

LEMMA InvariantInit == Init => IInv
<1> SUFFICES ASSUME Init PROVE IInv
  OBVIOUS
<1>1. TypeOK
  BY TypeInit
<1>2. \A x, y \in Device : mail[x][y] = {} /\ \A r \in Role : ToSet(chan[x][y][r]) = {}
  BY DEF Init, PerPeer, NoQueues, ToSet
<1>3. FlightHonest
  BY <1>2 DEF FlightHonest, Flight
<1>4. CompactedBehind
  BY DEF Init, PerPeer, CompactedBehind
<1>5. TakenDone
  <2>1. \A x, y \in Device : Taken(x, y) = {}
    BY DEF Init, PerPeer, Taken
  <2> QED BY <2>1 DEF TakenDone
<1>6. ExpiredDeletes /\ SentLogged
  BY DEF Init, PerPeer, ExpiredDeletes, SentLogged
<1> QED BY <1>1, <1>3, <1>4, <1>5, <1>6 DEF IInv

LEMMA InvariantStep ==
  ASSUME IInv, [Next]_vars PROVE IInv' /\ Progress
<1>1. TypeOK /\ TypeOK'
  BY TypeStep DEF IInv
<1>2. Progress
  BY <1>1, ProgressStep
<1> QED BY <1>1, <1>2, ProgressKeeps

THEOREM Invariant == Spec => []IInv
BY InvariantInit, InvariantStep, PTL DEF Spec

-----------------------------------------------------------------------------
(* What the invariant gives. *)

\* No ack or Hello on a link, and no compaction, is ahead of the cursor it reports, with
\* any number of links, replays, mailbox copies, crashes and restarts: the sender never
\* drops the row of an op that the receiver still needs.
THEOREM ReportsAreHonest == Spec => []CursorsHonest
<1>1. ASSUME IInv PROVE CursorsHonest
  <2> SUFFICES ASSUME NEW d \in Device, NEW p \in Device
               PROVE  /\ compacted[d][p] <= myApplied[p][d]
                      /\ \A r \in Role : \A i \in DOMAIN chan[p][d][r] :
                           chan[p][d][r][i].type # "op" => chan[p][d][r][i].seq <= myApplied[p][d]
    BY DEF CursorsHonest, Peers
  <2>1. compacted[d][p] <= myApplied[p][d]
    BY <1>1 DEF IInv, CompactedBehind
  <2>2. ASSUME NEW r \in Role, NEW i \in DOMAIN chan[p][d][r], chan[p][d][r][i].type # "op"
        PROVE  chan[p][d][r][i].seq <= myApplied[p][d]
    <3>1. chan[p][d][r][i] \in Flight(p, d)
      BY DEF Flight, ToSet
    <3> QED BY <1>1, <2>2, <3>1 DEF IInv, FlightHonest, Honest
  <2> QED BY <2>1, <2>2
<1> QED BY <1>1, Invariant, PTL

\* A cursor never moves back, in no step of any behaviour.
THEOREM CursorsGrow == Spec => CursorMonotone
<1>1. ASSUME IInv, [Next]_vars
      PROVE  [\A d, p \in Device : myApplied'[d][p] >= myApplied[d][p]]_myApplied
  <2>1. CursorKept
    BY <1>1, InvariantStep DEF Progress, Grows
  <2>2. \A d, p \in Device : myApplied'[d][p] >= myApplied[d][p]
    <3>1. \A d, p \in Device : myApplied[d][p] \in Nat /\ myApplied'[d][p] \in Nat
      <4>1. TypeOK /\ TypeOK'
        BY <1>1, TypeStep DEF IInv
      <4> QED BY <4>1 DEF TypeOK
    <3> QED BY <2>1, <3>1 DEF CursorKept
  <2> QED BY <2>2
<1> QED BY <1>1, Invariant, PTL DEF Spec, CursorMonotone

\* An op that was compacted has had its effect at the peer, unless it expired first.
LEMMA CompactedDone ==
  ASSUME IInv, NEW d \in Device, NEW p \in Device, NEW i \in DOMAIN log[d][p],
         ~(i > compacted[d][p])
  PROVE  i \in expired[d][p] \/ Done(p, d, log[d][p][i])
<1>1. /\ compacted[d][p] \in Nat /\ myApplied[p][d] \in Nat
      /\ compacted[d][p] <= myApplied[p][d]
  BY DEF IInv, TypeOK, CompactedBehind
<1>2. log[d][p] \in Seq(OpBody) /\ i \in 1 .. Len(log[d][p]) /\ Len(log[d][p]) \in Nat
  BY LenProperties DEF IInv, TypeOK
<1>3. i \in 1 .. myApplied[p][d]
  BY <1>1, <1>2
<1> QED BY <1>3 DEF Taken, TakenDone, IInv

\* A delete op whose row was compacted has been applied by the peer: what it names is, or
\* was until a purge two days later, in the peer's deleted_msgs.  Only an op older than
\* deleteOpTtlMs is excepted.
THEOREM DeletesArrive == Spec => []NoDeleteLost
<1>1. ASSUME IInv PROVE NoDeleteLost
  <2> SUFFICES ASSUME NEW d \in Device, NEW p \in Device, NEW i \in DOMAIN log[d][p],
                      log[d][p][i].kind = "delete", ~(i > compacted[d][p])
               PROVE  i \in expired[d][p] \/ log[d][p][i].ids \subseteq Deleted(p)
    BY DEF NoDeleteLost, Peers
  <2> QED BY <1>1, CompactedDone DEF Done
<1> QED BY <1>1, Invariant, PTL

\* A sent message is at its receiver or its op can still be replayed, over every loss,
\* repetition and reordering and over restarts of both devices -- except a restart between
\* insertMessage and appendOp, the fault the hypothesis leaves out.
THEOREM MessagesArrive ==
  ASSUME "torn_send" \notin Faults
  PROVE  Spec => []NoMessageLost
<1>1. ASSUME IInv PROVE NoMessageLost
  <2> SUFFICES ASSUME NEW d \in Device, NEW p \in Device, NEW m \in sent[d][p]
               PROVE  \/ Holds(p, d, m)
                      \/ \E i \in DOMAIN log[d][p] : i > compacted[d][p] /\ log[d][p][i] = MsgOp(m)
    BY DEF NoMessageLost, Peers
  <2>1. PICK i \in DOMAIN log[d][p] : log[d][p][i] = MsgOp(m)
    BY <1>1 DEF IInv, SentLogged
  <2>2. CASE i > compacted[d][p]
    BY <2>1, <2>2
  <2>3. CASE ~(i > compacted[d][p])
    <3>1. i \notin expired[d][p]
      BY <1>1, <2>1 DEF IInv, ExpiredDeletes, MsgOp
    <3>2. Done(p, d, MsgOp(m))
      BY <1>1, <2>1, <2>3, <3>1, CompactedDone
    <3>3. m \in inbox[p][d] \cup Deleted(p)
      BY <3>2 DEF Done, MsgOp
    <3> QED BY <3>3 DEF Holds
  <2> QED BY <2>2, <2>3
<1> QED BY <1>1, Invariant, PTL
-----------------------------------------------------------------------------
(***************************************************************************)
(* What the users see: a deleted message stays away as long as its device  *)
(* remembers it, and the two ends implement the abstract conversation.     *)
(*                                                                         *)
(* Tables, logs and marks of one conversation speak of its own messages    *)
(* (Between), and a row and its tombstone never meet (Tidy).  An envelope  *)
(* says what the log says, so what is applied is about them too.           *)
(***************************************************************************)
Between(x, y) == sent[x][y] \cup sent[y][x]

InPlace ==
  \A x, y \in Device : inbox[x][y] \subseteq Between(x, y) /\ inbox[x][y] \cap tombs[x] = {}

TombsKnown == \A x \in Device : \A m \in Deleted(x) : \E y \in Device : m \in Between(x, y)

WrittenOnce ==
  \A x, y, u, v \in Device : \A m \in sent[x][y] : m \in sent[u][v] => x = u /\ y = v

\* what an op of x for y may say
Fitting(x, y, body) ==
  /\ body.ids \subseteq Between(x, y)
  /\ body.kind = "delete" => body.ids \subseteq Deleted(x)
  /\ body.kind = "msg" => \E m \in sent[x][y] : body = MsgOp(m)

LogFits == \A x, y \in Device : \A i \in DOMAIN log[x][y] : Fitting(x, y, log[x][y][i])

PendingFits ==
  \A x, y \in Device : \A s \in pending[x][y] :
    s[1] \in DOMAIN log[x][y] /\ log[x][y][s[1]] = MsgOp(s[2])

TicksFit ==
  \A m \in Msg : sendState[m] = "ok" => \E x, y \in Device : m \in sent[x][y] \cap inbox[x][y]

Tidy == InPlace /\ TombsKnown /\ WrittenOnce /\ LogFits /\ PendingFits /\ TicksFit

\* The ways tables change in a conversation of d with p
Wrote(d, p, m) ==
  /\ Fresh(m)
  /\ inbox' = [inbox EXCEPT ![d][p] = @ \cup {m}]
  /\ sent' = [sent EXCEPT ![d][p] = @ \cup {m}]
  /\ NoneBuried
Removed(d, p, ids) ==
  /\ ids \subseteq Between(d, p)
  /\ inbox' = [inbox EXCEPT ![d][p] = @ \ ids]
  /\ \E aged : Bury(d, ids, aged)
  /\ UNCHANGED sent
Arrived(d, p, ids) ==
  /\ ids \subseteq Between(d, p)
  /\ inbox' = [inbox EXCEPT ![d][p] = @ \cup (ids \ tombs[d])]
  /\ NoneBuried
  /\ UNCHANGED sent

TablesFit == InPlace /\ TombsKnown /\ WrittenOnce

KnownGrow ==
  /\ \A x, y \in Device : sent[x][y] \subseteq sent'[x][y]
  /\ \A x \in Device : Deleted(x) \subseteq Deleted(x)'

LEMMA OnePlace ==
  ASSUME WrittenOnce, NEW d \in Device, NEW p \in Device, NEW q \in Device,
         NEW m \in Between(d, p), m \in Between(d, q)
  PROVE  p = q
BY DEF WrittenOnce, Between

LEMMA WroteFits ==
  ASSUME TypeOK, TablesFit, NEW d \in Device, NEW p \in Device, NEW m \in Msg, Wrote(d, p, m)
  PROVE  TablesFit' /\ KnownGrow
<1>1. /\ inbox \in [Device -> [Device -> SUBSET Msg]] /\ sent \in [Device -> [Device -> SUBSET Msg]]
      /\ \A x \in Device : tombs[x] \subseteq Deleted(x)
  BY DEF TypeOK, Deleted
<1>2. /\ \A x, y \in Device : sent'[x][y] = IF x = d /\ y = p THEN sent[x][y] \cup {m} ELSE sent[x][y]
      /\ \A x, y \in Device : inbox'[x][y] = IF x = d /\ y = p THEN inbox[x][y] \cup {m} ELSE inbox[x][y]
  BY <1>1 DEF Wrote
<1>0. \A x \in Device : tombs'[x] \subseteq tombs[x] /\ Deleted(x)' = Deleted(x)
  BY DEF Wrote, NoneBuried
<1>3. \A x, y \in Device : m \notin Between(x, y)
  BY DEF Wrote, Fresh, Between
<1>4. \A x, y \in Device : Between(x, y) \subseteq Between(x, y)'
  BY <1>2 DEF Between
<1>5. m \in Between(d, p)'
  BY <1>2 DEF Between
<1>6. \A x \in Device : m \notin tombs'[x]
  BY <1>0, <1>1, <1>3 DEF TablesFit, TombsKnown
<1>7. InPlace'
  <2>1. ASSUME NEW x \in Device, NEW y \in Device, NEW k \in inbox'[x][y]
        PROVE  k \in Between(x, y)' /\ k \notin tombs'[x]
    <3>1. CASE k \in inbox[x][y]
      BY <1>0, <1>4, <3>1 DEF TablesFit, InPlace
    <3>2. CASE k \notin inbox[x][y]
      <4>1. x = d /\ y = p /\ k = m
        BY <1>2, <2>1, <3>2
      <4>. QED
        BY <1>2, <1>5, <1>6, <4>1
    <3>. QED
      BY <3>1, <3>2
  <2>. QED
    BY <2>1 DEF InPlace
<1>8. TombsKnown'
  BY <1>0, <1>4 DEF TablesFit, TombsKnown
<1>9. WrittenOnce'
  <2>. SUFFICES ASSUME NEW x \in Device, NEW y \in Device, NEW u \in Device, NEW v \in Device,
                       NEW k \in sent'[x][y], k \in sent'[u][v]
                PROVE  x = u /\ y = v
    BY DEF WrittenOnce
  <2>0. \A a, b \in Device : m \notin sent[a][b]
    BY <1>3 DEF Between
  <2>1. \A a, b \in Device : sent'[a][b] \subseteq sent[a][b] \cup {m}
    BY <1>2
  <2>2. \A a, b \in Device : m \in sent'[a][b] => a = d /\ b = p
    BY <1>2, <2>0
  <2>3. CASE k = m
    BY <2>2, <2>3
  <2>4. CASE k # m
    <3>1. k \in sent[x][y] /\ k \in sent[u][v]
      BY <2>1, <2>4
    <3>. QED
      BY <3>1 DEF TablesFit, WrittenOnce
  <2>. QED
    BY <2>3, <2>4
<1>10. KnownGrow
  BY <1>0, <1>2 DEF KnownGrow
<1>. QED
  BY <1>7, <1>8, <1>9, <1>10 DEF TablesFit

LEMMA RemovedFits ==
  ASSUME TypeOK, TablesFit, NEW d \in Device, NEW p \in Device, NEW ids \in SUBSET Msg,
         Removed(d, p, ids)
  PROVE  TablesFit' /\ KnownGrow
<1>1. /\ \A x, y \in Device : inbox'[x][y] = IF x = d /\ y = p THEN inbox[x][y] \ ids ELSE inbox[x][y]
      /\ sent' = sent /\ ids \subseteq Between(d, p)
  BY DEF TypeOK, Removed
<1>0. /\ \A x \in Device : tombs'[x] \subseteq IF x = d THEN tombs[x] \cup ids ELSE tombs[x]
      /\ \A x \in Device : Deleted(x)' = IF x = d THEN Deleted(x) \cup ids ELSE Deleted(x)
  BY Buried DEF Removed
<1>2. \A x, y \in Device : Between(x, y)' = Between(x, y)
  BY <1>1 DEF Between
<1>3. InPlace'
  <2>1. ASSUME NEW x \in Device, NEW y \in Device, NEW k \in inbox'[x][y]
        PROVE  k \in Between(x, y) /\ k \notin tombs'[x]
    <3>1. k \in inbox[x][y] /\ k \in Between(x, y) /\ k \notin tombs[x]
      BY <1>1, <2>1 DEF TablesFit, InPlace
    <3>2. CASE x = d /\ k \in ids
      <4>1. y = p
        BY <1>1, <3>1, <3>2, OnePlace DEF TablesFit
      <4>. QED
        BY <1>1, <2>1, <3>2, <4>1
    <3>3. CASE ~(x = d /\ k \in ids)
      BY <1>0, <3>1, <3>3
    <3>. QED
      BY <3>2, <3>3
  <2>. QED
    BY <1>2, <2>1 DEF InPlace
<1>4. TombsKnown'
  <2>1. ASSUME NEW x \in Device, NEW k \in Deleted(x)'
        PROVE  \E y \in Device : k \in Between(x, y)
    <3>1. k \in Deleted(x) \/ (x = d /\ k \in ids)
      BY <1>0, <2>1
    <3>. QED
      BY <1>1, <3>1 DEF TablesFit, TombsKnown
  <2>. QED
    BY <1>2, <2>1 DEF TombsKnown
<1>5. WrittenOnce'
  BY <1>1 DEF TablesFit, WrittenOnce
<1>6. KnownGrow
  BY <1>0, <1>1 DEF KnownGrow
<1>. QED
  BY <1>3, <1>4, <1>5, <1>6 DEF TablesFit

LEMMA ArrivedFits ==
  ASSUME TypeOK, TablesFit, NEW d \in Device, NEW p \in Device, NEW ids \in SUBSET Msg,
         Arrived(d, p, ids)
  PROVE  TablesFit' /\ KnownGrow
<1>1. /\ \A x, y \in Device :
           inbox'[x][y] = IF x = d /\ y = p THEN inbox[x][y] \cup (ids \ tombs[x]) ELSE inbox[x][y]
      /\ sent' = sent /\ ids \subseteq Between(d, p)
      /\ \A x \in Device : tombs'[x] \subseteq tombs[x] /\ Deleted(x)' = Deleted(x)
  BY DEF TypeOK, Arrived, NoneBuried
<1>2. InPlace'
  <2>1. \A x, y \in Device : Between(x, y)' = Between(x, y)
    BY <1>1 DEF Between
  <2>2. ASSUME NEW x \in Device, NEW y \in Device, NEW k \in inbox'[x][y]
        PROVE  k \in Between(x, y) /\ k \notin tombs[x]
    <3>1. k \in inbox[x][y] \/ (x = d /\ y = p /\ k \in ids \ tombs[x])
      BY <1>1, <2>2
    <3>. QED
      BY <1>1, <3>1 DEF TablesFit, InPlace
  <2>. QED
    BY <1>1, <2>1, <2>2 DEF InPlace
<1>3. TombsKnown' /\ WrittenOnce' /\ KnownGrow
  BY <1>1 DEF TablesFit, TombsKnown, WrittenOnce, KnownGrow, Between
<1>. QED
  BY <1>2, <1>3 DEF TablesFit

LEMMA StillFits ==
  ASSUME TablesFit, NoneBuried, UNCHANGED <<inbox, sent>>
  PROVE  TablesFit' /\ KnownGrow
<1>1. \A x \in Device : tombs'[x] \subseteq tombs[x] /\ Deleted(x)' = Deleted(x)
  BY DEF NoneBuried
<1>2. InPlace'
  BY <1>1 DEF TablesFit, InPlace, Between
<1>3. TombsKnown' /\ WrittenOnce' /\ KnownGrow
  BY <1>1 DEF TablesFit, TombsKnown, WrittenOnce, KnownGrow, Between
<1>. QED
  BY <1>2, <1>3 DEF TablesFit

\* What fits an op goes on fitting it.
LEMMA LogFitsStays ==
  ASSUME LogFits, KnownGrow,
         \A x, y \in Device : \A i \in DOMAIN log'[x][y] :
           \/ i \in DOMAIN log[x][y] /\ log'[x][y][i] = log[x][y][i]
           \/ Fitting(x, y, log[x][y][i])'
  PROVE  LogFits'
<1>. SUFFICES ASSUME NEW x \in Device, NEW y \in Device, NEW i \in DOMAIN log'[x][y]
              PROVE  Fitting(x, y, log[x][y][i])'
  BY DEF LogFits
<1>1. CASE i \in DOMAIN log[x][y] /\ log'[x][y][i] = log[x][y][i]
  <2>1. Fitting(x, y, log[x][y][i])
    BY <1>1 DEF LogFits
  <2>. QED
    BY <1>1, <2>1 DEF Fitting, KnownGrow, Between, MsgOp
<1>2. CASE Fitting(x, y, log[x][y][i])'
  BY <1>2
<1>. QED
  BY <1>1, <1>2

\* A row that is appended is the only one that is new.
LEMMA OnlyAppended ==
  ASSUME TypeOK, NEW d \in Device, NEW p \in Device, NEW body \in OpBody,
         log' = [log EXCEPT ![d][p] = Append(@, body)]
  PROVE  \A x, y \in Device : \A i \in DOMAIN log'[x][y] :
           \/ i \in DOMAIN log[x][y] /\ log'[x][y][i] = log[x][y][i]
           \/ x = d /\ y = p /\ log'[x][y][i] = body
<1>1. /\ log[d][p] \in Seq(OpBody) /\ Len(log[d][p]) \in Nat
      /\ DOMAIN log[d][p] = 1 .. Len(log[d][p])
  BY LenProperties DEF TypeOK
<1>2. \A x, y \in Device : log'[x][y] = IF x = d /\ y = p THEN Append(log[d][p], body) ELSE log[x][y]
  BY DEF TypeOK
<1>3. /\ DOMAIN Append(log[d][p], body) = 1 .. Len(log[d][p]) + 1
      /\ \A i \in 1 .. Len(log[d][p]) : Append(log[d][p], body)[i] = log[d][p][i]
      /\ Append(log[d][p], body)[Len(log[d][p]) + 1] = body
  BY <1>1, AppendProperties, LenProperties
<1>4. ASSUME NEW i \in DOMAIN Append(log[d][p], body)
      PROVE  \/ i \in DOMAIN log[d][p] /\ Append(log[d][p], body)[i] = log[d][p][i]
             \/ Append(log[d][p], body)[i] = body
  <2>1. i \in 1 .. Len(log[d][p]) \/ i = Len(log[d][p]) + 1
    BY <1>1, <1>3
  <2>. QED
    BY <1>1, <1>3, <2>1
<1>. QED
  BY <1>2, <1>4

LEMMA OnlyProfile ==
  ASSUME TypeOK, NEW d \in Device, NEW p \in Device, NEW sinkSeq, NEW envs, NEW q,
         RegisterSink(d, p, sinkSeq, envs, q)
  PROVE  \A x, y \in Device : \A i \in DOMAIN log'[x][y] :
           \/ i \in DOMAIN log[x][y] /\ log'[x][y][i] = log[x][y][i]
           \/ log'[x][y][i] = ProfileOp
<1>0. log[d][p] \in Seq(OpBody) /\ log \in [Device -> [Device -> Seq(OpBody)]]
  BY DEF TypeOK
<1>1. CASE HasProfile
  <2>1. log' = [log EXCEPT ![d][p] = @ \o <<ProfileOp>>]
    BY <1>1 DEF RegisterSink
  <2>2. log[d][p] \o <<ProfileOp>> = Append(log[d][p], ProfileOp)
    BY <1>0, Constructors
  <2>3. ProfileOp \in OpBody /\ log' = [log EXCEPT ![d][p] = Append(@, ProfileOp)]
    BY <2>1, <2>2, Constructors
  <2>. QED
    BY <2>3, OnlyAppended
<1>2. CASE ~HasProfile
  <2>1. log' = [log EXCEPT ![d][p] = @ \o <<>>]
    BY <1>2 DEF RegisterSink
  <2>2. log[d][p] \o <<>> = log[d][p]
    BY <1>0
  <2>3. log' = log
    BY <1>0, <2>1, <2>2
  <2>. QED
    BY <2>3
<1>. QED
  BY <1>1, <1>2

LEMMA ProfileFits ==
  ASSUME NEW x, NEW y
  PROVE  Fitting(x, y, ProfileOp)
BY DEF Fitting, ProfileOp

-----------------------------------------------------------------------------
(* The same for logs and marks, and what the step is to the users. *)

\* a step of the abstract conversation, or none
Seen == View!Next \/ UNCHANGED View!convVars

LEMMA StillSeen ==
  ASSUME UNCHANGED <<inbox, tombs, forgotten, sent>>,
         \A m \in Msg : sendState'[m] = "ok" <=> sendState[m] = "ok"
  PROVE  Seen
<1>1. Delivered' = Delivered
  BY DEF Delivered
<1>. QED
  BY <1>1 DEF Seen, View!convVars

\* table deleted_msgs, as the users see it
LEMMA BurySeen ==
  ASSUME NEW d, NEW ids, NEW aged, Bury(d, ids, aged)
  PROVE  View!Remember(d, ids, aged)
BY DEF Bury, View!Remember

\* a start that forgets, and changes nothing else that is shown
LEMMA ForgetSeen ==
  ASSUME TypeOK, NEW d \in Device, NEW p \in Peers(d), NEW aged, Bury(d, {}, aged),
         UNCHANGED <<inbox, sent>>,
         \A m \in Msg : sendState'[m] = "ok" <=> sendState[m] = "ok"
  PROVE  Seen
<1>0. /\ p \in View!Peers(d) /\ p \in Device /\ aged \in SUBSET Msg
      /\ inbox \in [Device -> [Device -> SUBSET Msg]]
  BY Buried DEF Peers, View!Peers, TypeOK
<1>1. Delivered' = Delivered
  BY DEF Delivered
<1>2. inbox' = [inbox EXCEPT ![d][p] = @ \ {}]
  BY <1>0
<1>3. View!Delete(d, p, {}, aged)
  BY <1>1, <1>2, BurySeen DEF View!Delete
<1>4. {} \in SUBSET Msg
  OBVIOUS
<1>. QED
  BY <1>0, <1>3, <1>4 DEF Seen, View!Next

LEMMA PendingStays ==
  ASSUME PendingFits, LogKept,
         \A x, y \in Device : \A s \in pending'[x][y] :
           \/ s \in pending[x][y]
           \/ s[1] \in DOMAIN log'[x][y] /\ log'[x][y][s[1]] = MsgOp(s[2])
  PROVE  PendingFits'
<1>. SUFFICES ASSUME NEW x \in Device, NEW y \in Device, NEW s \in pending'[x][y]
              PROVE  s[1] \in DOMAIN log'[x][y] /\ log'[x][y][s[1]] = MsgOp(s[2])
  BY DEF PendingFits, MsgOp
<1>1. CASE s \in pending[x][y]
  <2>1. s[1] \in DOMAIN log[x][y] /\ log[x][y][s[1]] = MsgOp(s[2])
    BY <1>1 DEF PendingFits
  <2>. QED
    BY <2>1 DEF LogKept
<1>. QED
  BY <1>1

LEMMA TicksStay ==
  ASSUME TicksFit, UNCHANGED <<inbox, sent>>,
         \A m \in Msg : sendState'[m] = "ok" => sendState[m] = "ok"
  PROVE  TicksFit'
BY DEF TicksFit

\* Nothing is marked as delivered by a link that comes or goes.
LEMMA RetagMarks ==
  ASSUME NEW d, NEW p, NEW from, NEW to, from # "ok", to # "ok",
         sendState' = Retag(d, p, from, to)
  PROVE  \A m \in Msg : sendState'[m] = "ok" <=> sendState[m] = "ok"
BY DEF Retag

\* writing a message
LEMMA WroteSeen ==
  ASSUME TypeOK, Tidy, NEW d \in Device, NEW p \in Peers(d), NEW m \in Msg, NEW state \in SendState,
         Fresh(m), WriteOwn(d, p, m, state), NoneBuried
  PROVE  /\ Wrote(d, p, m) /\ TicksFit'
         /\ state # "ok" /\ UNCHANGED <<tombs, forgotten>> => Seen
<1>0. p \in Device /\ sendState \in [Msg -> SendState]
      /\ inbox \in [Device -> [Device -> SUBSET Msg]] /\ sent \in [Device -> [Device -> SUBSET Msg]]
  BY DEF Peers, TypeOK
<1>1. /\ inbox' = [inbox EXCEPT ![d][p] = @ \cup {m}]
      /\ sent' = [sent EXCEPT ![d][p] = @ \cup {m}]
      /\ sendState' = [sendState EXCEPT ![m] = state]
  BY DEF WriteOwn
<1>2. Wrote(d, p, m)
  BY <1>1 DEF Wrote
<1>3. sendState[m] # "ok"
  BY DEF Tidy, TicksFit, Fresh
<1>4. TicksFit'
  <2>. SUFFICES ASSUME NEW k \in Msg, sendState'[k] = "ok"
                PROVE  \E x, y \in Device : k \in sent'[x][y] \cap inbox'[x][y]
    BY DEF TicksFit
  <2>1. CASE k = m
    BY <1>0, <1>1, <2>1
  <2>2. CASE k # m
    <3>1. PICK x \in Device, y \in Device : k \in sent[x][y] \cap inbox[x][y]
      BY <1>0, <1>1, <2>2 DEF Tidy, TicksFit
    <3>. QED
      BY <1>0, <1>1, <3>1
  <2>. QED
    BY <2>1, <2>2
<1>5. ASSUME state # "ok", UNCHANGED <<tombs, forgotten>> PROVE Seen
  <2>1. Delivered' = Delivered
    BY <1>0, <1>1, <1>3, <1>5 DEF Delivered
  <2>2. View!Write(d, p, m)
    BY <1>1, <1>5, <2>1 DEF View!Write, Fresh
  <2>3. p \in View!Peers(d)
    BY DEF Peers, View!Peers
  <2>. QED
    BY <2>2, <2>3 DEF Seen, View!Next
<1>. QED
  BY <1>2, <1>4, <1>5

\* deleting messages, for oneself or because the peer did
LEMMA RemovedSeen ==
  ASSUME TypeOK, Tidy, NEW d \in Device, NEW p \in Peers(d), NEW ids \in SUBSET Msg, NEW aged,
         RemoveRows(d, p, ids, aged), UNCHANGED sent, ids \subseteq Between(d, p),
         ids \subseteq inbox[d][p] \cup Deleted(d) \cup Deleted(p)
  PROVE  Removed(d, p, ids) /\ TicksFit' /\ Seen
<1>0. p \in Device /\ sendState \in [Msg -> SendState]
      /\ inbox \in [Device -> [Device -> SUBSET Msg]]
  BY DEF Peers, TypeOK
<1>1. /\ inbox' = [inbox EXCEPT ![d][p] = @ \ ids]
      /\ Bury(d, ids, aged)
      /\ sendState' = [m \in Msg |-> IF m \in ids \cap sent[d][p] THEN "none" ELSE sendState[m]]
  BY DEF RemoveRows
<1>2. \A x, y \in Device : inbox'[x][y] = IF x = d /\ y = p THEN inbox[x][y] \ ids ELSE inbox[x][y]
  BY <1>0, <1>1
<1>3. TicksFit'
  <2>. SUFFICES ASSUME NEW k \in Msg, sendState'[k] = "ok"
                PROVE  \E x, y \in Device : k \in sent[x][y] \cap inbox'[x][y]
    BY DEF TicksFit
  <2>1. k \notin ids \cap sent[d][p] /\ sendState[k] = "ok"
    BY <1>1
  <2>2. PICK x \in Device, y \in Device : k \in sent[x][y] \cap inbox[x][y]
    BY <2>1 DEF Tidy, TicksFit
  <2>3. k \in inbox'[x][y]
    BY <1>2, <2>1, <2>2
  <2>. QED
    BY <2>2, <2>3
<1>4. ASSUME NEW k \in Delivered, k \in sent[d][p]
      PROVE  k \in inbox[d][p]
  <2>1. PICK x \in Device, y \in Device : k \in sent[x][y] \cap inbox[x][y]
    BY <1>4 DEF Tidy, TicksFit, Delivered
  <2>. QED
    BY <1>0, <1>4, <2>1 DEF Tidy, WrittenOnce
<1>5. Delivered' = Delivered \ (ids \cap inbox[d][p] \cap sent[d][p])
  <2>1. \A k \in Msg : k \in Delivered' <=> k \in Delivered /\ k \notin ids \cap sent[d][p]
    BY <1>1 DEF Delivered
  <2>2. Delivered \subseteq Msg /\ Delivered' \subseteq Msg
    BY DEF Delivered
  <2>. QED
    BY <1>4, <2>1, <2>2
<1>6. View!Delete(d, p, ids, aged)
  <2>1. ids \subseteq inbox[d][p] \cup View!EverGone(d) \cup View!EverGone(p)
    BY DEF View!EverGone, Deleted
  <2>. QED
    BY <1>1, <1>5, <2>1, BurySeen DEF View!Delete
<1>7. p \in View!Peers(d) /\ aged \in SUBSET Msg
  BY <1>1, Buried DEF Peers, View!Peers
<1>8. Seen
  BY <1>6, <1>7 DEF Seen, View!Next
<1>. QED
  BY <1>1, <1>3, <1>8 DEF Removed

LEMMA TidyTables ==
  ASSUME Tidy PROVE TablesFit
BY DEF Tidy, TablesFit

\* An op of p is applied at d.
LEMMA ApplySeen ==
  ASSUME TypeOK, Tidy, NEW d \in Device, NEW p \in Peers(d), NEW body \in OpBody, NEW aged,
         Fitting(p, d, body), Apply(d, p, body, aged), UNCHANGED sent
  PROVE  TablesFit' /\ KnownGrow /\ TicksFit' /\ Seen
<1>0. /\ p \in Device /\ body.ids \in SUBSET Msg /\ inbox[d][p] \in SUBSET Msg
      /\ body.ids \subseteq Between(d, p) /\ inbox[d][p] \subseteq Between(d, p)
      /\ TablesFit /\ TicksFit
  <2>1. p \in Device
    BY DEF Peers
  <2>2. body.ids \in SUBSET Msg /\ inbox[d][p] \in SUBSET Msg
    BY <2>1 DEF OpBody, TypeOK
  <2>3. body.ids \subseteq Between(d, p) /\ inbox[d][p] \subseteq Between(d, p)
    BY <2>1 DEF Fitting, Between, Tidy, InPlace
  <2>. QED
    BY <2>1, <2>2, <2>3, TidyTables DEF Tidy
<1>1. CASE body.kind = "msg"
  <2>1. /\ inbox' = [inbox EXCEPT ![d][p] = @ \cup (body.ids \ tombs[d])]
        /\ Bury(d, {}, aged) /\ NoneBuried /\ UNCHANGED sendState
    BY <1>1, Unburied DEF Apply
  <2>2. Arrived(d, p, body.ids)
    BY <1>0, <2>1 DEF Arrived
  <2>3. TablesFit' /\ KnownGrow
    BY <1>0, <2>2, ArrivedFits
  <2>4. PICK m \in sent[p][d] : body = MsgOp(m)
    BY <1>1 DEF Fitting
  <2>5. body.ids = {m} /\ m \in Msg
    BY <1>0, <2>4 DEF MsgOp
  <2>6. Delivered' = Delivered
    BY <2>1 DEF Delivered
  <2>7. inbox \in [Device -> [Device -> SUBSET Msg]]
    BY DEF TypeOK
  <2>8. TicksFit'
    <3>1. \A x, y \in Device : inbox[x][y] \subseteq inbox'[x][y]
      BY <1>0, <2>1, <2>7
    <3>. QED
      BY <1>0, <2>1, <3>1 DEF TicksFit
  <2>9. Seen
    <3>1. CASE m \in inbox[d][p] \cup tombs[d]
      <4>1. inbox[d][p] \cup ({m} \ tombs[d]) = inbox[d][p]
        BY <1>0, <3>1 DEF Tidy, InPlace
      <4>2. inbox' = inbox
        BY <1>0, <2>1, <2>5, <2>7, <4>1
      <4>. QED
        BY <2>1, <4>2, ForgetSeen
    <3>2. CASE m \notin inbox[d][p] \cup tombs[d]
      <4>1. {m} \ tombs[d] = {m}
        BY <3>2
      <4>2. View!Deliver(d, p, m, aged)
        BY <2>1, <2>4, <2>5, <2>6, <3>2, <4>1, BurySeen DEF View!Deliver
      <4>3. p \in View!Peers(d) /\ aged \in SUBSET Msg
        BY <2>1, Buried DEF Peers, View!Peers
      <4>. QED
        BY <2>5, <4>2, <4>3 DEF Seen, View!Next
    <3>. QED
      BY <3>1, <3>2
  <2>. QED
    BY <2>3, <2>8, <2>9
<1>2. CASE body.kind = "delete"
  <2>1. RemoveRows(d, p, body.ids, aged)
    BY <1>2 DEF Apply
  <2>2. body.ids \subseteq Deleted(p)
    BY <1>2 DEF Fitting
  <2>3. Removed(d, p, body.ids) /\ TicksFit' /\ Seen
    BY <1>0, <2>1, <2>2, RemovedSeen
  <2>. QED
    BY <1>0, <2>3, RemovedFits
<1>3. CASE body.kind = "clear"
  <2>1. RemoveRows(d, p, inbox[d][p], aged)
    BY <1>3 DEF Apply
  <2>2. Removed(d, p, inbox[d][p]) /\ TicksFit' /\ Seen
    BY <1>0, <2>1, RemovedSeen
  <2>. QED
    BY <1>0, <2>2, RemovedFits
<1>4. CASE body.kind \in {"profile", "noop"}
  <2>1. Bury(d, {}, aged) /\ NoneBuried /\ UNCHANGED <<inbox, sendState>>
    BY <1>4, Unburied DEF Apply
  <2>. QED
    BY <1>0, <2>1, StillFits, ForgetSeen, TicksStay
<1>. QED
  BY <1>1, <1>2, <1>3, <1>4 DEF Apply

\* A report of p is taken at d: what it marks has been at p.
LEMMA AckedSeen ==
  ASSUME IInv, Tidy, NEW d \in Device, NEW p \in Peers(d), NEW cursor \in Nat,
         cursor <= myApplied[p][d], Acked(d, p, cursor),
         UNCHANGED <<inbox, tombs, forgotten, sent>>
  PROVE  /\ TicksFit' /\ Seen
         /\ \A x, y \in Device : pending'[x][y] \subseteq pending[x][y]
<1>. DEFINE done == {s \in pending[d][p] : s[1] <= cursor}
            ids  == {s[2] : s \in done} \cap inbox[d][p]
<1>0. /\ p \in Device /\ sendState \in [Msg -> SendState] /\ inbox[d][p] \subseteq Msg
      /\ pending \in [Device -> [Device -> SUBSET (Nat \X Msg)]] /\ myApplied[p][d] \in Nat
  <2>1. p \in Device /\ TypeOK
    BY DEF Peers, IInv
  <2>2. /\ inbox \in [Device -> [Device -> SUBSET Msg]]
        /\ myApplied \in [Device -> [Device -> Nat]]
        /\ sendState \in [Msg -> SendState]
        /\ pending \in [Device -> [Device -> SUBSET (Nat \X Msg)]]
    BY <2>1 DEF TypeOK
  <2>3. inbox[d][p] \subseteq Msg
    BY <2>1, <2>2
  <2>. QED
    BY <2>1, <2>2, <2>3
<1>1. /\ pending' = [pending EXCEPT ![d][p] = @ \ done]
      /\ sendState' = [m \in Msg |-> IF m \in ids THEN "ok" ELSE sendState[m]]
  BY DEF Acked, AckPending
<1>2. ASSUME NEW s \in done
      PROVE  s[2] \in sent[d][p] \cap (inbox[p][d] \cup Deleted(p))
  <2>1. s[1] \in DOMAIN log[d][p] /\ log[d][p][s[1]] = MsgOp(s[2])
    BY <1>0, <1>2 DEF Tidy, PendingFits
  <2>2. s[1] \in 1 .. myApplied[p][d]
    <3>1. DOMAIN log[d][p] = 1 .. Len(log[d][p]) /\ Len(log[d][p]) \in Nat
      BY <1>0, LenProperties DEF IInv, TypeOK
    <3>2. s[1] <= cursor /\ cursor <= myApplied[p][d]
      BY <1>2
    <3>3. s[1] \in 1 .. Len(log[d][p])
      BY <2>1, <3>1
    <3>. HIDE DEF done, ids
    <3>. QED
      BY <1>0, <3>1, <3>2, <3>3
  <2>3. s[1] \notin expired[d][p]
    <3>1. MsgOp(s[2]).kind = "msg"
      BY DEF MsgOp
    <3>2. \A i \in expired[d][p] : log[d][p][i].kind \in {"delete", "clear"}
      BY <1>0 DEF IInv, ExpiredDeletes
    <3>. QED
      BY <2>1, <3>1, <3>2
  <2>4. Done(p, d, MsgOp(s[2]))
    BY <1>0, <2>1, <2>2, <2>3 DEF IInv, TakenDone, Taken
  <2>5. s[2] \in inbox[p][d] \cup Deleted(p)
    BY <2>4 DEF Done, MsgOp
  <2>6. \E m \in sent[d][p] : MsgOp(s[2]) = MsgOp(m)
    <3>1. Fitting(d, p, MsgOp(s[2]))
      BY <1>0, <2>1 DEF Tidy, LogFits
    <3>. QED
      BY <3>1 DEF Fitting, MsgOp
  <2>7. s[2] \in sent[d][p]
    BY <2>6 DEF MsgOp
  <2>. QED
    BY <2>5, <2>7
<1>3. ids \subseteq sent[d][p] \cap (inbox[p][d] \cup Deleted(p))
  BY <1>2
<1>. HIDE DEF done, ids
<1>4. \A x, y \in Device : pending'[x][y] \subseteq pending[x][y]
  BY <1>0, <1>1
<1>5. ids \subseteq inbox[d][p]
  BY DEF ids
<1>6. TicksFit'
  <2>. SUFFICES ASSUME NEW k \in Msg, sendState'[k] = "ok"
                PROVE  \E x, y \in Device : k \in sent[x][y] \cap inbox[x][y]
    BY DEF TicksFit
  <2>1. k \in ids \/ sendState[k] = "ok"
    BY <1>1
  <2>. QED
    BY <1>0, <1>3, <1>5, <2>1 DEF Tidy, TicksFit
<1>7. Delivered' = Delivered \cup ids
  BY <1>0, <1>1, <1>5 DEF Delivered
<1>8. View!Tick(d, p, ids)
  BY <1>3, <1>7 DEF View!Tick, View!EverGone, Deleted
<1>9. p \in View!Peers(d) /\ ids \in SUBSET Msg
  BY <1>0, <1>5 DEF Peers, View!Peers
<1>10. Seen
  BY <1>8, <1>9 DEF Seen, View!Next
<1>. QED
  BY <1>4, <1>6, <1>10

-----------------------------------------------------------------------------
(* The steps. *)

\* Tidy after the step, and the step as the users see it
TidySeen == Tidy' /\ Seen

LEMMA TidyFrom ==
  ASSUME TablesFit', LogFits', PendingFits', TicksFit'
  PROVE  Tidy'
BY DEF TablesFit, Tidy

LEMMA SendTextTidy ==
  ASSUME IInv, TypeOK', Tidy, NEW d \in Device, NEW p \in Peers(d), NEW m \in Msg, SendText(d, p, m)
  PROVE  TidySeen
<1>0. p \in Device /\ MsgOp(m) \in OpBody /\ TypeOK /\ TablesFit
  BY Constructors, TidyTables DEF Peers, IInv
<1>1. OnTheWay(d, p) \in SendState \ {"ok"}
  BY DEF OnTheWay, SendState
<1>2. /\ Fresh(m) /\ WriteOwn(d, p, m, OnTheWay(d, p)) /\ UNCHANGED <<tombs, forgotten>>
      /\ AppendAndPush(d, p, MsgOp(m))
      /\ pending' = [pending EXCEPT ![d][p] = @ \cup {<<NextSeq(d, p), m>>}]
  BY DEF SendText
<1>3. Wrote(d, p, m) /\ TicksFit' /\ Seen
  BY <1>0, <1>1, <1>2, Unburied, WroteSeen
<1>4. TablesFit' /\ KnownGrow
  BY <1>0, <1>3, WroteFits
<1>5. /\ LogKept
      /\ NextSeq(d, p) \in DOMAIN log'[d][p] /\ log'[d][p][NextSeq(d, p)] = MsgOp(m)
  BY <1>0, <1>2, AppendKeeps
<1>6. m \in sent'[d][p]
  BY <1>0, <1>2 DEF WriteOwn, TypeOK
<1>7. Fitting(d, p, MsgOp(m))'
  BY <1>6 DEF Fitting, MsgOp, Between
<1>8. LogFits'
  <2>1. log' = [log EXCEPT ![d][p] = Append(@, MsgOp(m))]
    BY <1>2 DEF AppendAndPush
  <2>2. \A x, y \in Device : \A i \in DOMAIN log'[x][y] :
          \/ i \in DOMAIN log[x][y] /\ log'[x][y][i] = log[x][y][i]
          \/ x = d /\ y = p /\ log'[x][y][i] = MsgOp(m)
    BY <1>0, <2>1, OnlyAppended
  <2>3. ASSUME NEW x \in Device, NEW y \in Device, NEW i \in DOMAIN log'[x][y],
               x = d /\ y = p /\ log'[x][y][i] = MsgOp(m)
        PROVE  Fitting(x, y, log[x][y][i])'
    BY <1>7, <2>3 DEF Fitting, MsgOp
  <2>. QED
    BY <1>4, <2>2, <2>3, LogFitsStays DEF Tidy
<1>9. PendingFits'
  <2>1. ASSUME NEW x \in Device, NEW y \in Device, NEW s \in pending'[x][y]
        PROVE  s \in pending[x][y] \/ (x = d /\ y = p /\ s = <<NextSeq(d, p), m>>)
    BY <1>0, <1>2, <2>1 DEF TypeOK
  <2>. QED
    BY <1>5, <2>1, PendingStays DEF Tidy
<1>. QED
  BY <1>3, <1>4, <1>8, <1>9, TidyFrom DEF TidySeen

LEMMA DeleteTidy ==
  ASSUME IInv, TypeOK', Tidy, NEW d \in Device, NEW p \in Peers(d), NEW ids \in SUBSET Msg,
         DeleteMessages(d, p, ids) \/ ClearAll(d, p)
  PROVE  TidySeen
<1>0. /\ p \in Device /\ TypeOK /\ TablesFit /\ inbox[d][p] \in SUBSET Msg
      /\ inbox[d][p] \subseteq Between(d, p)
  <2>1. p \in Device /\ TypeOK
    BY DEF Peers, IInv
  <2>2. TablesFit
    BY <2>1, TidyTables
  <2>3. inbox[d][p] \in SUBSET Msg
    BY <2>1 DEF TypeOK
  <2>4. inbox[d][p] \subseteq Between(d, p)
    BY <2>1 DEF Tidy, InPlace
  <2>. QED
    BY <2>1, <2>2, <2>3, <2>4
<1>1. ASSUME NEW gone \in SUBSET Msg, gone \subseteq inbox[d][p], NEW body \in OpBody,
             RemoveRows(d, p, gone, {}), AppendAndPush(d, p, body),
             body \in {DeleteOp(gone), ClearOp}, UNCHANGED <<sent, pending>>
      PROVE  TidySeen
  <2>1. Removed(d, p, gone) /\ TicksFit' /\ Seen
    BY <1>0, <1>1, RemovedSeen
  <2>2. TablesFit' /\ KnownGrow
    BY <1>0, <2>1, RemovedFits
  <2>3. LogKept
    BY <1>0, <1>1, AppendKeeps
  <2>4. Fitting(d, p, body)'
    <3>1. gone \subseteq Deleted(d)' /\ gone \subseteq Between(d, p)'
      BY <1>0, <1>1, <2>1, RemoveKeeps DEF Removed, Between
    <3>. QED
      BY <1>1, <3>1 DEF Fitting, DeleteOp, ClearOp
  <2>5. LogFits'
    <3>1. log' = [log EXCEPT ![d][p] = Append(@, body)]
      BY <1>1 DEF AppendAndPush
    <3>2. \A x, y \in Device : \A i \in DOMAIN log'[x][y] :
            \/ i \in DOMAIN log[x][y] /\ log'[x][y][i] = log[x][y][i]
            \/ x = d /\ y = p /\ log'[x][y][i] = body
      BY <1>0, <3>1, OnlyAppended
    <3>3. ASSUME NEW x \in Device, NEW y \in Device, NEW i \in DOMAIN log'[x][y],
                 x = d /\ y = p /\ log'[x][y][i] = body
          PROVE  Fitting(x, y, log[x][y][i])'
      BY <2>4, <3>3 DEF Fitting
    <3>. QED
      BY <2>2, <3>2, <3>3, LogFitsStays DEF Tidy
  <2>6. PendingFits'
    BY <1>1, <2>3, PendingStays DEF Tidy
  <2>. QED
    BY <2>1, <2>2, <2>5, <2>6, TidyFrom DEF TidySeen
<1>2. CASE DeleteMessages(d, p, ids)
  <2>1. DeleteOp(ids) \in OpBody
    BY Constructors
  <2>. QED
    BY <1>1, <1>2, <2>1 DEF DeleteMessages
<1>3. CASE ClearAll(d, p)
  <2>1. ClearOp \in OpBody
    BY Constructors
  <2>. QED
    BY <1>0, <1>1, <1>3, <2>1 DEF ClearAll
<1>. QED
  BY <1>2, <1>3

\* A step that appends nothing but profiles, and queues no message
LEMMA SameLogs ==
  ASSUME Tidy, KnownGrow, LogKept, \A x, y \in Device : pending'[x][y] \subseteq pending[x][y],
         \A x, y \in Device : \A i \in DOMAIN log'[x][y] :
           \/ i \in DOMAIN log[x][y] /\ log'[x][y][i] = log[x][y][i]
           \/ log'[x][y][i] = ProfileOp
  PROVE  LogFits' /\ PendingFits'
<1>1. PendingFits'
  BY PendingStays DEF Tidy
<1>2. ASSUME NEW x \in Device, NEW y \in Device, NEW i \in DOMAIN log'[x][y],
             log'[x][y][i] = ProfileOp
      PROVE  Fitting(x, y, log[x][y][i])'
  BY <1>2 DEF Fitting, ProfileOp
<1>3. LogFits'
  BY <1>2, LogFitsStays DEF Tidy
<1>. QED
  BY <1>1, <1>3

LEMMA HandleTidy ==
  ASSUME IInv, TypeOK', Tidy, NEW d \in Device, NEW p \in Peers(d), NEW e \in Flight(p, d), NEW q,
         Handle(d, p, e, q)
  PROVE  TidySeen
<1>0. /\ p \in Device /\ TypeOK /\ e \in Envelope /\ e.seq \in Nat /\ e.body \in OpBody
      /\ Honest(p, d, e)
  <2>1. p \in Device /\ TypeOK
    BY DEF Peers, IInv
  <2>2. e \in Envelope
    BY <2>1, FlightType
  <2>. QED
    BY <2>1, <2>2 DEF Envelope, IInv, FlightHonest
<1>1. log' = log
  BY DEF Handle, HandleHello, HandleAck, HandleOp
<1>2. CASE HandleHello(d, p, e, q) \/ HandleAck(d, p, e, q)
  <2>1. e.type # "op" /\ Acked(d, p, e.seq) /\ UNCHANGED <<inbox, tombs, forgotten, sent>>
    BY <1>2 DEF HandleHello, HandleAck
  <2>2. e.seq <= myApplied[p][d]
    BY <1>0, <2>1 DEF Honest
  <2>3. TicksFit' /\ Seen /\ \A x, y \in Device : pending'[x][y] \subseteq pending[x][y]
    BY <1>0, <2>1, <2>2, AckedSeen
  <2>4. TablesFit' /\ KnownGrow
    BY <2>1, TidyTables, Unburied, StillFits
  <2>5. LogFits' /\ PendingFits'
    BY <1>1, <2>3, <2>4, SameLogs DEF LogKept
  <2>. QED
    BY <2>3, <2>4, <2>5, TidyFrom DEF TidySeen
<1>3. CASE HandleOp(d, p, e, q)
  <2>1. e.type = "op" /\ Apply(d, p, e.body, {}) /\ UNCHANGED <<sent, pending>>
    BY <1>3 DEF HandleOp
  <2>2. Fitting(p, d, e.body)
    <3>1. e.seq \in DOMAIN log[p][d] /\ (e.body = log[p][d][e.seq] \/ e.body = NoOp)
      BY <1>0, <2>1 DEF Honest
    <3>2. Fitting(p, d, NoOp)
      BY DEF Fitting, NoOp
    <3>3. Fitting(p, d, log[p][d][e.seq])
      BY <1>0, <3>1 DEF Tidy, LogFits
    <3>. QED
      BY <3>1, <3>2, <3>3
  <2>3. TablesFit' /\ KnownGrow /\ TicksFit' /\ Seen
    BY <1>0, <2>1, <2>2, ApplySeen
  <2>4. LogFits' /\ PendingFits'
    BY <1>1, <2>1, <2>3, SameLogs DEF LogKept
  <2>. QED
    BY <2>3, <2>4, TidyFrom DEF TidySeen
<1>. QED
  BY <1>2, <1>3 DEF Handle

\* A step that leaves the tables alone and marks nothing as delivered
LEMMA QuietTidy ==
  ASSUME TypeOK, Tidy, UNCHANGED <<inbox, tombs, forgotten, sent>>, LogKept,
         \A m \in Msg : sendState'[m] = "ok" <=> sendState[m] = "ok",
         \A x, y \in Device : pending'[x][y] \subseteq pending[x][y],
         \A x, y \in Device : \A i \in DOMAIN log'[x][y] :
           \/ i \in DOMAIN log[x][y] /\ log'[x][y][i] = log[x][y][i]
           \/ log'[x][y][i] = ProfileOp
  PROVE  TidySeen
<1>1. TablesFit' /\ KnownGrow
  BY TidyTables, Unburied, StillFits
<1>2. TicksFit'
  BY TicksStay DEF Tidy
<1>3. LogFits' /\ PendingFits'
  BY <1>1, SameLogs
<1>4. Seen
  BY StillSeen
<1>. QED
  BY <1>1, <1>2, <1>3, <1>4, TidyFrom DEF TidySeen

LEMMA RegisterTidy ==
  ASSUME TypeOK, Tidy, LogKept, NEW d \in Device, NEW p \in Device,
         Dial(d, p) \/ Accept(d, p)
  PROVE  TidySeen
<1>1. PICK sinkSeq, envs : RegisterSink(d, p, sinkSeq, envs, chan)
  <2>1. CASE Dial(d, p)
    BY <2>1 DEF Dial
  <2>2. CASE Accept(d, p)
    BY <2>2 DEF Accept
  <2>. QED
    BY <2>1, <2>2
<1>2. UNCHANGED <<inbox, tombs, forgotten, sent, pending>>
  BY DEF Dial, Accept
<1>3. \A m \in Msg : sendState'[m] = "ok" <=> sendState[m] = "ok"
  <2>1. sendState' = sendState \/ sendState' = Retag(d, p, "queued", "sending")
    BY <1>1 DEF RegisterSink
  <2>. QED
    BY <2>1, RetagMarks
<1>4. \A x, y \in Device : \A i \in DOMAIN log'[x][y] :
        \/ i \in DOMAIN log[x][y] /\ log'[x][y][i] = log[x][y][i]
        \/ log'[x][y][i] = ProfileOp
  BY <1>1, OnlyProfile
<1>. QED
  BY <1>2, <1>3, <1>4, QuietTidy

LEMMA CutTidy ==
  ASSUME TypeOK, Tidy, LogKept, NEW d \in Device, NEW p \in Device,
         \/ DialClosed(d, p) \/ AcceptClosed(d, p)
         \/ Break(d, p) \/ ForceDisconnect(d, p) \/ Expire(d, p)
  PROVE  TidySeen
<1>1. UNCHANGED <<inbox, tombs, forgotten, sent, log, pending>>
  BY DEF DialClosed, AcceptClosed, Break, ForceDisconnect, Expire, durable, volatile
<1>2. \A m \in Msg : sendState'[m] = "ok" <=> sendState[m] = "ok"
  <2>1. sendState' = sendState \/ sendState' = Retag(d, p, "sending", "queued")
    BY DEF DialClosed, AcceptClosed, UnregisterSink, Break, ForceDisconnect, Expire, durable
  <2>. QED
    BY <2>1, RetagMarks
<1>. QED
  BY <1>1, <1>2, QuietTidy

LEMMA CrashTidy ==
  ASSUME TypeOK, Tidy, NEW d \in Device, NEW p \in Peers(d), Crash(d)
  PROVE  TidySeen
<1>1. PICK aged \in SUBSET Msg : Bury(d, {}, aged)
  BY DEF Crash
<1>2. NoneBuried /\ UNCHANGED <<inbox, sent, sendState, log>>
  BY Unburied DEF Crash
<1>3. TablesFit' /\ KnownGrow
  BY <1>2, TidyTables, StillFits
<1>4. TicksFit' /\ Seen
  BY <1>1, <1>2, TicksStay, ForgetSeen DEF Tidy
<1>5. \A x, y \in Device : pending'[x][y] \subseteq pending[x][y]
  BY DEF Crash, Restart, TypeOK
<1>6. LogFits' /\ PendingFits'
  BY <1>2, <1>3, <1>5, SameLogs DEF LogKept
<1>. QED
  BY <1>3, <1>4, <1>6, TidyFrom DEF TidySeen

\* The op a torn delete never logged is missed at the other end; to the users it is a delete.
LEMMA TornDeleteTidy ==
  ASSUME TypeOK, Tidy, NEW d \in Device, NEW p \in Peers(d), NEW ids \in SUBSET Msg,
         TornDelete(d, p, ids)
  PROVE  TidySeen
<1>0. p \in Device /\ ids \subseteq inbox[d][p] /\ UNCHANGED <<sent, log>>
  BY DEF Peers, TornDelete
<1>1. PICK aged \in SUBSET Msg : RemoveRows(d, p, ids, aged)
  BY DEF TornDelete
<1>2. ids \subseteq Between(d, p)
  BY <1>0 DEF Tidy, InPlace
<1>3. Removed(d, p, ids) /\ TicksFit' /\ Seen
  BY <1>0, <1>1, <1>2, RemovedSeen
<1>4. TablesFit' /\ KnownGrow
  BY <1>0, <1>3, TidyTables, RemovedFits
<1>5. \A x, y \in Device : pending'[x][y] \subseteq pending[x][y]
  BY DEF TornDelete, Restart, TypeOK
<1>6. LogFits' /\ PendingFits'
  BY <1>0, <1>4, <1>5, SameLogs DEF LogKept
<1>. QED
  BY <1>3, <1>4, <1>6, TidyFrom DEF TidySeen

\* The row of a torn send may start as delivered: no step of the abstract conversation.
LEMMA TornSendTidy ==
  ASSUME TypeOK, Tidy, LogKept, NEW d \in Device, NEW p \in Peers(d), NEW m \in Msg,
         TornSend(d, p, m)
  PROVE  Tidy'
<1>0. TablesFit /\ p \in Device
  BY TidyTables DEF Peers
<1>1. PICK state \in {"ok", OnTheWay(d, p)} : WriteOwn(d, p, m, state)
  BY DEF TornSend
<1>2. state \in SendState /\ Fresh(m) /\ NoneBuried /\ UNCHANGED log
  BY <1>1, Unburied DEF TornSend, OnTheWay, SendState
<1>3. Wrote(d, p, m) /\ TicksFit'
  BY <1>1, <1>2, WroteSeen
<1>4. TablesFit' /\ KnownGrow
  BY <1>0, <1>3, WroteFits
<1>5. \A x, y \in Device : pending'[x][y] \subseteq pending[x][y]
  BY DEF TornSend, Restart, TypeOK
<1>6. LogFits' /\ PendingFits'
  BY <1>2, <1>4, <1>5, SameLogs
<1>. QED
  BY <1>3, <1>4, <1>6, TidyFrom

LEMMA TornApplyTidy ==
  ASSUME IInv, Tidy, LogKept, NEW d \in Device, NEW p \in Peers(d), NEW r \in Role,
         TornApply(d, p, r)
  PROVE  TidySeen
<1>. DEFINE e == Head(chan[p][d][r])
<1>0. p \in Device /\ TypeOK
  BY DEF Peers, IInv
<1>1. e \in Flight(p, d) /\ e \in Envelope
  <2>1. chan[p][d][r] # <<>> /\ chan[p][d][r] \in Seq(Envelope)
    BY <1>0 DEF TornApply, Deliverable, TypeOK
  <2>2. e \in Flight(p, d)
    BY <2>1, LenProperties DEF Flight, ToSet
  <2>. QED
    BY <1>0, <2>2, FlightType
<1>2. e.type = "op" /\ UNCHANGED <<sent, log>> /\ \E aged : Apply(d, p, e.body, aged)
  BY TornOp DEF TornApply
<1>. HIDE DEF e
<1>3. Fitting(p, d, e.body) /\ e.body \in OpBody
  <2>1. e.seq \in DOMAIN log[p][d] /\ (e.body = log[p][d][e.seq] \/ e.body = NoOp)
    BY <1>0, <1>1, <1>2 DEF IInv, FlightHonest, Honest
  <2>2. Fitting(p, d, NoOp)
    BY DEF Fitting, NoOp
  <2>3. Fitting(p, d, log[p][d][e.seq])
    BY <1>0, <2>1 DEF Tidy, LogFits
  <2>. QED
    BY <1>1, <2>1, <2>2, <2>3 DEF Envelope
<1>4. TablesFit' /\ KnownGrow /\ TicksFit' /\ Seen
  BY <1>0, <1>2, <1>3, ApplySeen
<1>5. \A x, y \in Device : pending'[x][y] \subseteq pending[x][y]
  BY <1>0 DEF TornApply, Restart, TypeOK
<1>6. LogFits' /\ PendingFits'
  BY <1>2, <1>4, <1>5, SameLogs
<1>. QED
  BY <1>4, <1>6, TidyFrom DEF TidySeen

LEMMA TidyStep ==
  ASSUME IInv, Tidy, [Next]_vars
  PROVE  Tidy' /\ ("torn_send" \notin Faults => Seen)
<1>0. TypeOK /\ TypeOK' /\ LogKept
  BY TypeStep, InvariantStep DEF IInv, Progress, Grows
<1>1. CASE UNCHANGED vars
  <2>1. UNCHANGED <<inbox, tombs, forgotten, sent, log, pending, sendState>>
    BY <1>1 DEF vars, durable, volatile
  <2>. QED
    BY <1>0, <2>1, QuietTidy DEF TidySeen
<1>2. ASSUME NEW d \in Device, NEW p \in Peers(d),
             UserStep(d, p) \/ LinkStep(d, p) \/ FaultStep(d, p)
      PROVE  Tidy' /\ ("torn_send" \notin Faults => Seen)
  <2>1. p \in Device
    BY DEF Peers
  <2>2. CASE UserStep(d, p)
    BY <1>0, <2>2, SendTextTidy, DeleteTidy DEF UserStep, TidySeen
  <2>3. CASE MailDeliver(d, p)
    <3>1. PICK e \in mail[p][d] : Handle(d, p, e, chan)
      BY <2>3 DEF MailDeliver
    <3>2. e \in Flight(p, d)
      BY DEF Flight
    <3>. QED
      BY <1>0, <3>1, <3>2, HandleTidy DEF TidySeen
  <2>4. ASSUME NEW r \in Role, Receive(d, p, r)
        PROVE  TidySeen
    <3>1. chan[p][d][r] # <<>> /\ chan[p][d][r] \in Seq(Envelope)
      BY <1>0, <2>1, <2>4 DEF Receive, Deliverable, TypeOK
    <3>2. Head(chan[p][d][r]) \in Flight(p, d)
      BY <3>1, LenProperties DEF Flight, ToSet
    <3>. QED
      BY <1>0, <2>4, <3>2, HandleTidy DEF Receive
  <2>5. CASE Dial(d, p) \/ Accept(d, p)
    BY <1>0, <2>1, <2>5, RegisterTidy DEF TidySeen
  <2>6. CASE \/ DialClosed(d, p) \/ AcceptClosed(d, p)
             \/ Break(d, p) \/ ForceDisconnect(d, p) \/ Expire(d, p)
    BY <1>0, <2>1, <2>6, CutTidy DEF TidySeen
  <2>7. ASSUME NEW m \in Msg, TornSend(d, p, m)
        PROVE  Tidy' /\ "torn_send" \in Faults
    <3>1. Tidy'
      BY <1>0, <2>7, TornSendTidy
    <3>. QED
      BY <2>7, <3>1 DEF TornSend, Fault
  <2>8. ASSUME NEW r \in Role, TornApply(d, p, r)
        PROVE  TidySeen
    BY <1>0, <2>8, TornApplyTidy
  <2>9. Crash(d) \/ (\E ids \in SUBSET Msg : TornDelete(d, p, ids)) => TidySeen
    BY <1>0, CrashTidy, TornDeleteTidy
  <2>. QED
    BY <1>2, <2>2, <2>3, <2>4, <2>5, <2>6, <2>7, <2>8, <2>9 DEF LinkStep, FaultStep, TidySeen
<1>. QED
  BY <1>1, <1>2, StepCases

LEMMA TidyInit ==
  ASSUME Init
  PROVE  Tidy /\ View!Init
<1>1. InPlace /\ TombsKnown /\ WrittenOnce
  BY DEF Init, PerPeer, InPlace, TombsKnown, WrittenOnce, Deleted
<1>2. LogFits /\ PendingFits
  BY DEF Init, PerPeer, LogFits, PendingFits
<1>3. TicksFit /\ Delivered = {}
  BY DEF Init, TicksFit, Delivered
<1>4. View!Init
  BY <1>3 DEF Init, PerPeer, View!Init
<1>. QED
  BY <1>1, <1>2, <1>3, <1>4 DEF Tidy

\* What a device has deleted does not come back to it, whatever copy of it still arrives over
\* a link, from the mailbox or from a replay, for as long as the device remembers: that is,
\* until it starts when the deletion is more than two days old.  Starts before that do no
\* harm, and neither does any other fault.
THEOREM DeletedStaysAway == Spec => []DeletedStaysDeleted
<1>1. IInv /\ Tidy => DeletedStaysDeleted
  <2>. SUFFICES ASSUME Tidy, NEW d \in Device, NEW p \in Device, NEW i \in DOMAIN log[d][p],
                       log[d][p][i].kind = "delete"
                PROVE  log[d][p][i].ids \cap inbox[d][p] \subseteq forgotten[d]
    BY DEF DeletedStaysDeleted, Peers
  <2>1. log[d][p][i].ids \subseteq tombs[d] \cup forgotten[d]
    BY DEF Tidy, LogFits, Fitting, Deleted
  <2>2. inbox[d][p] \cap tombs[d] = {}
    BY DEF Tidy, InPlace
  <2>. QED
    BY <2>1, <2>2
<1>2. Init => IInv /\ Tidy
  BY InvariantInit, TidyInit
<1>3. IInv /\ Tidy /\ [Next]_vars => (IInv /\ Tidy)'
  BY InvariantStep, TidyStep
<1>. QED
  BY <1>1, <1>2, <1>3, PTL DEF Spec

\* The protocol implements the abstract conversation: a message is shown to its receiver,
\* marked as delivered only when it has been there, and what was deleted does not come back
\* until the device forgets that, at a start two days later.  The one exception is a restart
\* between insertMessage and appendOp, whose row starts as delivered.
THEOREM ConversationKept ==
  ASSUME "torn_send" \notin Faults
  PROVE  Spec => ImplementsConversation
<1>1. Init => IInv /\ Tidy /\ View!Init
  BY InvariantInit, TidyInit
<1>2. IInv /\ Tidy /\ [Next]_vars => (IInv /\ Tidy)' /\ [View!Next]_(View!convVars)
  BY InvariantStep, TidyStep DEF Seen
<1>. QED
  BY <1>1, <1>2, PTL DEF Spec, ImplementsConversation, View!Spec

-----------------------------------------------------------------------------
(***************************************************************************)
(* The two ends agree once everything is applied (Converged).              *)
(*                                                                         *)
(* What a device wrote, it has or has deleted (OwnKept), and what the      *)
(* other wrote has arrived.  So a message that is at one end only was      *)
(* deleted at the other; if a delete op says so, it has been applied, and  *)
(* the message is back only because its end forgot that.                   *)
(*                                                                         *)
(* Where no deletion goes untold, the ends are equal (EndsEqual): what a   *)
(* device deleted, the other end has deleted as well or the log still      *)
(* names in a delete op (DeletionsTold).  A clear op names nothing.        *)
(***************************************************************************)
OwnKept == \A x, y \in Device : sent[x][y] \subseteq inbox[x][y] \cup Deleted(x)

\* what is new of one's own is a row
NewOwn == \A x, y \in Device : \A m \in sent'[x][y] : m \in sent[x][y] \/ m \in inbox'[x][y]

LEMMA OwnStays ==
  ASSUME OwnKept, RowsKept, NewOwn
  PROVE  OwnKept'
<1>. SUFFICES ASSUME NEW x \in Device, NEW y \in Device, NEW m \in sent'[x][y]
              PROVE  m \in inbox'[x][y] \cup Deleted(x)'
  BY DEF OwnKept
<1>1. CASE m \in sent[x][y]
  <2>1. m \in inbox[x][y] \cup Deleted(x)
    BY <1>1 DEF OwnKept
  <2>. QED
    BY <2>1 DEF RowsKept
<1>2. CASE m \in inbox'[x][y]
  BY <1>2
<1>. QED
  BY <1>1, <1>2 DEF NewOwn

LEMMA WroteNew ==
  ASSUME TypeOK, NEW d \in Device, NEW p \in Device, NEW m \in Msg, NEW state,
         WriteOwn(d, p, m, state)
  PROVE  NewOwn
<1>1. \A x, y \in Device :
        /\ sent'[x][y] = IF x = d /\ y = p THEN sent[x][y] \cup {m} ELSE sent[x][y]
        /\ inbox'[x][y] = IF x = d /\ y = p THEN inbox[x][y] \cup {m} ELSE inbox[x][y]
  BY DEF WriteOwn, TypeOK
<1>. QED
  BY <1>1 DEF NewOwn

LEMMA OwnStep ==
  ASSUME IInv, OwnKept, [Next]_vars
  PROVE  OwnKept'
<1>0. TypeOK /\ RowsKept
  BY InvariantStep DEF IInv, Progress, Grows
<1>1. CASE UNCHANGED sent
  <2>1. NewOwn
    BY <1>1 DEF NewOwn
  <2>. QED
    BY <1>0, <2>1, OwnStays
<1>2. ASSUME NEW d \in Device, NEW p \in Peers(d),
             UserStep(d, p) \/ LinkStep(d, p) \/ FaultStep(d, p)
      PROVE  OwnKept'
  <2>1. p \in Device
    BY DEF Peers
  <2>2. ASSUME NEW m \in Msg, SendText(d, p, m) \/ TornSend(d, p, m)
        PROVE  OwnKept'
    <3>1. \E state : WriteOwn(d, p, m, state)
      BY <2>2 DEF SendText, TornSend
    <3>. QED
      BY <1>0, <2>1, <3>1, WroteNew, OwnStays
  <2>3. ASSUME NEW ids \in SUBSET Msg,
               DeleteMessages(d, p, ids) \/ ClearAll(d, p) \/ TornDelete(d, p, ids)
        PROVE  UNCHANGED sent
    BY <2>3 DEF DeleteMessages, ClearAll, TornDelete
  <2>4. CASE LinkStep(d, p)
    BY <1>1, <2>4 DEF LinkStep, Dial, Accept, DialClosed, AcceptClosed, MailDeliver, Receive,
       Handle, HandleHello, HandleAck, HandleOp
  <2>5. CASE Break(d, p) \/ ForceDisconnect(d, p) \/ Crash(d) \/ Expire(d, p)
    BY <1>1, <2>5 DEF Break, ForceDisconnect, Crash, Expire, durable
  <2>6. ASSUME NEW r \in Role, TornApply(d, p, r)
        PROVE  UNCHANGED sent
    BY <2>6 DEF TornApply
  <2>. QED
    BY <1>1, <1>2, <2>2, <2>3, <2>4, <2>5, <2>6 DEF UserStep, FaultStep
<1>3. UNCHANGED vars => UNCHANGED sent
  BY DEF vars, durable
<1>. QED
  BY <1>1, <1>2, <1>3, StepCases

LEMMA OwnInit == Init => OwnKept
BY DEF Init, PerPeer, OwnKept

\* A message that is at d only was deleted at p ...
LEMMA MissingDeleted ==
  ASSUME IInv, SentLogged, Tidy, OwnKept, NEW d \in Device, NEW p \in Device,
         Settled(d, p), NEW m \in inbox[d][p], m \notin inbox[p][d]
  PROVE  m \in Between(d, p) /\ m \notin tombs[d] /\ m \in Deleted(p)
<1>0. DOMAIN log[d][p] = 1 .. Len(log[d][p]) /\ myApplied[p][d] = Len(log[d][p])
  BY LenProperties DEF IInv, TypeOK, Settled
<1>1. m \in Between(d, p) /\ m \notin tombs[d]
  BY DEF Tidy, InPlace
<1>2. CASE m \in sent[p][d]
  BY <1>1, <1>2 DEF OwnKept
<1>3. CASE m \in sent[d][p]
  <2>1. PICK i \in DOMAIN log[d][p] : log[d][p][i] = MsgOp(m)
    BY <1>3 DEF SentLogged
  <2>2. i \in Taken(p, d)
    BY <1>0 DEF Taken
  <2>3. i \notin expired[d][p]
    BY <2>1 DEF IInv, ExpiredDeletes, MsgOp
  <2>4. Done(p, d, MsgOp(m))
    BY <2>1, <2>2, <2>3 DEF IInv, TakenDone
  <2>. QED
    BY <1>1, <2>4 DEF Done, MsgOp
<1>. QED
  BY <1>1, <1>2, <1>3 DEF Between

\* ... and what a delete op of p names, d has deleted.
LEMMA ToldDeleted ==
  ASSUME IInv, NEW d \in Device, NEW p \in Device, Settled(d, p), expired[p][d] = {},
         NEW m, ~Untold(p, d, m)
  PROVE  m \in Deleted(d)
<1>1. DOMAIN log[p][d] = 1 .. Len(log[p][d]) /\ myApplied[d][p] = Len(log[p][d])
  BY LenProperties DEF IInv, TypeOK, Settled
<1>2. PICK i \in DOMAIN log[p][d] : log[p][d][i].kind = "delete" /\ m \in log[p][d][i].ids
  BY DEF Untold
<1>3. i \in Taken(d, p)
  BY <1>1 DEF Taken
<1>4. Done(d, p, log[p][d][i])
  BY <1>3 DEF IInv, TakenDone
<1>. QED
  BY <1>2, <1>4 DEF Done

LEMMA Agreed ==
  ASSUME IInv, SentLogged, Tidy, OwnKept
  PROVE  Converged
<1>. SUFFICES ASSUME NEW d \in Device, NEW p \in Device,
                     Settled(d, p), expired[d][p] = {}, expired[p][d] = {},
                     NEW m \in inbox[d][p], m \notin inbox[p][d]
              PROVE  m \in forgotten[d] \/ (m \in Deleted(p) /\ Untold(p, d, m))
  BY DEF Converged, Peers
<1>1. m \notin tombs[d] /\ m \in Deleted(p)
  BY MissingDeleted
<1>2. CASE ~Untold(p, d, m)
  BY <1>1, <1>2, ToldDeleted DEF Deleted
<1>. QED
  BY <1>1, <1>2

\* Once each end has applied what the other logged, a message is missing at one end only if
\* it was deleted there and no op says so -- the process ended inside _doDelete, or the
\* conversation was cleared -- or if the other end forgot that it had deleted it: whatever
\* was lost, repeated or reordered on the way, and however often either end started anew.
\* Left out is a restart between insertMessage and appendOp, whose message has no op.
THEOREM EndsAgree ==
  ASSUME "torn_send" \notin Faults
  PROVE  Spec => []Converged
<1>1. IInv /\ Tidy /\ OwnKept => Converged
  BY Agreed DEF IInv
<1>2. Init => IInv /\ Tidy /\ OwnKept
  BY InvariantInit, TidyInit, OwnInit
<1>3. IInv /\ Tidy /\ OwnKept /\ [Next]_vars => (IInv /\ Tidy /\ OwnKept)'
  BY InvariantStep, TidyStep, OwnStep
<1>. QED
  BY <1>1, <1>2, <1>3, PTL DEF Spec

\* y has deleted what x deleted, or a delete op of x names it
Told(x, y, m) == m \in Between(x, y) /\ (m \in Deleted(y) \/ ~Untold(x, y, m))

DeletionsTold == \A x \in Device : \A m \in Deleted(x) : \E y \in Device : Told(x, y, m)

NeverCleared == \A x, y \in Device : \A i \in DOMAIN log[x][y] : log[x][y][i].kind # "clear"

\* nothing is old enough to be purged or left out
AllYoung == \A x, y \in Device : forgotten[x] = {} /\ expired[x][y] = {}

Agreeing == DeletionsTold /\ NeverCleared /\ AllYoung

LEMMA ToldStays ==
  ASSUME DeletionsTold, KnownGrow, LogKept,
         \A x \in Device : \A m \in Deleted(x)' :
           m \in Deleted(x) \/ \E y \in Device : Told(x, y, m)'
  PROVE  DeletionsTold'
<1>1. ASSUME NEW x \in Device, NEW y \in Device, NEW m, Told(x, y, m)
      PROVE  Told(x, y, m)'
  <2>1. m \in Between(x, y)' /\ (m \in Deleted(y) => m \in Deleted(y)')
    BY <1>1 DEF Told, Between, KnownGrow
  <2>2. ~Untold(x, y, m) => ~Untold(x, y, m)'
    BY DEF Untold, LogKept
  <2>. QED
    BY <1>1, <2>1, <2>2 DEF Told
<1>2. ASSUME NEW x \in Device, NEW m \in Deleted(x)
      PROVE  \E y \in Device : Told(x, y, m)'
  BY <1>1 DEF DeletionsTold
<1>. QED
  BY <1>2 DEF DeletionsTold

\* Where no two days pass, nothing is purged.
LEMMA YoungStays ==
  ASSUME TypeOK, AllYoung, UNCHANGED expired,
         \/ UNCHANGED forgotten
         \/ \E d \in Device : \E ids \in SUBSET Msg : Bury(d, ids, {})
  PROVE  AllYoung'
BY DEF AllYoung, Bury, TypeOK

LEMMA NeverClearedStays ==
  ASSUME NeverCleared,
         \A x, y \in Device : \A i \in DOMAIN log'[x][y] :
           \/ i \in DOMAIN log[x][y] /\ log'[x][y][i] = log[x][y][i]
           \/ log'[x][y][i].kind # "clear"
  PROVE  NeverCleared'
BY DEF NeverCleared

\* A step that deletes nothing, writes nothing, and logs at most a profile
LEMMA QuietAgrees ==
  ASSUME Agreeing, LogKept, NoneBuried, UNCHANGED sent, AllYoung',
         \A x, y \in Device : \A i \in DOMAIN log'[x][y] :
           \/ i \in DOMAIN log[x][y] /\ log'[x][y][i] = log[x][y][i]
           \/ log'[x][y][i] = ProfileOp
  PROVE  Agreeing'
<1>1. KnownGrow
  BY DEF KnownGrow, NoneBuried
<1>2. DeletionsTold'
  BY <1>1, ToldStays DEF Agreeing, NoneBuried
<1>3. ProfileOp.kind # "clear"
  BY DEF ProfileOp
<1>4. NeverCleared'
  BY <1>3, NeverClearedStays DEF Agreeing
<1>. QED
  BY <1>2, <1>4 DEF Agreeing

LEMMA SendTextAgrees ==
  ASSUME TypeOK, Agreeing, LogKept,
         NEW d \in Device, NEW p \in Peers(d), NEW m \in Msg, SendText(d, p, m)
  PROVE  Agreeing'
<1>0. p \in Device /\ MsgOp(m) \in OpBody /\ MsgOp(m).kind # "clear"
  BY Constructors DEF Peers, MsgOp
<1>1. WriteOwn(d, p, m, OnTheWay(d, p)) /\ UNCHANGED <<tombs, forgotten, expired>>
  BY DEF SendText
<1>2. \A x, y \in Device : sent[x][y] \subseteq sent'[x][y]
  BY <1>0, <1>1 DEF WriteOwn, TypeOK
<1>3. KnownGrow
  BY <1>1, <1>2 DEF KnownGrow, Deleted
<1>4. DeletionsTold'
  BY <1>1, <1>3, ToldStays DEF Agreeing, Deleted
<1>5. AllYoung'
  BY <1>1 DEF Agreeing, AllYoung
<1>6. log' = [log EXCEPT ![d][p] = Append(@, MsgOp(m))]
  BY DEF SendText, AppendAndPush
<1>7. NeverCleared'
  BY <1>0, <1>6, OnlyAppended, NeverClearedStays DEF Agreeing
<1>. QED
  BY <1>4, <1>5, <1>7 DEF Agreeing

LEMMA DeleteAgrees ==
  ASSUME TypeOK, TypeOK', InPlace, Agreeing, LogKept,
         NEW d \in Device, NEW p \in Peers(d), NEW ids \in SUBSET Msg, DeleteMessages(d, p, ids)
  PROVE  Agreeing'
<1>0. p \in Device /\ DeleteOp(ids) \in OpBody /\ DeleteOp(ids).kind # "clear"
  BY Constructors DEF Peers, DeleteOp
<1>1. /\ Bury(d, ids, {}) /\ UNCHANGED <<sent, expired>> /\ ids \subseteq inbox[d][p]
      /\ AppendAndPush(d, p, DeleteOp(ids))
  BY DEF DeleteMessages, RemoveRows
<1>2. \A x \in Device : Deleted(x)' = IF x = d THEN Deleted(x) \cup ids ELSE Deleted(x)
  BY <1>1, Buried
<1>3. KnownGrow
  BY <1>1, <1>2 DEF KnownGrow
<1>4. NextSeq(d, p) \in DOMAIN log'[d][p] /\ log'[d][p][NextSeq(d, p)] = DeleteOp(ids)
  BY <1>0, <1>1, AppendKeeps
<1>5. ASSUME NEW m \in ids
      PROVE  Told(d, p, m)'
  <2>1. m \in Between(d, p)'
    BY <1>0, <1>1 DEF InPlace, Between
  <2>2. log'[d][p][NextSeq(d, p)].kind = "delete" /\ m \in log'[d][p][NextSeq(d, p)].ids
    BY <1>4 DEF DeleteOp
  <2>3. ~Untold(d, p, m)'
    BY <1>4, <2>2 DEF Untold
  <2>. QED
    BY <2>1, <2>3 DEF Told
<1>6. DeletionsTold'
  <2>1. \A x \in Device : \A m \in Deleted(x)' :
          m \in Deleted(x) \/ \E y \in Device : Told(x, y, m)'
    BY <1>0, <1>2, <1>5
  <2>. QED
    BY <1>3, <2>1, ToldStays DEF Agreeing
<1>7. AllYoung'
  BY <1>1, YoungStays DEF Agreeing
<1>8. log' = [log EXCEPT ![d][p] = Append(@, DeleteOp(ids))]
  BY <1>1 DEF AppendAndPush
<1>9. NeverCleared'
  BY <1>0, <1>8, OnlyAppended, NeverClearedStays DEF Agreeing
<1>. QED
  BY <1>6, <1>7, <1>9 DEF Agreeing

\* An op of p that is applied deletes what p has deleted.
LEMMA ApplyAgrees ==
  ASSUME TypeOK, Agreeing, UNCHANGED <<sent, log, expired>>,
         NEW d \in Device, NEW p \in Peers(d), NEW body \in OpBody,
         Fitting(p, d, body), body.kind # "clear", Apply(d, p, body, {})
  PROVE  Agreeing'
<1>0. p \in Device /\ LogKept /\ body.ids \in SUBSET Msg
  BY DEF Peers, LogKept, OpBody
<1>1. CASE body.kind # "delete"
  <2>1. Bury(d, {}, {}) /\ NoneBuried
    BY <1>1, Unburied DEF Apply
  <2>2. AllYoung'
    BY <2>1, YoungStays DEF Agreeing
  <2>. QED
    BY <1>0, <2>1, <2>2, QuietAgrees
<1>2. CASE body.kind = "delete"
  <2>0. Bury(d, body.ids, {})
    BY <1>2 DEF Apply, RemoveRows
  <2>1. \A x \in Device : Deleted(x)' = IF x = d THEN Deleted(x) \cup body.ids ELSE Deleted(x)
    BY <1>0, <2>0, Buried
  <2>2. KnownGrow
    BY <2>1 DEF KnownGrow
  <2>3. ASSUME NEW m \in body.ids
        PROVE  Told(d, p, m)'
    <3>1. m \in Between(p, d) /\ m \in Deleted(p)
      BY <1>2 DEF Fitting
    <3>2. m \in Between(d, p)' /\ m \in Deleted(p)'
      BY <1>0, <3>1, <2>2 DEF Between, KnownGrow
    <3>. QED
      BY <3>2 DEF Told
  <2>4. \A x \in Device : \A m \in Deleted(x)' :
          m \in Deleted(x) \/ \E y \in Device : Told(x, y, m)'
    BY <1>0, <2>1, <2>3
  <2>5. DeletionsTold'
    BY <1>0, <2>2, <2>4, ToldStays DEF Agreeing
  <2>6. AllYoung'
    BY <1>0, <2>0, YoungStays DEF Agreeing
  <2>7. NeverCleared'
    BY NeverClearedStays DEF Agreeing
  <2>. QED
    BY <2>5, <2>6, <2>7 DEF Agreeing
<1>. QED
  BY <1>1, <1>2

\* What an envelope on its way says is of its sender's log.
LEMMA EnvelopeFits ==
  ASSUME IInv, Tidy, NEW d \in Device, NEW p \in Device, NEW e \in Flight(p, d), e.type = "op"
  PROVE  /\ e.body \in OpBody /\ Fitting(p, d, e.body)
         /\ NeverCleared => e.body.kind # "clear"
<1>1. e \in Envelope
  BY FlightType DEF IInv
<1>2. e.seq \in DOMAIN log[p][d] /\ (e.body = log[p][d][e.seq] \/ e.body = NoOp)
  BY DEF IInv, FlightHonest, Honest
<1>3. Fitting(p, d, NoOp) /\ NoOp.kind # "clear"
  BY DEF Fitting, NoOp
<1>4. Fitting(p, d, log[p][d][e.seq])
  BY <1>2 DEF Tidy, LogFits
<1>5. NeverCleared => log[p][d][e.seq].kind # "clear"
  BY <1>2 DEF NeverCleared
<1>. QED
  BY <1>1, <1>2, <1>3, <1>4, <1>5 DEF Envelope

LEMMA HandleAgrees ==
  ASSUME IInv, Tidy, Agreeing,
         NEW d \in Device, NEW p \in Peers(d), NEW e \in Flight(p, d), NEW q, Handle(d, p, e, q)
  PROVE  Agreeing'
<1>0. p \in Device /\ TypeOK /\ NeverCleared
  BY DEF Peers, IInv, Agreeing
<1>1. UNCHANGED <<sent, log, expired>> /\ LogKept
  BY DEF Handle, HandleHello, HandleAck, HandleOp, LogKept
<1>2. CASE HandleHello(d, p, e, q) \/ HandleAck(d, p, e, q)
  <2>1. NoneBuried /\ UNCHANGED forgotten
    BY <1>2, Unburied DEF HandleHello, HandleAck
  <2>2. AllYoung'
    BY <1>1, <2>1 DEF Agreeing, AllYoung
  <2>. QED
    BY <1>1, <2>1, <2>2, QuietAgrees
<1>3. CASE HandleOp(d, p, e, q)
  <2>1. e.type = "op" /\ Apply(d, p, e.body, {})
    BY <1>3 DEF HandleOp
  <2>. QED
    BY <1>0, <1>1, <2>1, EnvelopeFits, ApplyAgrees
<1>. QED
  BY <1>2, <1>3 DEF Handle

LEMMA TornApplyAgrees ==
  ASSUME IInv, Tidy, Agreeing, "expire" \notin Faults,
         NEW d \in Device, NEW p \in Peers(d), NEW r \in Role, TornApply(d, p, r)
  PROVE  Agreeing'
<1>. DEFINE e == Head(chan[p][d][r])
<1>0. p \in Device /\ TypeOK /\ NeverCleared
  BY DEF Peers, IInv, Agreeing
<1>1. chan[p][d][r] # <<>> /\ chan[p][d][r] \in Seq(Envelope)
  BY <1>0 DEF TornApply, Deliverable, TypeOK
<1>2. e \in Flight(p, d)
  BY <1>1, LenProperties DEF Flight, ToSet
<1>3. e.type = "op" /\ UNCHANGED <<sent, log, expired>> /\ \E aged : Apply(d, p, e.body, aged)
  BY TornOp DEF TornApply
<1>. HIDE DEF e
<1>4. Apply(d, p, e.body, {})
  BY <1>3 DEF Apply, RemoveRows, Bury
<1>. QED
  BY <1>0, <1>2, <1>3, <1>4, EnvelopeFits, ApplyAgrees

\* Steps of links, restarts and other losses of what is not in a table.
LEMMA LinkAgrees ==
  ASSUME TypeOK, Agreeing, LogKept, "expire" \notin Faults, NEW d \in Device, NEW p \in Peers(d),
         \/ Dial(d, p) \/ Accept(d, p) \/ DialClosed(d, p) \/ AcceptClosed(d, p)
         \/ Break(d, p) \/ ForceDisconnect(d, p) \/ Crash(d)
  PROVE  Agreeing'
<1>0. p \in Device
  BY DEF Peers
<1>1. \A x, y \in Device : \A i \in DOMAIN log'[x][y] :
        \/ i \in DOMAIN log[x][y] /\ log'[x][y][i] = log[x][y][i]
        \/ log'[x][y][i] = ProfileOp
  <2>1. CASE Dial(d, p) \/ Accept(d, p)
    <3>1. PICK sinkSeq, envs : RegisterSink(d, p, sinkSeq, envs, chan)
      BY <2>1 DEF Dial, Accept
    <3>. QED
      BY <1>0, <3>1, OnlyProfile
  <2>2. CASE ~(Dial(d, p) \/ Accept(d, p))
    <3>1. UNCHANGED log
      BY <2>2 DEF DialClosed, AcceptClosed, Break, ForceDisconnect, Crash, durable
    <3>. QED
      BY <3>1
  <2>. QED
    BY <2>1, <2>2
<1>2. UNCHANGED <<sent, expired>>
  BY DEF Dial, Accept, DialClosed, AcceptClosed, Break, ForceDisconnect, Crash, durable
<1>3. NoneBuried /\ (UNCHANGED forgotten \/ \E aged : Bury(d, {}, aged))
  BY Unburied DEF Dial, Accept, DialClosed, AcceptClosed, Break, ForceDisconnect, Crash, durable
<1>4. UNCHANGED forgotten \/ Bury(d, {}, {})
  BY <1>3 DEF Bury
<1>5. {} \in SUBSET Msg
  OBVIOUS
<1>6. AllYoung'
  BY <1>2, <1>4, <1>5, YoungStays DEF Agreeing
<1>. QED
  BY <1>1, <1>2, <1>3, <1>6, QuietAgrees

Timely == {"torn_send", "torn_delete", "expire"} \cap Faults = {}

LEMMA AgreesStep ==
  ASSUME IInv, Tidy, Agreeing, [Next]_vars, "clear" \notin UserOps, Timely
  PROVE  Agreeing'
<1>0. TypeOK /\ TypeOK' /\ LogKept /\ InPlace /\ "expire" \notin Faults
  BY InvariantStep, TypeStep DEF IInv, Progress, Grows, Tidy, Timely
<1>1. CASE UNCHANGED vars
  <2>1. NoneBuried /\ UNCHANGED <<forgotten, expired, sent, log>>
    BY <1>1, Unburied DEF vars, durable
  <2>2. AllYoung'
    BY <2>1 DEF Agreeing, AllYoung
  <2>. QED
    BY <1>0, <2>1, <2>2, QuietAgrees
<1>2. ASSUME NEW d \in Device, NEW p \in Peers(d),
             UserStep(d, p) \/ LinkStep(d, p) \/ FaultStep(d, p)
      PROVE  Agreeing'
  <2>1. p \in Device
    BY DEF Peers
  <2>2. CASE UserStep(d, p)
    <3>1. ~ClearAll(d, p)
      BY DEF ClearAll, MayAct
    <3>. QED
      BY <1>0, <2>2, <3>1, SendTextAgrees, DeleteAgrees DEF UserStep
  <2>3. CASE MailDeliver(d, p)
    <3>1. PICK e \in mail[p][d] : Handle(d, p, e, chan)
      BY <2>3 DEF MailDeliver
    <3>2. e \in Flight(p, d)
      BY DEF Flight
    <3>. QED
      BY <3>1, <3>2, HandleAgrees
  <2>4. ASSUME NEW r \in Role, Receive(d, p, r)
        PROVE  Agreeing'
    <3>1. chan[p][d][r] # <<>> /\ chan[p][d][r] \in Seq(Envelope)
      BY <1>0, <2>1, <2>4 DEF Receive, Deliverable, TypeOK
    <3>2. Head(chan[p][d][r]) \in Flight(p, d)
      BY <3>1, LenProperties DEF Flight, ToSet
    <3>. QED
      BY <2>4, <3>2, HandleAgrees DEF Receive
  <2>5. CASE \/ Dial(d, p) \/ Accept(d, p) \/ DialClosed(d, p) \/ AcceptClosed(d, p)
             \/ Break(d, p) \/ ForceDisconnect(d, p) \/ Crash(d)
    BY <1>0, <2>5, LinkAgrees
  <2>6. ASSUME NEW r \in Role, TornApply(d, p, r)
        PROVE  Agreeing'
    BY <1>0, <2>6, TornApplyAgrees
  <2>7. /\ \A m \in Msg : ~TornSend(d, p, m)
        /\ \A ids \in SUBSET Msg : ~TornDelete(d, p, ids)
        /\ ~Expire(d, p)
    BY DEF TornSend, TornDelete, Expire, Fault, Timely
  <2>. QED
    BY <1>2, <2>2, <2>3, <2>4, <2>5, <2>6, <2>7 DEF LinkStep, FaultStep
<1>. QED
  BY <1>1, <1>2, StepCases

LEMMA AgreesInit == Init => Agreeing
BY DEF Init, PerPeer, Agreeing, DeletionsTold, NeverCleared, AllYoung, Deleted

LEMMA RowsAgree ==
  ASSUME IInv, SentLogged, Tidy, OwnKept, Agreeing, NEW d \in Device, NEW p \in Device,
         Settled(d, p), NEW m \in inbox[d][p]
  PROVE  m \in inbox[p][d]
<1>. SUFFICES ASSUME m \notin inbox[p][d]
              PROVE  FALSE
  OBVIOUS
<1>1. m \in Between(d, p) /\ m \notin tombs[d] /\ m \in Deleted(p)
  BY MissingDeleted
<1>2. m \notin Deleted(d) /\ expired[p][d] = {}
  BY <1>1 DEF Agreeing, AllYoung, Deleted
<1>3. PICK y \in Device : Told(p, y, m)
  BY <1>1 DEF Agreeing, DeletionsTold
<1>4. y = d
  <2>1. m \in Between(p, y) /\ m \in Between(p, d)
    BY <1>1, <1>3 DEF Told, Between
  <2>. QED
    BY <2>1, OnePlace DEF Tidy
<1>5. ~Untold(p, d, m)
  BY <1>2, <1>3, <1>4 DEF Told
<1>. QED
  BY <1>2, <1>5, ToldDeleted

\* Without a deletion that goes untold, a clear of the conversation or two days between a
\* deletion and its delivery or the next start, both ends show the same messages once each
\* has applied what the other logged: over every loss, repetition and reordering on links
\* and mailbox, and over restarts, also in the middle of applying an op.
THEOREM EndsEqual ==
  ASSUME "clear" \notin UserOps, Timely
  PROVE  Spec => [](\A d, p \in Device : Settled(d, p) => inbox[d][p] = inbox[p][d])
<1>. DEFINE Equal == \A d, p \in Device : Settled(d, p) => inbox[d][p] = inbox[p][d]
<1>1. IInv /\ Tidy /\ OwnKept /\ Agreeing => Equal
  <2>. SUFFICES ASSUME IInv, Tidy, OwnKept, Agreeing, NEW d \in Device, NEW p \in Device,
                       Settled(d, p)
                PROVE  inbox[d][p] = inbox[p][d]
    OBVIOUS
  <2>1. SentLogged /\ Settled(p, d)
    BY DEF IInv, Settled, Timely
  <2>2. inbox[d][p] \subseteq inbox[p][d]
    BY <2>1, RowsAgree
  <2>3. inbox[p][d] \subseteq inbox[d][p]
    BY <2>1, RowsAgree
  <2>. QED
    BY <2>2, <2>3
<1>2. Init => IInv /\ Tidy /\ OwnKept /\ Agreeing
  BY InvariantInit, TidyInit, OwnInit, AgreesInit
<1>3. IInv /\ Tidy /\ OwnKept /\ Agreeing /\ [Next]_vars
        => (IInv /\ Tidy /\ OwnKept /\ Agreeing)'
  BY InvariantStep, TidyStep, OwnStep, AgreesStep
<1>. HIDE DEF Equal
<1>4. Spec => []Equal
  BY <1>1, <1>2, <1>3, PTL DEF Spec
<1>. QED
  BY <1>4 DEF Equal

-----------------------------------------------------------------------------
(***************************************************************************)
(* What the sender is shown (SendStateTrue).                               *)
(*                                                                         *)
(* _pendingAcks holds what waits for its acknowledgement: every row in it  *)
(* is shown as the links stand (WaitingTrue), and a row that left it was   *)
(* ticked (TickedOrPending).  A report takes out every entry it covers     *)
(* (PendingAbove), and a message has one op, hence one entry (LoggedOnce). *)
(* Steps on other rows do not touch the marks (MarksKept): a row a step    *)
(* writes or removes is never one that stays.                              *)
(***************************************************************************)
WaitingTrue ==
  \A x, y \in Device : \A s \in pending[x][y] :
    s[2] \in inbox[x][y] => sendState[s[2]] = OnTheWay(x, y)

LoggedOnce ==
  \A x, y \in Device : \A i, j \in DOMAIN log[x][y] :
    log[x][y][i].kind = "msg" /\ log[x][y][i] = log[x][y][j] => i = j

PendingAbove == \A x, y \in Device : \A s \in pending[x][y] : s[1] > compacted[x][y]

TickedOrPending ==
  \A x, y \in Device : \A i \in DOMAIN log[x][y] : \A m \in inbox[x][y] :
    log[x][y][i] = MsgOp(m) => <<i, m>> \in pending[x][y] \/ sendState[m] = "ok"

\* what a device wrote and still shows was shown before, with the same mark
MarksKept ==
  \A x, y \in Device : \A m \in sent[x][y] :
    m \in inbox'[x][y] => m \in inbox[x][y] /\ sendState'[m] = sendState[m]

LEMMA PendingSent ==
  ASSUME Tidy, NEW x \in Device, NEW y \in Device, NEW s \in pending[x][y]
  PROVE  s[2] \in sent[x][y]
<1>1. s[1] \in DOMAIN log[x][y] /\ log[x][y][s[1]] = MsgOp(s[2])
  BY DEF Tidy, PendingFits
<1>2. Fitting(x, y, MsgOp(s[2]))
  BY <1>1 DEF Tidy, LogFits
<1>. QED
  BY <1>2 DEF Fitting, MsgOp

LEMMA LoggedSent ==
  ASSUME Tidy, NEW x \in Device, NEW y \in Device, NEW i \in DOMAIN log[x][y], NEW m,
         log[x][y][i] = MsgOp(m)
  PROVE  m \in sent[x][y]
<1>1. Fitting(x, y, MsgOp(m))
  BY DEF Tidy, LogFits
<1>. QED
  BY <1>1 DEF Fitting, MsgOp

\* a pair in _pendingAcks is its two parts
LEMMA PendingPair ==
  ASSUME TypeOK, NEW x \in Device, NEW y \in Device, NEW s \in pending[x][y]
  PROVE  s = <<s[1], s[2]>> /\ s[1] \in Nat /\ s[2] \in Msg
BY DEF TypeOK

LEMMA SameMarks ==
  ASSUME UNCHANGED <<inbox, sendState>> PROVE MarksKept
BY DEF MarksKept

LEMMA WroteMarks ==
  ASSUME TypeOK, NEW d \in Device, NEW p \in Device, NEW m \in Msg, NEW state,
         Fresh(m), WriteOwn(d, p, m, state)
  PROVE  MarksKept
<1>1. /\ \A x, y \in Device :
           inbox'[x][y] = IF x = d /\ y = p THEN inbox[x][y] \cup {m} ELSE inbox[x][y]
      /\ \A k \in Msg : k # m => sendState'[k] = sendState[k]
  BY DEF WriteOwn, TypeOK
<1>2. \A x, y \in Device : m \notin sent[x][y] /\ sent[x][y] \subseteq Msg
  BY DEF Fresh, TypeOK
<1>3. ASSUME NEW x \in Device, NEW y \in Device, NEW k \in sent[x][y], k \in inbox'[x][y]
      PROVE  k \in inbox[x][y] /\ sendState'[k] = sendState[k]
  <2>1. k # m /\ k \in Msg
    BY <1>2
  <2>. QED
    BY <1>1, <1>3, <2>1
<1>. QED
  BY <1>3 DEF MarksKept

LEMMA RemovedMarks ==
  ASSUME TypeOK, Tidy, NEW d \in Device, NEW p \in Device, NEW gone, NEW aged,
         RemoveRows(d, p, gone, aged)
  PROVE  MarksKept
<1>1. /\ \A x, y \in Device :
           inbox'[x][y] = IF x = d /\ y = p THEN inbox[x][y] \ gone ELSE inbox[x][y]
      /\ \A k \in Msg : k \notin gone \cap sent[d][p] => sendState'[k] = sendState[k]
  BY DEF RemoveRows, TypeOK
<1>. SUFFICES ASSUME NEW x \in Device, NEW y \in Device, NEW m \in sent[x][y], m \in inbox'[x][y]
              PROVE  m \in inbox[x][y] /\ sendState'[m] = sendState[m]
  BY DEF MarksKept
<1>2. m \in inbox[x][y] /\ m \in Msg
  <2>1. sent[x][y] \subseteq Msg
    BY DEF TypeOK
  <2>. QED
    BY <1>1, <2>1
<1>3. m \notin gone \cap sent[d][p]
  <2>1. m \in sent[d][p] => x = d /\ y = p
    BY DEF Tidy, WrittenOnce
  <2>. QED
    BY <1>1, <2>1
<1>. QED
  BY <1>1, <1>2, <1>3

LEMMA AppliedMarks ==
  ASSUME TypeOK, Tidy, NEW d \in Device, NEW p \in Peers(d), NEW body \in OpBody, NEW aged,
         Fitting(p, d, body), Apply(d, p, body, aged)
  PROVE  MarksKept
<1>0. p \in Device /\ p # d
  BY DEF Peers
<1>1. CASE body.kind = "msg"
  <2>1. /\ inbox' = [inbox EXCEPT ![d][p] = @ \cup (body.ids \ tombs[d])]
        /\ UNCHANGED sendState
    BY <1>1 DEF Apply
  <2>2. \A x, y \in Device :
          inbox'[x][y] \subseteq IF x = d /\ y = p THEN inbox[x][y] \cup body.ids ELSE inbox[x][y]
    BY <1>0, <2>1 DEF TypeOK
  <2>3. body.ids \cap sent[d][p] = {}
    <3>1. PICK m \in sent[p][d] : body = MsgOp(m)
      BY <1>1 DEF Fitting
    <3>2. m \notin sent[d][p]
      BY <1>0 DEF Tidy, WrittenOnce
    <3>. QED
      BY <3>1, <3>2 DEF MsgOp
  <2>. QED
    BY <2>1, <2>2, <2>3 DEF MarksKept
<1>2. CASE body.kind = "delete"
  <2>1. RemoveRows(d, p, body.ids, aged)
    BY <1>2 DEF Apply
  <2>. QED
    BY <1>0, <2>1, RemovedMarks
<1>3. CASE body.kind = "clear"
  <2>1. RemoveRows(d, p, inbox[d][p], aged)
    BY <1>3 DEF Apply
  <2>. QED
    BY <1>0, <2>1, RemovedMarks
<1>4. CASE body.kind \in {"profile", "noop"}
  <2>1. UNCHANGED <<inbox, sendState>>
    BY <1>4 DEF Apply
  <2>. QED
    BY <2>1, SameMarks
<1>. QED
  BY <1>1, <1>2, <1>3, <1>4 DEF Apply

\* An entry that stays is shown as before, where the links are as before.
LEMMA WaitingStays ==
  ASSUME Tidy, WaitingTrue, MarksKept,
         \A x, y \in Device : \A s \in pending'[x][y] :
           \/ s \in pending[x][y] /\ OnTheWay(x, y)' = OnTheWay(x, y)
           \/ sendState'[s[2]] = OnTheWay(x, y)'
  PROVE  WaitingTrue'
<1>. SUFFICES ASSUME NEW x \in Device, NEW y \in Device, NEW s \in pending'[x][y],
                     s[2] \in inbox'[x][y],
                     s \in pending[x][y] /\ OnTheWay(x, y)' = OnTheWay(x, y)
              PROVE  sendState'[s[2]] = OnTheWay(x, y)'
  BY DEF WaitingTrue
<1>1. s \in pending[x][y] /\ s[2] \in sent[x][y]
  BY PendingSent
<1>2. s[2] \in inbox[x][y] /\ sendState'[s[2]] = sendState[s[2]]
  BY <1>1 DEF MarksKept
<1>. QED
  BY <1>1, <1>2 DEF WaitingTrue

LEMMA OnceStays ==
  ASSUME LoggedOnce, \A x, y \in Device : \A i \in DOMAIN log'[x][y] :
                       \/ i \in DOMAIN log[x][y] /\ log'[x][y][i] = log[x][y][i]
                       \/ log'[x][y][i].kind # "msg"
  PROVE  LoggedOnce'
BY DEF LoggedOnce

\* What is shown while a link comes or goes: the marks follow the links.
LEMMA RetagTrue ==
  ASSUME TypeOK, Tidy, WaitingTrue, UNCHANGED <<inbox, pending>>,
         NEW d \in Device, NEW p \in Device, NEW from \in SendState, NEW to \in SendState,
         sendState' = Retag(d, p, from, to), from = OnTheWay(d, p), to = OnTheWay(d, p)',
         \A x, y \in Device : ~(x = d /\ y = p) => OnTheWay(x, y)' = OnTheWay(x, y)
  PROVE  WaitingTrue'
<1>. SUFFICES ASSUME NEW x \in Device, NEW y \in Device, NEW s \in pending[x][y],
                     s[2] \in inbox[x][y]
              PROVE  sendState'[s[2]] = OnTheWay(x, y)'
  BY DEF WaitingTrue
<1>0. s[2] \in sent[x][y] /\ s[2] \in Msg
  BY PendingSent, PendingPair
<1>1. sendState[s[2]] = OnTheWay(x, y)
  BY DEF WaitingTrue
<1>2. CASE x = d /\ y = p
  BY <1>0, <1>1, <1>2 DEF Retag
<1>3. CASE ~(x = d /\ y = p)
  <2>1. \A t \in pending[d][p] : t[2] # s[2]
    BY <1>0, <1>3, PendingSent DEF Tidy, WrittenOnce
  <2>2. sendState'[s[2]] = sendState[s[2]]
    BY <1>0, <2>1 DEF Retag
  <2>. QED
    BY <1>1, <1>3, <2>2
<1>. QED
  BY <1>2, <1>3

\* what a device wrote and still shows as delivered goes on being shown so
OkKept ==
  \A x, y \in Device : \A m \in sent[x][y] :
    m \in inbox'[x][y] => m \in inbox[x][y] /\ (sendState[m] = "ok" => sendState'[m] = "ok")

\* logs are appended to, and by no message
NoNewMessage ==
  \A x, y \in Device : \A i \in DOMAIN log'[x][y] :
    \/ i \in DOMAIN log[x][y] /\ log'[x][y][i] = log[x][y][i]
    \/ log'[x][y][i].kind # "msg"

LEMMA TicksKept ==
  ASSUME Tidy, TickedOrPending, OkKept, NoNewMessage, UNCHANGED pending
  PROVE  TickedOrPending'
<1>. SUFFICES ASSUME NEW x \in Device, NEW y \in Device, NEW i \in DOMAIN log'[x][y],
                     NEW m \in inbox'[x][y], log'[x][y][i] = MsgOp(m)
              PROVE  <<i, m>> \in pending[x][y] \/ sendState'[m] = "ok"
  BY DEF TickedOrPending, MsgOp
<1>1. i \in DOMAIN log[x][y] /\ log[x][y][i] = MsgOp(m)
  BY DEF NoNewMessage, MsgOp
<1>2. m \in sent[x][y]
  BY <1>1, LoggedSent
<1>3. m \in inbox[x][y] /\ (sendState[m] = "ok" => sendState'[m] = "ok")
  BY <1>2 DEF OkKept
<1>. QED
  BY <1>1, <1>3 DEF TickedOrPending

Shown == WaitingTrue /\ LoggedOnce /\ PendingAbove

\* A step that only removes what waits, and changes no link of what goes on waiting
LEMMA QuietShown ==
  ASSUME Tidy, Shown, MarksKept, NoNewMessage, UNCHANGED compacted,
         \A x, y \in Device : \A s \in pending'[x][y] :
           s \in pending[x][y] /\ OnTheWay(x, y)' = OnTheWay(x, y)
  PROVE  Shown'
<1>1. WaitingTrue'
  BY WaitingStays DEF Shown
<1>2. LoggedOnce'
  BY OnceStays DEF Shown, NoNewMessage
<1>3. PendingAbove'
  BY DEF Shown, PendingAbove
<1>. QED
  BY <1>1, <1>2, <1>3 DEF Shown

\* ... and one that changes nothing of either
LEMMA StillShown ==
  ASSUME Tidy, Shown, MarksKept, NoNewMessage, UNCHANGED <<compacted, pending, sinks>>
  PROVE  Shown' /\ (TickedOrPending => TickedOrPending')
<1>1. \A x, y : OnTheWay(x, y)' = OnTheWay(x, y)
  BY DEF OnTheWay, IsOnline
<1>2. OkKept
  BY DEF MarksKept, OkKept
<1>. QED
  BY <1>1, <1>2, QuietShown, TicksKept

LEMMA SendTextShown ==
  ASSUME IInv, TypeOK', Tidy, Shown,
         NEW d \in Device, NEW p \in Peers(d), NEW m \in Msg, SendText(d, p, m)
  PROVE  Shown' /\ (TickedOrPending => TickedOrPending')
<1>. DEFINE n == NextSeq(d, p)
<1>0. /\ p \in Device /\ TypeOK /\ MsgOp(m) \in OpBody
      /\ Fresh(m) /\ WriteOwn(d, p, m, OnTheWay(d, p)) /\ AppendAndPush(d, p, MsgOp(m))
      /\ UNCHANGED <<compacted, sinks>>
  BY Constructors DEF Peers, IInv, SendText
<1>1. \A x, y \in Device :
        pending'[x][y] = IF x = d /\ y = p THEN pending[x][y] \cup {<<n, m>>} ELSE pending[x][y]
  <2>1. pending' = [pending EXCEPT ![d][p] = @ \cup {<<NextSeq(d, p), m>>}]
    BY DEF SendText
  <2>2. pending \in [Device -> [Device -> SUBSET (Nat \X Msg)]]
    BY <1>0 DEF TypeOK
  <2>. QED
    BY <1>0, <2>1, <2>2
<1>2. sendState'[m] = OnTheWay(d, p)
  BY <1>0 DEF WriteOwn, TypeOK
<1>3. \A x, y : OnTheWay(x, y)' = OnTheWay(x, y)
  BY <1>0 DEF OnTheWay, IsOnline
<1>4. MarksKept
  BY <1>0, WroteMarks
<1>. HIDE DEF n
<1>11. ASSUME NEW x \in Device, NEW y \in Device, NEW s \in pending'[x][y]
       PROVE  s \in pending[x][y] \/ (x = d /\ y = p /\ s[1] = n /\ s[2] = m)
  <2>1. s \in pending[x][y] \/ (x = d /\ y = p /\ s = <<n, m>>)
    BY <1>1
  <2>2. s = <<n, m>> => s[1] = n /\ s[2] = m
    OBVIOUS
  <2>. QED
    BY <2>1, <2>2
<1>5. WaitingTrue'
  <2>1. ASSUME NEW x \in Device, NEW y \in Device, NEW s \in pending'[x][y]
        PROVE  s \in pending[x][y] \/ sendState'[s[2]] = OnTheWay(x, y)'
    <3>1. s \in pending[x][y] \/ (x = d /\ y = p /\ s[2] = m)
      BY <1>11
    <3>2. sendState'[m] = OnTheWay(d, p)'
      BY <1>2, <1>3
    <3>. QED
      BY <3>1, <3>2
  <2>. QED
    BY <1>3, <1>4, <2>1, WaitingStays DEF Shown
<1>6. \A x, y \in Device : \A i \in DOMAIN log'[x][y] :
        \/ i \in DOMAIN log[x][y] /\ log'[x][y][i] = log[x][y][i]
        \/ x = d /\ y = p /\ i = n /\ log'[x][y][i] = MsgOp(m)
  <2>1. log' = [log EXCEPT ![d][p] = Append(@, MsgOp(m))]
    BY <1>0 DEF AppendAndPush
  <2>2. log[d][p] \in Seq(OpBody) /\ log \in [Device -> [Device -> Seq(OpBody)]]
    BY <1>0 DEF TypeOK
  <2>3. \A x, y \in Device : log'[x][y] = IF x = d /\ y = p THEN Append(log[d][p], MsgOp(m)) ELSE log[x][y]
    BY <1>0, <2>1, <2>2
  <2>4. \A i \in DOMAIN Append(log[d][p], MsgOp(m)) :
          \/ i \in DOMAIN log[d][p] /\ Append(log[d][p], MsgOp(m))[i] = log[d][p][i]
          \/ i = n /\ Append(log[d][p], MsgOp(m))[i] = MsgOp(m)
    BY <1>0, <2>2, AppendProperties, LenProperties DEF NextSeq, n
  <2>. QED
    BY <2>3, <2>4
<1>7. \A x, y \in Device : \A i \in DOMAIN log[x][y] : log[x][y][i] # MsgOp(m)
  BY <1>0, LoggedSent DEF Fresh
<1>8. LoggedOnce'
  <2>. SUFFICES ASSUME NEW x \in Device, NEW y \in Device,
                       NEW i \in DOMAIN log'[x][y], NEW j \in DOMAIN log'[x][y],
                       log'[x][y][i].kind = "msg", log'[x][y][i] = log'[x][y][j]
                PROVE  i = j
    BY DEF LoggedOnce
  <2>. QED
    BY <1>6, <1>7 DEF Shown, LoggedOnce
<1>9. PendingAbove'
  <2>1. n > compacted[d][p]
    <3>1. /\ compacted[d][p] \in Nat /\ myApplied[p][d] \in Nat /\ compacted[d][p] <= myApplied[p][d]
          /\ Len(log[d][p]) \in Nat /\ DOMAIN log[d][p] = 1 .. Len(log[d][p])
      BY <1>0, LenProperties DEF IInv, CompactedBehind, TypeOK
    <3>2. 1 .. myApplied[p][d] \subseteq DOMAIN log[d][p]
      BY <1>0 DEF IInv, TakenDone, Taken
    <3>3. myApplied[p][d] <= Len(log[d][p])
      BY <3>1, <3>2
    <3>. QED
      BY <3>1, <3>3 DEF NextSeq, n
  <2>2. ASSUME NEW x \in Device, NEW y \in Device, NEW s \in pending'[x][y]
        PROVE  s[1] > compacted[x][y]
    <3>1. s \in pending[x][y] \/ (x = d /\ y = p /\ s[1] = n)
      BY <1>11
    <3>. QED
      BY <2>1, <3>1 DEF Shown, PendingAbove
  <2>. QED
    BY <1>0, <2>2 DEF PendingAbove
<1>10. ASSUME TickedOrPending PROVE TickedOrPending'
  <2>. SUFFICES ASSUME NEW x \in Device, NEW y \in Device, NEW i \in DOMAIN log'[x][y],
                       NEW k \in inbox'[x][y], log'[x][y][i] = MsgOp(k)
                PROVE  <<i, k>> \in pending'[x][y] \/ sendState'[k] = "ok"
    BY DEF TickedOrPending, MsgOp
  <2>1. CASE i \in DOMAIN log[x][y] /\ log'[x][y][i] = log[x][y][i]
    <3>1. k \in sent[x][y] /\ log[x][y][i] = MsgOp(k)
      BY <2>1, LoggedSent
    <3>2. k \in inbox[x][y] /\ sendState'[k] = sendState[k]
      BY <1>4, <3>1 DEF MarksKept
    <3>. QED
      BY <1>1, <1>10, <2>1, <3>1, <3>2 DEF TickedOrPending
  <2>2. CASE x = d /\ y = p /\ i = n /\ log'[x][y][i] = MsgOp(m)
    <3>1. k = m
      BY <2>2 DEF MsgOp
    <3>. QED
      BY <1>1, <2>2, <3>1
  <2>. QED
    BY <1>6, <2>1, <2>2
<1>. QED
  BY <1>5, <1>8, <1>9, <1>10 DEF Shown

\* A report ticks what it covers and nothing else.
LEMMA AckedShown ==
  ASSUME TypeOK, Tidy, Shown, NEW d \in Device, NEW p \in Peers(d), NEW cursor \in Nat,
         Acked(d, p, cursor), UNCHANGED <<inbox, log, sinks>>
  PROVE  Shown' /\ (TickedOrPending => TickedOrPending')
<1>. DEFINE done == {s \in pending[d][p] : s[1] <= cursor}
            ids  == {s[2] : s \in done}
<1>0. p \in Device /\ compacted[d][p] \in Nat
  BY DEF Peers, TypeOK
<1>1. \A x, y \in Device :
        /\ pending'[x][y] = IF x = d /\ y = p THEN pending[x][y] \ done ELSE pending[x][y]
        /\ compacted'[x][y] = IF x = d /\ y = p /\ cursor > compacted[x][y] THEN cursor
                              ELSE compacted[x][y]
  <2>1. /\ pending \in [Device -> [Device -> SUBSET (Nat \X Msg)]]
        /\ compacted \in [Device -> [Device -> Nat]]
    BY DEF TypeOK
  <2>2. /\ pending' = [pending EXCEPT ![d][p] = @ \ done]
        /\ compacted' = [compacted EXCEPT ![d][p] = IF cursor > @ THEN cursor ELSE @]
    BY DEF Acked, AckPending
  <2>. HIDE DEF done, ids
  <2>. QED
    BY <1>0, <2>1, <2>2
<1>2. \A k \in Msg : sendState'[k] = IF k \in ids \cap inbox[d][p] THEN "ok" ELSE sendState[k]
  BY DEF Acked, AckPending
<1>3. \A x, y : OnTheWay(x, y)' = OnTheWay(x, y)
  BY DEF OnTheWay, IsOnline
<1>4. ASSUME NEW x \in Device, NEW y \in Device, NEW s \in pending'[x][y]
      PROVE  s \in pending[x][y] /\ s[2] \notin ids
  <2>1. s \in pending[x][y]
    BY <1>1
  <2>2. ASSUME NEW t \in done, t[2] = s[2]
        PROVE  FALSE
    <3>1. t \in pending[d][p]
      OBVIOUS
    <3>2. s[2] \in sent[x][y] /\ s[2] \in sent[d][p]
      BY <1>0, <2>1, <2>2, <3>1, PendingSent
    <3>3. x = d /\ y = p
      BY <1>0, <3>2 DEF Tidy, WrittenOnce
    <3>4. /\ s[1] \in DOMAIN log[d][p] /\ log[d][p][s[1]] = MsgOp(s[2])
          /\ t[1] \in DOMAIN log[d][p] /\ log[d][p][t[1]] = MsgOp(t[2])
      BY <1>0, <2>1, <3>1, <3>3 DEF Tidy, PendingFits
    <3>5. s[1] = t[1]
      BY <1>0, <2>2, <3>4 DEF Shown, LoggedOnce, MsgOp
    <3>6. s = <<s[1], s[2]>> /\ t = <<t[1], t[2]>>
      BY <1>0, <2>1, <3>1, PendingPair
    <3>7. s = t
      BY <2>2, <3>5, <3>6
    <3>. QED
      BY <1>0, <1>1, <3>3, <3>7
  <2>. QED
    BY <2>1, <2>2
<1>. HIDE DEF done, ids
<1>5. WaitingTrue'
  <2>. SUFFICES ASSUME NEW x \in Device, NEW y \in Device, NEW s \in pending'[x][y],
                       s[2] \in inbox[x][y]
                PROVE  sendState'[s[2]] = OnTheWay(x, y)'
    BY DEF WaitingTrue
  <2>1. s \in pending[x][y] /\ s[2] \notin ids
    BY <1>4
  <2>2. s[2] \in Msg
    BY <2>1, PendingPair
  <2>. QED
    BY <1>2, <1>3, <2>1, <2>2 DEF Shown, WaitingTrue
<1>6. LoggedOnce'
  BY DEF Shown, LoggedOnce
<1>7. PendingAbove'
  <2>. SUFFICES ASSUME NEW x \in Device, NEW y \in Device, NEW s \in pending'[x][y]
                PROVE  s[1] > compacted'[x][y]
    BY DEF PendingAbove
  <2>1. s \in pending[x][y] /\ s[1] > compacted[x][y] /\ s[1] \in Nat
    BY <1>4, PendingPair DEF Shown, PendingAbove
  <2>2. CASE x = d /\ y = p
    <3>1. ~(s[1] <= cursor)
      BY <1>0, <1>1, <2>1, <2>2 DEF done
    <3>2. compacted'[x][y] = cursor \/ compacted'[x][y] = compacted[x][y]
      BY <1>1
    <3>3. s[1] > cursor
      BY <2>1, <3>1
    <3>. QED
      BY <2>1, <3>2, <3>3
  <2>3. CASE ~(x = d /\ y = p)
    BY <1>1, <2>1, <2>3
  <2>. QED
    BY <2>2, <2>3
<1>8. ASSUME TickedOrPending PROVE TickedOrPending'
  <2>. SUFFICES ASSUME NEW x \in Device, NEW y \in Device, NEW i \in DOMAIN log[x][y],
                       NEW m \in inbox[x][y], log[x][y][i] = MsgOp(m)
                PROVE  <<i, m>> \in pending'[x][y] \/ sendState'[m] = "ok"
    BY DEF TickedOrPending, MsgOp
  <2>0. m \in Msg
    BY DEF TypeOK
  <2>1. CASE sendState[m] = "ok"
    BY <1>2, <2>0, <2>1
  <2>2. CASE <<i, m>> \in pending[x][y]
    <3>1. CASE <<i, m>> \in done /\ x = d /\ y = p
      <4>1. m \in ids
        BY <3>1 DEF ids
      <4>. QED
        BY <1>2, <2>0, <3>1, <4>1
    <3>2. CASE ~(<<i, m>> \in done /\ x = d /\ y = p)
      BY <1>1, <2>2, <3>2
    <3>. QED
      BY <3>1, <3>2
  <2>. QED
    BY <1>8, <2>1, <2>2 DEF TickedOrPending
<1>. QED
  BY <1>5, <1>6, <1>7, <1>8 DEF Shown

LEMMA HandleShown ==
  ASSUME IInv, Tidy, Shown,
         NEW d \in Device, NEW p \in Peers(d), NEW e \in Flight(p, d), NEW q, Handle(d, p, e, q)
  PROVE  Shown' /\ (TickedOrPending => TickedOrPending')
<1>0. p \in Device /\ TypeOK /\ e \in Envelope
  BY FlightType DEF Peers, IInv
<1>1. CASE HandleHello(d, p, e, q) \/ HandleAck(d, p, e, q)
  <2>1. Acked(d, p, e.seq) /\ UNCHANGED <<inbox, log, sinks>> /\ e.seq \in Nat
    BY <1>0, <1>1 DEF HandleHello, HandleAck, Envelope
  <2>. QED
    BY <1>0, <2>1, AckedShown
<1>2. CASE HandleOp(d, p, e, q)
  <2>1. /\ e.type = "op" /\ Apply(d, p, e.body, {})
        /\ UNCHANGED <<log, compacted, pending, sinks>>
    BY <1>2 DEF HandleOp
  <2>2. Fitting(p, d, e.body) /\ e.body \in OpBody
    BY <1>0, <2>1, EnvelopeFits
  <2>3. MarksKept
    BY <1>0, <2>1, <2>2, AppliedMarks
  <2>4. NoNewMessage
    BY <2>1 DEF NoNewMessage
  <2>. QED
    BY <2>1, <2>3, <2>4, StillShown
<1>. QED
  BY <1>1, <1>2 DEF Handle

\* Taking out one of several sinks leaves the device online, taking out the only one does not.
LEMMA OneSinkLess ==
  ASSUME NEW s \in Seq(SinkEnd), NEW i \in DOMAIN s
  PROVE  RemoveAt(s, i) = <<>> <=> Len(s) = 1
<1>1. Len(s) \in Nat /\ i \in 1 .. Len(s) /\ \A j \in 1 .. Len(s) : s[j] \in SinkEnd
  BY LenProperties, ElementOfSeq
<1>2. SubSeq(s, 1, i - 1) \in Seq(SinkEnd) /\ Len(SubSeq(s, 1, i - 1)) = i - 1
  <2>1. \A j \in 1 .. i - 1 : s[j] \in SinkEnd
    BY <1>1
  <2>. QED
    BY <1>1, <2>1, SubSeqProperties
<1>3. SubSeq(s, i + 1, Len(s)) \in Seq(SinkEnd) /\ Len(SubSeq(s, i + 1, Len(s))) = Len(s) - i
  <2>1. \A j \in i + 1 .. Len(s) : s[j] \in SinkEnd
    BY <1>1
  <2>. QED
    BY <1>1, <2>1, SubSeqProperties
<1>4. RemoveAt(s, i) \in Seq(SinkEnd) /\ Len(RemoveAt(s, i)) = Len(s) - 1
  <2>1. RemoveAt(s, i) = SubSeq(s, 1, i - 1) \o SubSeq(s, i + 1, Len(s))
    BY DEF RemoveAt
  <2>2. /\ RemoveAt(s, i) \in Seq(SinkEnd)
        /\ Len(RemoveAt(s, i)) = Len(SubSeq(s, 1, i - 1)) + Len(SubSeq(s, i + 1, Len(s)))
    BY <1>2, <1>3, <2>1, ConcatProperties
  <2>3. Len(RemoveAt(s, i)) = (i - 1) + (Len(s) - i)
    BY <1>2, <1>3, <2>2
  <2>4. (i - 1) + (Len(s) - i) = Len(s) - 1
    <3>1. Len(s) \in Int /\ i \in Int
      BY <1>1
    <3>. QED
      BY <3>1
  <2>. QED
    BY <2>2, <2>3, <2>4
<1>. QED
  BY <1>1, <1>4, EmptySeq

\* Marks that follow a link keep what is delivered.
LEMMA RetagKeepsOk ==
  ASSUME NEW d, NEW p, NEW from, NEW to, from # "ok", to # "ok", TypeOK,
         sendState' = Retag(d, p, from, to), UNCHANGED inbox
  PROVE  OkKept
<1>1. \A m \in Msg : sendState'[m] = "ok" <=> sendState[m] = "ok"
  BY RetagMarks
<1>2. \A x, y \in Device : sent[x][y] \subseteq Msg
  BY DEF TypeOK
<1>. QED
  BY <1>1, <1>2 DEF OkKept

\* A link of d to p comes or goes, and the marks of d follow.
LEMMA LinkShown ==
  ASSUME TypeOK, Tidy, Shown, NoNewMessage, UNCHANGED <<inbox, compacted, pending>>,
         NEW d \in Device, NEW p \in Device, NEW after,
         sinks' = [sinks EXCEPT ![d][p] = after],
         \/ sendState' = sendState /\ (sinks[d][p] = <<>> <=> after = <<>>)
         \/ sendState' = Retag(d, p, "queued", "sending") /\ sinks[d][p] = <<>> /\ after # <<>>
         \/ sendState' = Retag(d, p, "sending", "queued") /\ sinks[d][p] # <<>> /\ after = <<>>
  PROVE  Shown' /\ (TickedOrPending => TickedOrPending')
<1>0. {"queued", "sending"} \subseteq SendState
  BY DEF SendState
<1>1. \A x, y \in Device : sinks'[x][y] = IF x = d /\ y = p THEN after ELSE sinks[x][y]
  BY DEF TypeOK
<1>2. LoggedOnce' /\ PendingAbove'
  BY OnceStays DEF Shown, NoNewMessage, PendingAbove
<1>3. \A x, y \in Device : ~(x = d /\ y = p) => OnTheWay(x, y)' = OnTheWay(x, y)
  BY <1>1 DEF OnTheWay, IsOnline
<1>4. CASE sendState' = sendState /\ (sinks[d][p] = <<>> <=> after = <<>>)
  <2>1. \A x, y \in Device : OnTheWay(x, y)' = OnTheWay(x, y)
    BY <1>1, <1>4 DEF OnTheWay, IsOnline
  <2>2. MarksKept
    BY <1>4, SameMarks
  <2>3. OkKept
    BY <2>2 DEF MarksKept, OkKept
  <2>. QED
    BY <2>1, <2>2, <2>3, QuietShown, TicksKept
<1>5. CASE sendState' = Retag(d, p, "queued", "sending") /\ sinks[d][p] = <<>> /\ after # <<>>
  <2>1. OnTheWay(d, p) = "queued" /\ OnTheWay(d, p)' = "sending"
    BY <1>1, <1>5 DEF OnTheWay, IsOnline
  <2>2. WaitingTrue'
    BY <1>0, <1>3, <1>5, <2>1, RetagTrue DEF Shown
  <2>3. OkKept
    BY <1>5, RetagKeepsOk
  <2>. QED
    BY <1>2, <2>2, <2>3, TicksKept DEF Shown
<1>6. CASE sendState' = Retag(d, p, "sending", "queued") /\ sinks[d][p] # <<>> /\ after = <<>>
  <2>1. OnTheWay(d, p) = "sending" /\ OnTheWay(d, p)' = "queued"
    BY <1>1, <1>6 DEF OnTheWay, IsOnline
  <2>2. WaitingTrue'
    BY <1>0, <1>3, <1>6, <2>1, RetagTrue DEF Shown
  <2>3. OkKept
    BY <1>6, RetagKeepsOk
  <2>. QED
    BY <1>2, <2>2, <2>3, TicksKept DEF Shown
<1>. QED
  BY <1>4, <1>5, <1>6

LEMMA RegisterShown ==
  ASSUME TypeOK, Tidy, Shown, NEW d \in Device, NEW p \in Device, Dial(d, p) \/ Accept(d, p)
  PROVE  Shown' /\ (TickedOrPending => TickedOrPending')
<1>0. UNCHANGED <<inbox, compacted, pending>>
  BY DEF Dial, Accept
<1>1. PICK sinkSeq, envs : sinkSeq # <<>> /\ RegisterSink(d, p, sinkSeq, envs, chan)
  <2>1. sinks[d][p] \in Seq(SinkEnd) /\ "dial" \in SinkEnd /\ "accept" \in SinkEnd
    BY DEF TypeOK, SinkEnd
  <2>2. CASE Dial(d, p)
    <3>1. Append(sinks[d][p], "dial") # <<>>
      BY <2>1, NewestSink
    <3>. QED
      BY <2>2, <3>1 DEF Dial
  <2>3. CASE Accept(d, p)
    <3>1. Append(Demote(sinks[d][p]), "accept") # <<>>
      BY <2>1, DemoteType, NewestSink
    <3>. QED
      BY <2>3, <3>1 DEF Accept
  <2>. QED
    BY <2>2, <2>3
<1>2. NoNewMessage
  BY <1>1, OnlyProfile DEF NoNewMessage, ProfileOp
<1>3. /\ sinks' = [sinks EXCEPT ![d][p] = sinkSeq]
      /\ \/ sendState' = sendState /\ sinks[d][p] # <<>>
         \/ sendState' = Retag(d, p, "queued", "sending") /\ sinks[d][p] = <<>>
  BY <1>1 DEF RegisterSink, IsOnline
<1>. QED
  BY <1>0, <1>1, <1>2, <1>3, LinkShown

LEMMA ClosedShown ==
  ASSUME TypeOK, Tidy, Shown, NEW d \in Device, NEW p \in Device,
         DialClosed(d, p) \/ AcceptClosed(d, p) \/ ForceDisconnect(d, p)
  PROVE  Shown' /\ (TickedOrPending => TickedOrPending')
<1>0. UNCHANGED <<inbox, log, compacted, pending>>
  BY DEF DialClosed, AcceptClosed, ForceDisconnect
<1>1. NoNewMessage
  BY <1>0 DEF NoNewMessage
<1>2. CASE DialClosed(d, p) \/ AcceptClosed(d, p)
  <2>1. PICK i \in DOMAIN sinks[d][p] : UnregisterSink(d, p, i)
    BY <1>2 DEF DialClosed, AcceptClosed
  <2>2. sinks[d][p] \in Seq(SinkEnd)
    BY DEF TypeOK
  <2>3. RemoveAt(sinks[d][p], i) = <<>> <=> Len(sinks[d][p]) = 1
    BY <2>2, OneSinkLess
  <2>4. sinks[d][p] # <<>>
    BY <2>2, LenProperties, EmptySeq
  <2>5. /\ sinks' = [sinks EXCEPT ![d][p] = RemoveAt(@, i)]
        /\ \/ sendState' = sendState /\ Len(sinks[d][p]) # 1
           \/ sendState' = Retag(d, p, "sending", "queued") /\ Len(sinks[d][p]) = 1
    BY <2>1 DEF UnregisterSink
  <2>6. sinks' = [sinks EXCEPT ![d][p] = RemoveAt(sinks[d][p], i)]
    BY <2>5
  <2>. QED
    BY <1>0, <1>1, <2>3, <2>4, <2>5, <2>6, LinkShown
<1>3. CASE ForceDisconnect(d, p)
  <2>1. /\ sinks' = [sinks EXCEPT ![d][p] = <<>>] /\ sinks[d][p] # <<>>
        /\ sendState' = Retag(d, p, "sending", "queued")
    BY <1>3 DEF ForceDisconnect, IsOnline
  <2>. QED
    BY <1>0, <1>1, <2>1, LinkShown
<1>. QED
  BY <1>2, <1>3

\* Over a restart nothing is waited for on the device that starts anew.
LEMMA RestartShown ==
  ASSUME TypeOK, Tidy, Shown, MarksKept, UNCHANGED <<log, compacted>>,
         NEW d \in Device, Restart(d)
  PROVE  Shown'
<1>1. /\ \A x, y \in Device : pending'[x][y] = IF x = d THEN {} ELSE pending[x][y]
      /\ \A x, y \in Device : x # d => sinks'[x][y] = sinks[x][y]
  BY DEF Restart, TypeOK
<1>2. \A x, y \in Device : \A s \in pending'[x][y] :
        s \in pending[x][y] /\ OnTheWay(x, y)' = OnTheWay(x, y)
  BY <1>1 DEF OnTheWay, IsOnline
<1>3. NoNewMessage
  BY DEF NoNewMessage
<1>. QED
  BY <1>2, <1>3, QuietShown

LEMMA TornShown ==
  ASSUME IInv, Tidy, Shown, NEW d \in Device, NEW p \in Peers(d),
         \/ Crash(d)
         \/ \E m \in Msg : TornSend(d, p, m)
         \/ \E r \in Role : TornApply(d, p, r)
         \/ \E ids \in SUBSET Msg : TornDelete(d, p, ids)
  PROVE  Shown'
<1>0. TypeOK /\ p \in Device
  BY DEF IInv, Peers
<1>1. UNCHANGED <<log, compacted>> /\ Restart(d)
  BY DEF Crash, TornSend, TornApply, TornDelete
<1>2. MarksKept
  <2>1. CASE Crash(d)
    BY <2>1, SameMarks DEF Crash
  <2>2. ASSUME NEW m \in Msg, TornSend(d, p, m)
        PROVE  MarksKept
    BY <1>0, <2>2, WroteMarks DEF TornSend
  <2>3. ASSUME NEW r \in Role, TornApply(d, p, r)
        PROVE  MarksKept
    <3>. DEFINE e == Head(chan[p][d][r])
    <3>1. chan[p][d][r] # <<>> /\ chan[p][d][r] \in Seq(Envelope)
      BY <1>0, <2>3 DEF TornApply, Deliverable, TypeOK
    <3>2. e \in Flight(p, d)
      BY <3>1, LenProperties DEF Flight, ToSet
    <3>3. e.type = "op" /\ \E aged : Apply(d, p, e.body, aged)
      BY <2>3, TornOp
    <3>. HIDE DEF e
    <3>4. Fitting(p, d, e.body) /\ e.body \in OpBody
      BY <1>0, <3>2, <3>3, EnvelopeFits
    <3>. QED
      BY <1>0, <3>3, <3>4, AppliedMarks
  <2>4. ASSUME NEW ids \in SUBSET Msg, TornDelete(d, p, ids)
        PROVE  MarksKept
    BY <1>0, <2>4, RemovedMarks DEF TornDelete
  <2>. QED
    BY <2>1, <2>2, <2>3, <2>4
<1>. QED
  BY <1>0, <1>1, <1>2, RestartShown

LEMMA ShownStep ==
  ASSUME IInv, Tidy, Shown, [Next]_vars
  PROVE  /\ Shown'
         /\ {"crash", "torn_send", "torn_apply", "torn_delete"} \cap Faults = {}
              /\ TickedOrPending => TickedOrPending'
<1>. DEFINE Kept == Shown' /\ (TickedOrPending => TickedOrPending')
            Undisturbed == {"crash", "torn_send", "torn_apply", "torn_delete"} \cap Faults = {}
<1>0. TypeOK /\ TypeOK'
  BY TypeStep DEF IInv
<1>1. CASE UNCHANGED vars
  <2>1. UNCHANGED <<inbox, sendState, log, compacted, pending, sinks>>
    BY <1>1 DEF vars, durable, volatile
  <2>2. MarksKept /\ NoNewMessage
    BY <2>1, SameMarks DEF NoNewMessage
  <2>. QED
    BY <2>1, <2>2, StillShown
<1>2. ASSUME NEW d \in Device, NEW p \in Peers(d),
             UserStep(d, p) \/ LinkStep(d, p) \/ FaultStep(d, p)
      PROVE  Kept \/ (Shown' /\ ~Undisturbed)
  <2>1. p \in Device
    BY DEF Peers
  <2>2. ASSUME NEW m \in Msg, SendText(d, p, m)
        PROVE  Kept
    BY <1>0, <2>2, SendTextShown
  <2>3. ASSUME NEW ids \in SUBSET Msg, DeleteMessages(d, p, ids) \/ ClearAll(d, p)
        PROVE  Kept
    <3>1. /\ \E gone : RemoveRows(d, p, gone, {})
          /\ UNCHANGED <<compacted, pending, sinks>>
      BY <2>3 DEF DeleteMessages, ClearAll
    <3>2. MarksKept
      BY <1>0, <2>1, <3>1, RemovedMarks
    <3>3. PICK body \in {DeleteOp(ids), ClearOp} : AppendAndPush(d, p, body)
      BY <2>3 DEF DeleteMessages, ClearAll
    <3>4. body \in OpBody /\ body.kind # "msg" /\ log' = [log EXCEPT ![d][p] = Append(@, body)]
      <4>1. DeleteOp(ids) \in OpBody /\ ClearOp \in OpBody
        BY Constructors
      <4>2. DeleteOp(ids).kind # "msg" /\ ClearOp.kind # "msg"
        BY DEF DeleteOp, ClearOp
      <4>. QED
        BY <3>3, <4>1, <4>2 DEF AppendAndPush
    <3>5. NoNewMessage
      BY <1>0, <2>1, <3>4, OnlyAppended DEF NoNewMessage
    <3>. QED
      BY <3>1, <3>2, <3>5, StillShown
  <2>4. CASE MailDeliver(d, p)
    <3>1. PICK e \in mail[p][d] : Handle(d, p, e, chan)
      BY <2>4 DEF MailDeliver
    <3>2. e \in Flight(p, d)
      BY DEF Flight
    <3>. QED
      BY <3>1, <3>2, HandleShown
  <2>5. ASSUME NEW r \in Role, Receive(d, p, r)
        PROVE  Kept
    <3>1. chan[p][d][r] # <<>> /\ chan[p][d][r] \in Seq(Envelope)
      BY <1>0, <2>1, <2>5 DEF Receive, Deliverable, TypeOK
    <3>2. Head(chan[p][d][r]) \in Flight(p, d)
      BY <3>1, LenProperties DEF Flight, ToSet
    <3>. QED
      BY <2>5, <3>2, HandleShown DEF Receive
  <2>6. CASE Dial(d, p) \/ Accept(d, p)
    BY <1>0, <2>1, <2>6, RegisterShown
  <2>7. CASE DialClosed(d, p) \/ AcceptClosed(d, p) \/ ForceDisconnect(d, p)
    BY <1>0, <2>1, <2>7, ClosedShown
  <2>8. CASE Break(d, p) \/ Expire(d, p)
    <3>1. UNCHANGED <<inbox, sendState, log, compacted, pending, sinks>>
      BY <2>8 DEF Break, Expire, durable, volatile
    <3>2. MarksKept /\ NoNewMessage
      BY <3>1, SameMarks DEF NoNewMessage
    <3>. QED
      BY <3>1, <3>2, StillShown
  <2>9. CASE \/ Crash(d)
             \/ \E m \in Msg : TornSend(d, p, m)
             \/ \E r \in Role : TornApply(d, p, r)
             \/ \E ids \in SUBSET Msg : TornDelete(d, p, ids)
    <3>1. Shown'
      BY <2>9, TornShown
    <3>2. ~Undisturbed
      BY <2>9 DEF Crash, TornSend, TornApply, TornDelete, Fault
    <3>. QED
      BY <3>1, <3>2
  <2>. HIDE DEF Kept, Undisturbed
  <2>. QED
    BY <1>2, <2>2, <2>3, <2>4, <2>5, <2>6, <2>7, <2>8, <2>9 DEF UserStep, LinkStep, FaultStep
<1>3. Kept \/ (Shown' /\ ~Undisturbed)
  BY <1>1, <1>2, StepCases
<1>. QED
  BY <1>3

LEMMA ShownInit == Init => Shown /\ TickedOrPending
BY DEF Init, PerPeer, Shown, WaitingTrue, LoggedOnce, PendingAbove, TickedOrPending

\* A message that waits for its acknowledgement is shown as the links stand, `sending' or
\* waiting: whatever link is dialled, accepted, replaced or closed, in any order, and over
\* any fault, restarts included.  (_markPendingSending, _markPendingQueued)
THEOREM WaitingShown == Spec => []WaitingTrue
<1>1. Init => IInv /\ Tidy /\ Shown
  BY InvariantInit, TidyInit, ShownInit
<1>2. IInv /\ Tidy /\ Shown /\ [Next]_vars => (IInv /\ Tidy /\ Shown)'
  BY InvariantStep, TidyStep, ShownStep
<1>3. Shown => WaitingTrue
  BY DEF Shown
<1>. QED
  BY <1>1, <1>2, <1>3, PTL DEF Spec

\* ... and one the peer has acknowledged is ticked, as long as the sender's process does not
\* end: _pendingAcks is lost with it, and no later report ticks what was in it.
THEOREM MarksTrue ==
  ASSUME {"crash", "torn_send", "torn_apply", "torn_delete"} \cap Faults = {}
  PROVE  Spec => []SendStateTrue
<1>1. IInv /\ Tidy /\ Shown /\ TickedOrPending => SendStateTrue
  <2>. SUFFICES ASSUME IInv, Shown, TickedOrPending, NEW d \in Device, NEW p \in Device
                PROVE  /\ \A s \in pending[d][p] :
                            s[2] \in inbox[d][p] => sendState[s[2]] = OnTheWay(d, p)
                       /\ \A i \in 1 .. compacted[d][p] : \A m \in inbox[d][p] :
                            log[d][p][i] = MsgOp(m) => sendState[m] = "ok"
    BY DEF SendStateTrue, Peers
  <2>1. \A s \in pending[d][p] : s[2] \in inbox[d][p] => sendState[s[2]] = OnTheWay(d, p)
    BY DEF Shown, WaitingTrue
  <2>2. ASSUME NEW i \in 1 .. compacted[d][p], NEW m \in inbox[d][p], log[d][p][i] = MsgOp(m)
        PROVE  sendState[m] = "ok"
    <3>1. compacted[d][p] \in Nat /\ myApplied[p][d] \in Nat
          /\ compacted[d][p] <= myApplied[p][d]
      BY DEF IInv, TypeOK, CompactedBehind
    <3>2. i \in Taken(p, d)
      BY <3>1 DEF Taken
    <3>3. i \in DOMAIN log[d][p]
      BY <3>2 DEF IInv, TakenDone
    <3>4. <<i, m>> \notin pending[d][p]
      <4>1. <<i, m>>[1] = i
        OBVIOUS
      <4>2. <<i, m>> \in pending[d][p] => i > compacted[d][p]
        BY <4>1 DEF Shown, PendingAbove
      <4>. QED
        BY <3>1, <4>2
    <3>. QED
      BY <2>2, <3>3, <3>4 DEF TickedOrPending
  <2>. QED
    BY <2>1, <2>2
<1>2. Init => IInv /\ Tidy /\ Shown /\ TickedOrPending
  BY InvariantInit, TidyInit, ShownInit
<1>3. IInv /\ Tidy /\ Shown /\ TickedOrPending /\ [Next]_vars
        => (IInv /\ Tidy /\ Shown /\ TickedOrPending)'
  BY InvariantStep, TidyStep, ShownStep
<1>. QED
  BY <1>1, <1>2, <1>3, PTL DEF Spec
=============================================================================
