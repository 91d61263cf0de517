------------------------------- MODULE OpSync -------------------------------
(***************************************************************************)
(* The 1:1 synchronisation protocol of core/lib/src/sync/sync_engine.dart  *)
(* over the tables of core/lib/src/store/store.dart, between devices that  *)
(* are paired with each other.                                             *)
(*                                                                         *)
(* Every local change is written to the message table and appended to a    *)
(* per-peer op log (ops, peers.next_op_seq); it is then pushed on the      *)
(* newest link to the peer and, when a rendezvous server is attached, also *)
(* copied into the peer's mailbox on that server.  The receiver applies    *)
(* ops in any order, moves its cursor (peers.my_applied_seq) over the      *)
(* contiguous prefix only, and acknowledges the cursor; the sender deletes *)
(* the acknowledged prefix of its log.  A Hello carries the cursor and     *)
(* makes the other side replay everything above it.                        *)
(*                                                                         *)
(* A link is one gRPC stream: `dial' is the end of the device that opened  *)
(* it (_OutgoingSession), `accept' the end of the other (channel()).  Both *)
(* devices may hold a link to each other at the same time.                 *)
(*                                                                         *)
(* No device is marked as one's own here (PeerRow.isSelf): the branches of *)
(* _commitMessage, _doDelete, _applyChat and _applyDelete that mirror to   *)
(* own devices are not taken.  Groups, receipts and reactions are left out.*)
(***************************************************************************)
EXTENDS Integers, FiniteSets, SequencesExt

CONSTANTS
  Device,     \* the paired devices
  Msg,        \* message ids (UUIDs: never used twice)
  CanDial,    \* <<d, p>>: d knows an address of p that it can reach
  Users,      \* the devices with a user who acts
  UserOps,    \* the operations users perform: "msg", "delete", "clear"
  Faults,     \* what may go wrong: "break", "force", "crash", "torn_send",
              \* "torn_apply", "torn_delete", "expire" (two days pass)
  HasProfile, \* profileProvider yields a profile
  Relay,      \* a rendezvous server is attached
  MaxOps,     \* bound: users append no op to a log this long
  MaxFaults,  \* bound: how many faults happen
  MaxQueue    \* bound: mailbox copies arrive only while the links hold fewer envelopes

ASSUME ConstantsAssumption ==
  /\ CanDial \subseteq Device \X Device /\ Users \subseteq Device
  /\ UserOps \subseteq {"msg", "delete", "clear"}
  /\ Faults \subseteq {"break", "force", "crash", "torn_send", "torn_apply", "torn_delete",
                     "expire"}
  /\ HasProfile \in BOOLEAN /\ Relay \in BOOLEAN
  /\ MaxOps \in Nat /\ MaxFaults \in Nat /\ MaxQueue \in Nat

VARIABLES
  \* --- durable: SQLite ---
  inbox,      \* inbox[d][p]: d's rows of table messages in the conversation with p
  tombs,      \* tombs[d]: table deleted_msgs
  forgotten,  \* history: forgotten[d] was in deleted_msgs of d and was purged at a start
  sent,       \* sent[d][p]: the ids d ever generated for p
  sendState,  \* sendState[m]: send_state of m's row at its author
  log,        \* log[d][p]: the ops d appended for p; index = pseq
  compacted,  \* compacted[d][p]: rows of log[d][p] up to here are deleted
  expired,    \* expired[d][p]: pseqs of delete ops older than deleteOpTtlMs
  myApplied,  \* myApplied[d][p]: peers.my_applied_seq, d's cursor in p's log
  \* --- lost when the process ends ---
  applied,    \* applied[d][p]: _appliedOps
  pending,    \* pending[d][p]: _pendingAcks, pairs <<pseq, msg>>
  sinks,      \* sinks[d][p]: _sinks, in order of registration
  \* --- network ---
  conn,       \* conn[d][p]: the link d dials to p
  chan,       \* chan[d][p][r]: envelopes sent by d to p from its link end r
  mail,       \* mail[d][p]: envelopes d ever left for p on the server
  faults      \* how many faults have happened

durable  == <<inbox, tombs, forgotten, sent, sendState, log, compacted, expired,
              myApplied>>
volatile == <<applied, pending, sinks>>
network  == <<conn, chan, mail>>
vars     == <<durable, volatile, network, faults>>

(***************************************************************************)
(* Ops and envelopes.  A profile op carries the name and avatar of the     *)
(* sender; a noop stands for a delete op that is too old to be replayed.   *)
(***************************************************************************)
OpBody == [kind : {"msg", "delete", "clear", "profile", "noop"}, ids : SUBSET Msg]

MsgOp(m)      == [kind |-> "msg", ids |-> {m}]
DeleteOp(ids) == [kind |-> "delete", ids |-> ids]
ClearOp       == [kind |-> "clear", ids |-> {}]
ProfileOp     == [kind |-> "profile", ids |-> {}]
NoOp          == [kind |-> "noop", ids |-> {}]

Envelope == [type : {"op", "hello", "ack"}, seq : Nat, body : OpBody]

OpEnv(s, b) == [type |-> "op", seq |-> s, body |-> b]
Hello(c)    == [type |-> "hello", seq |-> c, body |-> NoOp]
Ack(c)      == [type |-> "ack", seq |-> c, body |-> NoOp]

\* _mailboxSafe: only idempotent payloads are copied to the mailbox
MailboxSafe(e) == e.type = "op" /\ e.body.kind # "noop"

Role      == {"dial", "accept"}
SinkEnd   == {"dial", "accept", "stale"}
LinkState == {"off", "gone", "dialing", "up", "dead"}
SendState == {"none", "queued", "sending", "ok"}
NoQueues  == [r \in Role |-> <<>>]

(***************************************************************************)
(* Links and pushing.  "dead" is a broken link whose dialing end has not   *)
(* noticed; a "stale" sink is an accepting end that was replaced by a      *)
(* newer link before it was torn down.  What is pushed into either is lost.*)
(***************************************************************************)
Peers(d) == Device \ {d}

IsOnline(d, p) == sinks[d][p] # <<>>

\* link ends of d towards p whose envelopes can still reach p
Live(d, p) == {r \in Role : \/ r = "dial" /\ conn[d][p] \in {"dialing", "up"}
                            \/ r = "accept" /\ conn[p][d] = "up"}

\* _pushLive: the newest registered sink takes the envelopes
PushTo(queues, sinkSeq, live, envs) ==
  IF sinkSeq # <<>> /\ Last(sinkSeq) \in live
  THEN [queues EXCEPT ![Last(sinkSeq)] = @ \o envs]
  ELSE queues

MailCopies(envs) ==
  IF Relay THEN {e \in ToSet(envs) : MailboxSafe(e)} ELSE {}

\* _push of a sequence of envelopes; q is the network with the handled envelope removed
Push(d, p, envs, q) ==
  /\ chan' = [q EXCEPT ![d][p] = PushTo(@, sinks[d][p], Live(d, p), envs)]
  /\ mail' = [mail EXCEPT ![d][p] = @ \cup MailCopies(envs)]

\* _markPendingSending / _markPendingQueued
Retag(d, p, from, to) ==
  [m \in Msg |-> IF /\ \E s \in pending[d][p] : s[2] = m
                    /\ m \in inbox[d][p] /\ sendState[m] = from
                 THEN to ELSE sendState[m]]

\* An accept sink replaced by a newer one stays registered until it is torn down
Demote(s) == [i \in DOMAIN s |-> IF s[i] = "accept" THEN "stale" ELSE s[i]]

(***************************************************************************)
(* Local changes: table row, op, _pendingAcks, push -- in that order.      *)
(***************************************************************************)
NextSeq(d, p) == Len(log[d][p]) + 1

\* store.insertMessage, then setSendState, of a message d has just written
WriteOwn(d, p, m, state) ==
  /\ inbox' = [inbox EXCEPT ![d][p] = @ \cup {m}]
  /\ sent' = [sent EXCEPT ![d][p] = @ \cup {m}]
  /\ sendState' = [sendState EXCEPT ![m] = state]

OnTheWay(d, p) == IF IsOnline(d, p) THEN "sending" ELSE "queued"

\* store.appendOp, then _push with the assigned pseq
AppendAndPush(d, p, body) ==
  /\ log' = [log EXCEPT ![d][p] = Append(@, body)]
  /\ Push(d, p, <<OpEnv(NextSeq(d, p), body)>>, chan)

MayAct(d, p, op) == d \in Users /\ op \in UserOps /\ Len(log[d][p]) < MaxOps

Fresh(m) == \A d, p \in Device : m \notin sent[d][p]

\* sendText -> _commitMessage
SendText(d, p, m) ==
  /\ MayAct(d, p, "msg") /\ Fresh(m)
  /\ WriteOwn(d, p, m, OnTheWay(d, p))
  /\ AppendAndPush(d, p, MsgOp(m))
  /\ pending' = [pending EXCEPT ![d][p] = @ \cup {<<NextSeq(d, p), m>>}]
  /\ UNCHANGED <<tombs, forgotten, compacted, expired, myApplied, applied, sinks, conn,
                 faults>>

\* Table deleted_msgs: what is deleted now enters it.  What is older than deleteOpTtlMs
\* when the process starts is purged by _migrate: any row, as long as two days may pass.
\* `aged' is empty where no start is part of the step.
Bury(d, ids, aged) ==
  /\ "expire" \in Faults \/ aged = {}
  /\ aged \subseteq tombs[d] \cup ids
  /\ tombs' = [tombs EXCEPT ![d] = (@ \cup ids) \ aged]
  /\ forgotten' = [forgotten EXCEPT ![d] = @ \cup aged]

\* rows leave table messages and enter deleted_msgs, in one transaction
RemoveRows(d, p, ids, aged) ==
  /\ inbox' = [inbox EXCEPT ![d][p] = @ \ ids]
  /\ Bury(d, ids, aged)
  /\ sendState' = [m \in Msg |-> IF m \in ids \cap sent[d][p] THEN "none" ELSE sendState[m]]

\* deleteMessages -> _doDelete, some messages of the conversation
DeleteMessages(d, p, ids) ==
  /\ MayAct(d, p, "delete")
  /\ ids # {} /\ ids \subseteq inbox[d][p]
  /\ RemoveRows(d, p, ids, {})
  /\ AppendAndPush(d, p, DeleteOp(ids))
  /\ UNCHANGED <<sent, compacted, expired, myApplied, applied, pending, sinks, conn, faults>>

\* deleteMessages -> _doDelete with clearAll: "clear history (both sides)"
ClearAll(d, p) ==
  /\ MayAct(d, p, "clear")
  /\ RemoveRows(d, p, inbox[d][p], {})
  /\ AppendAndPush(d, p, ClearOp)
  /\ UNCHANGED <<sent, compacted, expired, myApplied, applied, pending, sinks, conn, faults>>

(***************************************************************************)
(* _handleIncoming: d handles envelope e of p.                             *)
(***************************************************************************)
AckPending(d, p, cursor, done) ==
  LET ids == {s[2] : s \in done}
  IN /\ compacted' = [compacted EXCEPT ![d][p] = IF cursor > @ THEN cursor ELSE @]
     /\ pending' = [pending EXCEPT ![d][p] = @ \ done]
     /\ sendState' = [m \in Msg |-> IF m \in ids \cap inbox[d][p] THEN "ok" ELSE sendState[m]]

\* Mutant: every waiting message is ticked
AckedAll(d, p, cursor) == AckPending(d, p, cursor, pending[d][p])

\* setPeerAppliedSeq, compactOps, _markDelivered
Acked(d, p, cursor) == AckPending(d, p, cursor, {s \in pending[d][p] : s[1] <= cursor})

\* opsSince: the rows left above the cursor, delete ops that are too old as noops
OpsSince(d, p, cursor) ==
  LET low == IF cursor > compacted[d][p] THEN cursor ELSE compacted[d][p]
  IN [i \in 1 .. Len(log[d][p]) - low |->
        OpEnv(low + i, IF low + i \in expired[d][p] THEN NoOp ELSE log[d][p][low + i])]

HandleHello(d, p, e, q) ==
  /\ e.type = "hello"
  /\ Acked(d, p, e.seq)
  /\ Push(d, p, OpsSince(d, p, e.seq), q)
  /\ UNCHANGED <<inbox, tombs, forgotten, sent, log, expired, myApplied, applied, sinks>>

HandleAck(d, p, e, q) ==
  /\ e.type = "ack"
  /\ Acked(d, p, e.seq)
  /\ Push(d, p, <<>>, q)
  /\ UNCHANGED <<inbox, tombs, forgotten, sent, log, expired, myApplied, applied, sinks>>

\* Mutants: an arriving message ignores tombstones; a delete op leaves none for a
\* message that has not arrived yet
ApplyOverTombs(d, p, body, aged) ==
  \/ /\ body.kind = "msg"
     /\ inbox' = [inbox EXCEPT ![d][p] = @ \cup body.ids]
     /\ Bury(d, {}, aged) /\ UNCHANGED sendState
  \/ body.kind = "delete" /\ RemoveRows(d, p, body.ids, aged)
  \/ body.kind \notin {"msg", "delete"} /\ Bury(d, {}, aged) /\ UNCHANGED <<inbox, sendState>>
ApplyDeleteShown(d, p, body, aged) ==
  \/ /\ body.kind = "msg"
     /\ inbox' = [inbox EXCEPT ![d][p] = @ \cup (body.ids \ tombs[d])]
     /\ Bury(d, {}, aged) /\ UNCHANGED sendState
  \/ body.kind = "delete" /\ RemoveRows(d, p, body.ids \cap inbox[d][p], aged)
  \/ body.kind \notin {"msg", "delete"} /\ Bury(d, {}, aged) /\ UNCHANGED <<inbox, sendState>>

\* The table writes of _applyChat, _applyDelete, and of ops without a row (and, where a
\* start follows at once, the purge of `aged')
Apply(d, p, body, aged) ==
  \/ /\ body.kind = "msg"
     /\ inbox' = [inbox EXCEPT ![d][p] = @ \cup (body.ids \ tombs[d])]
     /\ Bury(d, {}, aged) /\ UNCHANGED sendState
  \/ body.kind = "delete" /\ RemoveRows(d, p, body.ids, aged)
  \/ body.kind = "clear" /\ RemoveRows(d, p, inbox[d][p], aged)
  \/ /\ body.kind \in {"profile", "noop"}
     /\ Bury(d, {}, aged) /\ UNCHANGED <<inbox, sendState>>

\* Mutant: the newest pseq seen, over gaps
NewestSeen(cursor, got, k) == \A j \in got \cup {cursor} : j <= k

\* k is the end of the contiguous run of applied pseqs above the cursor
PrefixEnd(cursor, got, k) ==
  /\ k \in got \cup {cursor} /\ k >= cursor
  /\ (cursor + 1) .. k \subseteq got
  /\ k + 1 \notin got

\* Mutants: acknowledge the op that arrived; ask for nothing; ask from one too low
ReplyAckLast(cursor, s, k) == <<Ack(s)>>
ReplyNoHello(cursor, s, k) == IF k > cursor THEN <<Ack(k)>> ELSE <<>>
ReplyHelloBelow(cursor, s, k) ==
  IF k > cursor THEN <<Ack(k)>> ELSE IF s > cursor + 1 THEN <<Hello(cursor - 1)>> ELSE <<>>

\* acknowledge a longer prefix, or ask for a replay over a gap
Reply(cursor, s, k) ==
  IF k > cursor THEN <<Ack(k)>> ELSE IF s > cursor + 1 THEN <<Hello(cursor)>> ELSE <<>>

\* Mutant: the cursor is the pseq of the last op handled
AdvanceToLast(d, p, s, q) ==
  /\ applied' = [applied EXCEPT ![d][p] = @ \cup {s}]
  /\ myApplied' = [myApplied EXCEPT ![d][p] = s]
  /\ Push(d, p, <<Ack(s)>>, q)

\* _advanceCursor
AdvanceCursor(d, p, s, q) ==
  LET cursor == myApplied[d][p]
      got    == applied[d][p] \cup {s}
  IN \/ /\ s <= cursor
        /\ UNCHANGED <<applied, myApplied>>
        /\ Push(d, p, <<>>, q)
     \/ /\ s > cursor
        /\ applied' = [applied EXCEPT ![d][p] = got]
        /\ \E k \in got \cup {cursor} :
             /\ PrefixEnd(cursor, got, k)
             /\ myApplied' = [myApplied EXCEPT ![d][p] = k]
             /\ Push(d, p, Reply(cursor, s, k), q)

HandleOp(d, p, e, q) ==
  /\ e.type = "op"
  /\ Apply(d, p, e.body, {})
  /\ AdvanceCursor(d, p, e.seq, q)
  /\ UNCHANGED <<sent, log, compacted, expired, pending, sinks>>

Handle(d, p, e, q) ==
  /\ HandleHello(d, p, e, q) \/ HandleAck(d, p, e, q) \/ HandleOp(d, p, e, q)
  /\ UNCHANGED <<conn, faults>>

\* an envelope arrives at d over the link whose far end is p's end r
Deliverable(d, p, r) ==
  /\ chan[p][d][r] # <<>>
  /\ IF r = "dial" THEN conn[p][d] = "up" ELSE conn[d][p] = "up"

Receive(d, p, r) ==
  /\ Deliverable(d, p, r)
  /\ Handle(d, p, Head(chan[p][d][r]), [chan EXCEPT ![p][d][r] = Tail(@)])

\* a mailbox copy arrives: polled or pushed by the server, at any time, once or
\* more often (it is removed only when the server gets the receiver's ack)
MailDeliver(d, p) ==
  /\ \A r \in Role : Len(chan[d][p][r]) < MaxQueue /\ Len(chan[p][d][r]) < MaxQueue
  /\ \E e \in mail[p][d] : Handle(d, p, e, chan)

(***************************************************************************)
(* Links: _OutgoingSession and channel(), _registerSink, _unregisterSink.  *)
(***************************************************************************)
\* _registerSink: pending messages are on their way again, the profile is
\* appended and pushed on the new sink, which is now the newest; the dialing end
\* then sends its Hello on the same link
RegisterSink(d, p, sinkSeq, envs, q) ==
  LET profile == IF HasProfile THEN <<ProfileOp>> ELSE <<>>
      first   == IF HasProfile THEN <<OpEnv(NextSeq(d, p), ProfileOp)>> ELSE <<>>
  IN /\ sinks' = [sinks EXCEPT ![d][p] = sinkSeq]
     /\ sendState' = IF IsOnline(d, p) THEN sendState ELSE Retag(d, p, "queued", "sending")
     /\ log' = [log EXCEPT ![d][p] = @ \o profile]
     /\ chan' = [q EXCEPT ![d][p][Last(sinkSeq)] = first \o envs]
     /\ mail' = [mail EXCEPT ![d][p] = @ \cup MailCopies(first)]

\* Mutant: messages on their way are not marked as waiting
UnregisterSinkOnly(d, p, i) ==
  /\ sinks' = [sinks EXCEPT ![d][p] = RemoveAt(@, i)]
  /\ UNCHANGED sendState

\* _unregisterSink: without a sink left, messages on their way wait again
UnregisterSink(d, p, i) ==
  /\ sinks' = [sinks EXCEPT ![d][p] = RemoveAt(@, i)]
  /\ sendState' = IF Len(sinks[d][p]) = 1 THEN Retag(d, p, "sending", "queued") ELSE sendState

\* _OutgoingSession._connect: the sink buffers until the call is connected
Dial(d, p) ==
  /\ <<d, p>> \in CanDial /\ conn[d][p] \in {"off", "gone"}
  /\ conn' = [conn EXCEPT ![d][p] = "dialing"]
  /\ RegisterSink(d, p, Append(sinks[d][p], "dial"), <<Hello(myApplied[d][p])>>, chan)
  /\ UNCHANGED <<inbox, tombs, forgotten, sent, compacted, expired, myApplied, applied,
                 pending, faults>>

\* channel(): the call of p is accepted by d
Accept(d, p) ==
  /\ conn[p][d] = "dialing"
  /\ conn' = [conn EXCEPT ![p][d] = "up"]
  /\ RegisterSink(d, p, Append(Demote(sinks[d][p]), "accept"), <<>>, chan)
  /\ UNCHANGED <<inbox, tombs, forgotten, sent, compacted, expired, myApplied, applied,
                 pending, faults>>

\* _OutgoingSession._onClosed: the dialing end notices, and will reconnect
DialClosed(d, p) ==
  /\ conn[d][p] = "dead"
  /\ conn' = [conn EXCEPT ![d][p] = "off"]
  /\ \E i \in DOMAIN sinks[d][p] : sinks[d][p][i] = "dial" /\ UnregisterSink(d, p, i)
  /\ UNCHANGED <<inbox, tombs, forgotten, sent, log, compacted, expired, myApplied, applied,
                 pending, chan, mail, faults>>

\* channel() ends at the accepting end: the stream is closed, or was replaced
AcceptClosed(d, p) ==
  /\ \E i \in DOMAIN sinks[d][p] :
       /\ \/ sinks[d][p][i] = "stale"
          \/ sinks[d][p][i] = "accept" /\ conn[p][d] # "up"
       /\ UnregisterSink(d, p, i)
  /\ UNCHANGED <<inbox, tombs, forgotten, sent, log, compacted, expired, myApplied, applied,
                 pending, network, faults>>

(***************************************************************************)
(* Faults.                                                                 *)
(***************************************************************************)
Fault(f) == f \in Faults /\ faults < MaxFaults /\ faults' = faults + 1

\* a link breaks, or a dial fails: what is in it, both ways, is lost
Break(d, p) ==
  /\ Fault("break") /\ conn[d][p] \in {"dialing", "up"}
  /\ conn' = [conn EXCEPT ![d][p] = "dead"]
  /\ chan' = [chan EXCEPT ![d][p]["dial"] = <<>>, ![p][d]["accept"] = <<>>]
  /\ UNCHANGED <<durable, volatile, mail>>

\* the links of d to S go down at d's end; the far dialing ends notice later
CutAt(d, S, session) ==
  /\ conn' = [x \in Device |-> [y \in Device |->
                IF x = d /\ y \in S THEN session
                ELSE IF x \in S /\ y = d /\ conn[x][y] = "up" THEN "dead" ELSE conn[x][y]]]
  /\ chan' = [x \in Device |-> [y \in Device |->
                IF x = d /\ y \in S THEN NoQueues
                ELSE IF x \in S /\ y = d
                THEN [chan[x][y] EXCEPT !["accept"] = <<>>,
                                        !["dial"] = IF conn[x][y] = "up" THEN <<>> ELSE @]
                ELSE chan[x][y]]]

\* forceDisconnect: no sign of life for 40 s, or the peer left the local network
ForceDisconnect(d, p) ==
  /\ Fault("force") /\ IsOnline(d, p)
  /\ CutAt(d, {p}, "gone")
  /\ sinks' = [sinks EXCEPT ![d][p] = <<>>]
  /\ sendState' = Retag(d, p, "sending", "queued")
  /\ UNCHANGED <<inbox, tombs, forgotten, sent, log, compacted, expired, myApplied, applied,
                 pending, mail>>

\* The process of d ends and starts again from its tables.  The start purges old
\* tombstones: Bury, with `aged', in the actions that restart.
Restart(d) ==
  /\ CutAt(d, Peers(d), "off")
  /\ sinks' = [sinks EXCEPT ![d] = [p \in Device |-> <<>>]]
  /\ applied' = [applied EXCEPT ![d] = [p \in Device |-> {}]]
  /\ pending' = [pending EXCEPT ![d] = [p \in Device |-> {}]]

Crash(d) ==
  /\ Fault("crash")
  /\ \E aged \in SUBSET Msg : Bury(d, {}, aged)
  /\ Restart(d)
  /\ UNCHANGED <<inbox, sent, sendState, log, compacted, expired, myApplied, mail>>

\* ... after insertMessage, whose row starts with send_state 0 (delivered), or after
\* setSendState, but before appendOp: three transactions
TornSend(d, p, m) ==
  /\ Fault("torn_send") /\ MayAct(d, p, "msg") /\ Fresh(m)
  /\ \E state \in {"ok", OnTheWay(d, p)} : WriteOwn(d, p, m, state)
  /\ \E aged \in SUBSET Msg : Bury(d, {}, aged)
  /\ Restart(d)
  /\ UNCHANGED <<log, compacted, expired, myApplied, mail>>

\* ... between the table writes of an arriving op and setMyAppliedSeq
TornApply(d, p, r) ==
  /\ Fault("torn_apply") /\ Deliverable(d, p, r)
  /\ LET e == Head(chan[p][d][r])
     IN /\ e.type = "op"
        /\ \E aged \in SUBSET Msg : Apply(d, p, e.body, aged)
  /\ Restart(d)
  /\ UNCHANGED <<sent, log, compacted, expired, myApplied, mail>>

\* ... between the transactions of _doDelete that remove rows (one for each 500 of them)
\* and appendOp: the peer is never told of what is gone
TornDelete(d, p, ids) ==
  /\ Fault("torn_delete") /\ ids # {} /\ ids \subseteq inbox[d][p]
  /\ MayAct(d, p, "delete") \/ (MayAct(d, p, "clear") /\ ids = inbox[d][p])
  /\ \E aged \in SUBSET Msg : RemoveRows(d, p, ids, aged)
  /\ Restart(d)
  /\ UNCHANGED <<sent, log, compacted, expired, myApplied, mail>>

\* a delete op has waited longer than deleteOpTtlMs
Expire(d, p) ==
  /\ Fault("expire")
  /\ \E i \in DOMAIN log[d][p] :
       /\ i > compacted[d][p] /\ i \notin expired[d][p]
       /\ log[d][p][i].kind \in {"delete", "clear"}
       /\ expired' = [expired EXCEPT ![d][p] = @ \cup {i}]
  /\ UNCHANGED <<inbox, tombs, forgotten, sent, sendState, log, compacted, myApplied, volatile,
                 network>>

-----------------------------------------------------------------------------
PerPeer(v) == [d \in Device |-> [p \in Device |-> v]]

Init ==
  /\ inbox = PerPeer({}) /\ sent = PerPeer({})
  /\ tombs = [d \in Device |-> {}] /\ forgotten = [d \in Device |-> {}]
  /\ sendState = [m \in Msg |-> "none"]
  /\ log = PerPeer(<<>>) /\ compacted = PerPeer(0) /\ expired = PerPeer({})
  /\ myApplied = PerPeer(0)
  /\ applied = PerPeer({}) /\ pending = PerPeer({}) /\ sinks = PerPeer(<<>>)
  /\ conn = PerPeer("off") /\ chan = PerPeer(NoQueues) /\ mail = PerPeer({})
  /\ faults = 0

UserStep(d, p) == \/ \E m \in Msg : SendText(d, p, m)
                  \/ \E ids \in SUBSET Msg : DeleteMessages(d, p, ids)
                  \/ ClearAll(d, p)
LinkStep(d, p) == \/ Dial(d, p) \/ Accept(d, p) \/ DialClosed(d, p) \/ AcceptClosed(d, p)
                  \/ MailDeliver(d, p)
                  \/ \E r \in Role : Receive(d, p, r)
FaultStep(d, p) == \/ Break(d, p) \/ ForceDisconnect(d, p) \/ Crash(d) \/ Expire(d, p)
                   \/ \E m \in Msg : TornSend(d, p, m)
                   \/ \E ids \in SUBSET Msg : TornDelete(d, p, ids)
                   \/ \E r \in Role : TornApply(d, p, r)

Next == \E d \in Device : \E p \in Peers(d) : UserStep(d, p) \/ LinkStep(d, p) \/ FaultStep(d, p)

Spec == Init /\ [][Next]_vars

\* The reconnect timer dials again after a close; the revive timer dials where no
\* session and no sink is left; an accepted call, a closed stream and a queued
\* envelope are each taken by the event loop.  Nothing is assumed of the mailbox.
Redial(d, p) == (conn[d][p] = "off" \/ ~IsOnline(d, p)) /\ Dial(d, p)

Fairness ==
  \A d \in Device : \A p \in Peers(d) :
    /\ WF_vars(Redial(d, p)) /\ WF_vars(Accept(d, p))
    /\ WF_vars(DialClosed(d, p)) /\ WF_vars(AcceptClosed(d, p))
    /\ \A r \in Role : WF_vars(Receive(d, p, r))

FairSpec == Spec /\ Fairness
-----------------------------------------------------------------------------
(***************************************************************************)
(* Properties.                                                             *)
(***************************************************************************)
TypeOK ==
  /\ inbox \in [Device -> [Device -> SUBSET Msg]]
  /\ tombs \in [Device -> SUBSET Msg] /\ forgotten \in [Device -> SUBSET Msg]
  /\ sent \in [Device -> [Device -> SUBSET Msg]]
  /\ sendState \in [Msg -> SendState]
  /\ log \in [Device -> [Device -> Seq(OpBody)]]
  /\ compacted \in [Device -> [Device -> Nat]]
  /\ expired \in [Device -> [Device -> SUBSET Nat]]
  /\ myApplied \in [Device -> [Device -> Nat]]
  /\ applied \in [Device -> [Device -> SUBSET Nat]]
  /\ pending \in [Device -> [Device -> SUBSET (Nat \X Msg)]]
  /\ sinks \in [Device -> [Device -> Seq(SinkEnd)]]
  /\ conn \in [Device -> [Device -> LinkState]]
  /\ chan \in [Device -> [Device -> [Role -> Seq(Envelope)]]]
  /\ mail \in [Device -> [Device -> SUBSET Envelope]]
  /\ faults \in Nat

\* what was ever deleted at d
Deleted(d) == tombs[d] \cup forgotten[d]

Holds(d, p, m) == m \in inbox[d][p] \cup Deleted(d)

\* A message that was sent is never lost between the two devices: the receiver has
\* it (or deleted it), or the sender still has the op row that replays it.
\* (appendOp, compactOps, _advanceCursor: acknowledge the contiguous prefix only.)
NoMessageLost ==
  \A d \in Device : \A p \in Peers(d) : \A m \in sent[d][p] :
    \/ Holds(p, d, m)
    \/ \E i \in DOMAIN log[d][p] : i > compacted[d][p] /\ log[d][p][i] = MsgOp(m)

\* The same for deletions: unless the op grew older than deleteOpTtlMs, the receiver
\* has deleted what it names, or the sender can still replay it.
NoDeleteLost ==
  \A d \in Device : \A p \in Peers(d) : \A i \in DOMAIN log[d][p] :
    log[d][p][i].kind = "delete" =>
      i > compacted[d][p] \/ i \in expired[d][p] \/ log[d][p][i].ids \subseteq Deleted(p)

\* A message does not come back on the device that deleted it, whatever copy of it
\* still arrives over a link or from the mailbox, until that device starts two days or
\* more after the deletion: _migrate then forgets it, and a copy of any age that is still
\* in the mailbox shows it again.  (insertMessage: tombstones win.)
DeletedStaysDeleted ==
  \A d \in Device : \A p \in Peers(d) : \A i \in DOMAIN log[d][p] :
    log[d][p][i].kind = "delete" => log[d][p][i].ids \cap inbox[d][p] \subseteq forgotten[d]

\* No ack or Hello on its way, and no compaction, is ahead of the cursor it reports.
CursorsHonest ==
  \A d \in Device : \A p \in Peers(d) :
    /\ compacted[d][p] <= myApplied[p][d]
    /\ \A r \in Role : \A i \in DOMAIN chan[p][d][r] :
         chan[p][d][r][i].type # "op" => chan[p][d][r][i].seq <= myApplied[p][d]

\* The user is shown how far a message is.  One that waits for its ack is `sending' exactly
\* while there is a link, whichever of several links comes or goes, and one whose op the
\* peer acknowledged is shown as waiting no longer.  (_commitMessage, _markPendingSending,
\* _markPendingQueued, _markDelivered; store.dart: send_state 3 is "queued, waiting for
\* delivery".)
SendStateTrue ==
  \A d \in Device : \A p \in Peers(d) :
    /\ \A s \in pending[d][p] : s[2] \in inbox[d][p] => sendState[s[2]] = OnTheWay(d, p)
    /\ \A i \in 1 .. compacted[d][p] : \A m \in inbox[d][p] :
         log[d][p][i] = MsgOp(m) => sendState[m] = "ok"

\* d and p have applied everything the other one logged
Settled(d, p) == myApplied[p][d] = Len(log[d][p]) /\ myApplied[d][p] = Len(log[p][d])

\* no delete op of d names m
Untold(d, p, m) ==
  \A i \in DOMAIN log[d][p] : log[d][p][i].kind = "delete" => m \notin log[d][p][i].ids

\* Both ends of a conversation are the same once everything is applied and no delete op
\* expired before it could be delivered, but for two kinds of messages: one that came back
\* where it was deleted and forgotten, and one that the other end deleted while no delete op
\* names it, because its process ended between the two transactions of _doDelete, or because
\* the conversation was cleared.
Converged ==
  \A d \in Device : \A p \in Peers(d) :
    Settled(d, p) /\ expired[d][p] = {} /\ expired[p][d] = {} =>
      \A m \in inbox[d][p] \ inbox[p][d] :
        m \in forgotten[d] \/ (m \in Deleted(p) /\ Untold(p, d, m))

\* A cursor never moves back, not even over a restart.  (setMyAppliedSeq)
CursorMonotone ==
  [][\A d, p \in Device : myApplied'[d][p] >= myApplied[d][p]]_myApplied

\* a logged message that is shown as waiting
Waiting(d, p, m) == /\ \E i \in DOMAIN log[d][p] : log[d][p][i] = MsgOp(m)
                    /\ sendState[m] \in {"queued", "sending"}

\* It reaches its receiver in the end, from either side and also when only one side can dial;
\* and every op is acknowledged in the end and its row deleted, expired ones included.
\* (Hello, replay over a gap, reconnect)
EventuallyDelivered ==
  \A d \in Device : \A p \in Peers(d) :
    /\ \A m \in Msg : Waiting(d, p, m) ~> Holds(p, d, m)
    /\ <>[](compacted[d][p] = Len(log[d][p]))

Delivered == {m \in Msg : sendState[m] = "ok"}

View == INSTANCE Conversation
  WITH shown <- inbox, gone <- tombs, lapsed <- forgotten, written <- sent,
       ticked <- Delivered, MayForget <- "expire" \in Faults

\* What the two users see is the abstract conversation, over every link, mailbox copy,
\* replay and restart.
ImplementsConversation == View!Spec
=============================================================================
