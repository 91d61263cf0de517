------------------------------ MODULE Pairing ------------------------------
(***************************************************************************)
(* Pairing and unpairing: core/lib/src/pairing/pairing.dart, the dialogs   *)
(* that start, answer and cancel it (app/lib/main.dart), and the outbox of *)
(* unpair notices (core/lib/littlelaw_core.dart).                          *)
(*                                                                         *)
(* A pairing is a row of peers at both ends with the same token, here the  *)
(* name of the request it came from.  There are three ways to get one:     *)
(*   pin     the requester calls, the other user accepts, the responder    *)
(*           stages, the requester confirms, the responder stores, and     *)
(*           then the requester does;                                      *)
(*   tap     the responder shows a code, the requester presents it, the    *)
(*           responder stores, then the requester does;                    *)
(*   invite  the responder shows an offer, the requester stores and        *)
(*           answers, then the responder stores.                           *)
(***************************************************************************)
EXTENDS Naturals, FiniteSets

CONSTANTS
  Device,
  Request,     \* attempts to pair
  From, To,    \* From[q] asks To[q]
  Ways,        \* Ways[q]: the ways q may take, of "pin", "tap" and "invite"
  None,
  MaxPending,  \* _maxPending
  Faults,      \* the kinds of faults that happen, each at most once
  MaxFaults    \* bound: how many of them in one run

FaultKinds == {"call", "cancel", "unpair", "notice", "restart"}

ASSUME PairingAssumption ==
  /\ From \in [Request -> Device] /\ To \in [Request -> Device]
  /\ \A q \in Request : From[q] # To[q]
  /\ Ways \in [Request -> SUBSET {"pin", "tap", "invite"}]
  /\ None \notin Request
  /\ MaxPending \in Nat \ {0} /\ Faults \subseteq FaultKinds /\ MaxFaults \in Nat

VARIABLES
  via,       \* via[q]: the way q takes, it never changes
  peers,     \* peers[d][e]: the token d holds for e
  notice,    \* unpair_outbox: <<d, e, t>>, d owes e a notice about the pairing t
  client,    \* client[q]: the requester's call
  server,    \* server[q]: what the responder knows of it: _pending, _staged, or done with
  code,      \* _tapToken, _pendingOfferToken: the code a device accepts, by kind
  outgoing,  \* _outgoingRequests, by target
  cancelled, \* requests whose user pressed cancel
  cutOff,    \* those of them whose pairing the process held, not taken back, when it ended
  net,       \* calls and answers under way
  faults     \* kinds of faults that happened

vars == <<via, peers, notice, client, server, code, outgoing, cancelled, cutOff, net, faults>>

\* calls and answers; an unpair call carries its token, a notice the one in the outbox row
Message ==
  [type : {"request", "accepted", "rejected", "confirm", "confirmed", "tap", "cancel", "answer"},
   q : Request]
  \cup [type : {"unpair", "notice"}, from : Device, to : Device, t : Request]
  \cup [type : {"unpaired"}, from : Device, to : Device, ok : BOOLEAN]

M(type, q) == [type |-> type, q |-> q]

\* upsertPeer, after _purgeTombstoneFor
Store(d, e, q) == peers' = [peers EXCEPT ![d][e] = q]

\* a reply reaches the caller if the call still waits
Reply(request, type) ==
  net' = (net \ {request})
         \cup (IF client[request.q] \in {"asked", "confirming"} THEN {M(type, request.q)} ELSE {})

\* the requester's call returns or throws: finally { _outgoingRequests.remove(target) },
\* whichever request is registered there
Return(q, result) ==
  /\ client' = [client EXCEPT ![q] = result]
  /\ outgoing' = [outgoing EXCEPT ![From[q]][To[q]] = IF via[q] = "pin" THEN None ELSE @]

-----------------------------------------------------------------------------
(* pin: requestPairWith, requestPair, respond, confirmPair, cancelPair *)

Ask(q) ==
  /\ via[q] = "pin" /\ client[q] = "idle"
  /\ client' = [client EXCEPT ![q] = "asked"]
  /\ outgoing' = [outgoing EXCEPT ![From[q]][To[q]] = q]
  /\ net' = net \cup {M("request", q)}
  /\ UNCHANGED <<via, peers, notice, server, code, cancelled, cutOff, faults>>

PendingAt(d) == {q \in Request : To[q] = d /\ server[q] = "pending"}
StagedAt(d)  == {q \in Request : To[q] = d /\ server[q] = "staged"}

\* Mutant: an older request stays
StaleNone(q) == {}

\* an older request of the same device that is still pending
Stale(q) == {p \in PendingAt(To[q]) : From[p] = From[q]}

\* requestPair up to the dialog.  expired: the staged entries that _sweepStaged finds too old
Admit(q) ==
  LET request == M("request", q)
      kicked  == Stale(q)
  IN /\ request \in net
     /\ Cardinality(PendingAt(To[q])) < MaxPending
     /\ \E expired \in SUBSET StagedAt(To[q]) :
          server' = [p \in Request |-> IF p = q THEN "pending"
                                       ELSE IF p \in kicked \cup expired THEN "refused"
                                       ELSE server[p]]
     /\ net' = (net \ {request})
               \cup {M("rejected", p) : p \in {x \in kicked : client[x] = "asked"}}
     /\ UNCHANGED <<via, peers, notice, client, code, outgoing, cancelled, cutOff, faults>>

\* too many requests of this host lately, or too many pending
Refuse(q) ==
  LET request == M("request", q)
  IN /\ request \in net
     /\ server' = [server EXCEPT ![q] = "refused"]
     /\ Reply(request, "rejected")
     /\ UNCHANGED <<via, peers, notice, client, code, outgoing, cancelled, cutOff, faults>>

\* Mutant: an answer counts also when the request is no longer pending
RespondLate(q, accept) ==
  /\ server[q] \in {"pending", "refused"}
  /\ server' = [server EXCEPT ![q] = IF accept THEN "staged" ELSE "refused"]
  /\ Reply(M("request", q), IF accept THEN "accepted" ELSE "rejected")
  /\ UNCHANGED <<via, peers, notice, client, code, outgoing, cancelled, cutOff, faults>>

\* the user's answer, and what requestPair does next: stage, or reject
Respond(q, accept) ==
  /\ server[q] = "pending"
  /\ server' = [server EXCEPT ![q] = IF accept THEN "staged" ELSE "refused"]
  /\ Reply(M("request", q), IF accept THEN "accepted" ELSE "rejected")
  /\ UNCHANGED <<via, peers, notice, client, code, outgoing, cancelled, cutOff, faults>>

\* requestTimeout
Timeout(q) == Respond(q, FALSE)

\* cancelPair
HandleCancel(q) ==
  /\ M("cancel", q) \in net
  /\ server' = [server EXCEPT ![q] = IF @ = "pending" THEN "refused" ELSE @]
  /\ net' = (net \ {M("cancel", q)})
            \cup (IF server[q] = "pending" /\ client[q] = "asked" THEN {M("rejected", q)} ELSE {})
  /\ UNCHANGED <<via, peers, notice, client, code, outgoing, cancelled, cutOff, faults>>

\* Mutant: the requester stores before the responder
StoreOnAccept(q) ==
  /\ M("accepted", q) \in net
  /\ client' = [client EXCEPT ![q] = "confirming"]
  /\ net' = (net \ {M("accepted", q)}) \cup {M("confirm", q)}
  /\ Store(From[q], To[q], q)
  /\ UNCHANGED <<via, notice, server, code, outgoing, cancelled, cutOff, faults>>

\* accepted: the fingerprint is checked and the confirmation signed
HandleAccepted(q) ==
  /\ M("accepted", q) \in net
  /\ client' = [client EXCEPT ![q] = "confirming"]
  /\ net' = (net \ {M("accepted", q)}) \cup {M("confirm", q)}
  /\ UNCHANGED <<via, peers, notice, server, code, outgoing, cancelled, cutOff, faults>>

\* also the answer to a tap that was refused and to a confirmation of nothing staged
HandleRejected(q) ==
  /\ M("rejected", q) \in net
  /\ net' = net \ {M("rejected", q)}
  /\ Return(q, "failed")
  /\ UNCHANGED <<via, peers, notice, server, code, cancelled, cutOff, faults>>

\* confirmPair
HandleConfirm(q) ==
  LET request == M("confirm", q)
  IN /\ request \in net
     /\ IF server[q] = "staged"
          THEN /\ server' = [server EXCEPT ![q] = "stored"]
               /\ Store(To[q], From[q], q)
               /\ Reply(request, "confirmed")
          ELSE Reply(request, "rejected") /\ UNCHANGED <<server, peers>>
     /\ UNCHANGED <<via, notice, client, code, outgoing, cancelled, cutOff, faults>>

\* the requester stores, and waits for its channel to close
HandleConfirmed(q) ==
  /\ M("confirmed", q) \in net
  /\ Store(From[q], To[q], q)
  /\ client' = [client EXCEPT ![q] = "closing"]
  /\ net' = net \ {M("confirmed", q)}
  /\ UNCHANGED <<via, notice, server, code, outgoing, cancelled, cutOff, faults>>

UnpairCall(d, e, t) == [type |-> "unpair", from |-> d, to |-> e, t |-> t]

\* engine.unpair: the call that tells the peer, if there is a row
UnpairCalls(d, e) == IF peers[d][e] = None THEN {} ELSE {UnpairCall(d, e, peers[d][e])}

\* Mutant: nobody looks at the cancel button any more
FinishAnyway(q) ==
  /\ client[q] = "closing"
  /\ Return(q, "done")
  /\ UNCHANGED <<via, peers, notice, server, code, cancelled, cutOff, net, faults>>

\* startPairFlow goes on: a cancelled pairing is taken back
Finish(q) ==
  /\ client[q] = "closing"
  /\ Return(q, "done")
  /\ net' = net \cup (IF q \in cancelled THEN UnpairCalls(From[q], To[q]) ELSE {})
  /\ UNCHANGED <<via, peers, notice, server, code, cancelled, cutOff, faults>>

\* The dialog's cancel button: cancelOutgoingRequest of what is registered for that device
Cancel(q) ==
  LET active == outgoing[From[q]][To[q]]
  IN /\ via[q] = "pin" /\ client[q] \in {"asked", "confirming", "closing"}
     /\ q \notin cancelled
     /\ cancelled' = cancelled \cup {q}
     /\ outgoing' = [outgoing EXCEPT ![From[q]][To[q]] = None]
     /\ net' = IF active = None THEN net ELSE net \cup {M("cancel", active)}
     /\ UNCHANGED <<via, peers, notice, client, server, code, cutOff, faults>>

-----------------------------------------------------------------------------
(* tap and invite: codes that go from screen to camera *)

\* generateTapToken, beginRemoteOffer: a new code replaces the one before
ShowCode(q) ==
  /\ via[q] # "pin" /\ server[q] = "none"
  /\ server' = [server EXCEPT ![q] = "shown"]
  /\ code' = [code EXCEPT ![To[q]][via[q]] = q]
  /\ UNCHANGED <<via, peers, notice, client, outgoing, cancelled, cutOff, net, faults>>

\* _tapTokenTtl, the ten minutes of an offer, cancelRemoteOffer
ForgetCode(d, way) ==
  /\ code[d][way] # None
  /\ code' = [code EXCEPT ![d][way] = None]
  /\ UNCHANGED <<via, peers, notice, client, server, outgoing, cancelled, cutOff, net, faults>>

\* pairViaTap
Scan(q) ==
  /\ via[q] = "tap" /\ client[q] = "idle" /\ server[q] = "shown"
  /\ client' = [client EXCEPT ![q] = "confirming"]
  /\ net' = net \cup {M("tap", q)}
  /\ UNCHANGED <<via, peers, notice, server, code, outgoing, cancelled, cutOff, faults>>

\* what is accepted for a code: it is used up, and the row is stored
UseCode(q) ==
  /\ server' = [server EXCEPT ![q] = "stored"]
  /\ code' = [code EXCEPT ![To[q]][via[q]] = None]
  /\ Store(To[q], From[q], q)

\* pairWithTap
HandleTap(q) ==
  LET request == M("tap", q)
  IN /\ request \in net
     /\ IF code[To[q]]["tap"] = q
          THEN UseCode(q) /\ Reply(request, "confirmed")
          ELSE Reply(request, "rejected") /\ UNCHANGED <<peers, server, code>>
     /\ UNCHANGED <<via, notice, client, outgoing, cancelled, cutOff, faults>>

\* acceptRemoteOffer, and the answer that goes back by some way or other
Join(q) ==
  /\ via[q] = "invite" /\ client[q] = "idle" /\ server[q] = "shown"
  /\ client' = [client EXCEPT ![q] = "done"]
  /\ Store(From[q], To[q], q)
  /\ net' = net \cup {M("answer", q)}
  /\ UNCHANGED <<via, notice, server, code, outgoing, cancelled, cutOff, faults>>

\* acceptRemoteAnswer
HandleAnswer(q) ==
  /\ M("answer", q) \in net
  /\ net' = net \ {M("answer", q)}
  /\ IF code[To[q]]["invite"] = q THEN UseCode(q) ELSE UNCHANGED <<peers, server, code>>
  /\ UNCHANGED <<via, notice, client, outgoing, cancelled, cutOff, faults>>

-----------------------------------------------------------------------------
(* Unpairing. *)

\* Mutant: no notice is queued
WipeSilently(d, e, owe, messages) ==
  /\ peers' = [peers EXCEPT ![d][e] = None]
  /\ net' = {m \in messages : ~(m.type = "notice" /\ m.from = e /\ m.to = d)}
  /\ UNCHANGED notice

\* _wipePeer: the row goes, the links to that peer are closed, and what comes in on them is
\* no longer heard.  owe: the peer still has to be told
Wipe(d, e, owe, messages) ==
  /\ peers' = [peers EXCEPT ![d][e] = None]
  /\ notice' = IF owe /\ peers[d][e] # None
                 THEN {n \in notice : <<n[1], n[2]>> # <<d, e>>} \cup {<<d, e, peers[d][e]>>}
                 ELSE notice
  /\ net' = {m \in messages : ~(m.type = "notice" /\ m.from = e /\ m.to = d)}

\* the calls and answers of d's unpairing from e
Unpairing(d, e) == {m \in net : m.type \in {"unpair", "unpaired"} /\ m.from = d /\ m.to = e}

\* the user unpairs; bound: once at a time
Unpair(d, e) ==
  /\ peers[d][e] # None /\ Unpairing(d, e) = {}
  /\ net' = net \cup UnpairCalls(d, e)
  /\ UNCHANGED <<via, peers, notice, client, server, code, outgoing, cancelled, cutOff, faults>>

Unpaired(d, e, ok) == [type |-> "unpaired", from |-> d, to |-> e, ok |-> ok]

\* unpair: Auth.verify, then wipe
HandleUnpair(m) ==
  /\ m \in net /\ m.type = "unpair"
  /\ LET d == m.from
         e == m.to
         ok == peers[e][d] = m.t
         answered == (net \ {m}) \cup {Unpaired(d, e, ok)}
     IN IF ok THEN Wipe(e, d, FALSE, answered)
              ELSE net' = answered /\ UNCHANGED <<peers, notice>>
  /\ UNCHANGED <<via, client, server, code, outgoing, cancelled, cutOff, faults>>

\* the rest of unpairWith
HandleUnpaired(m) ==
  /\ m \in net /\ m.type = "unpaired"
  /\ Wipe(m.from, m.to, ~m.ok, net \ {m})
  /\ UNCHANGED <<via, client, server, code, outgoing, cancelled, cutOff, faults>>

\* d dials e.  Each end that registers its first link sends the notice it owes
\* (_flushUnpairOutbox): the dialing end at once, the other if the token is right
Dial(d, e) ==
  /\ peers[d][e] # None
  /\ \E up \in {FALSE, peers[e][d] = peers[d][e]} :
       LET flushed == {n \in notice : \/ <<n[1], n[2]>> = <<d, e>>
                                      \/ up /\ <<n[1], n[2]>> = <<e, d>>}
       IN /\ flushed # {}
          /\ notice' = notice \ flushed
          /\ net' = IF up THEN net \cup {[type |-> "notice", from |-> n[1], to |-> n[2], t |-> n[3]]
                                           : n \in flushed}
                          ELSE net
  /\ UNCHANGED <<via, peers, client, server, code, outgoing, cancelled, cutOff, faults>>

\* applyRemoteUnpair; the envelope does not say which pairing it is about
HandleNotice(m) ==
  /\ m \in net /\ m.type = "notice"
  /\ IF peers[m.to][m.from] # None
       THEN Wipe(m.to, m.from, FALSE, net \ {m})
       ELSE net' = net \ {m} /\ UNCHANGED <<peers, notice>>
  /\ UNCHANGED <<via, client, server, code, outgoing, cancelled, cutOff, faults>>

-----------------------------------------------------------------------------
(* Faults. *)

Fault(kind) ==
  /\ kind \in Faults \ faults /\ Cardinality(faults) < MaxFaults
  /\ faults' = faults \cup {kind}

CallTypes == {"request", "accepted", "rejected", "confirm", "confirmed", "tap"}

\* A call fails for its caller.  lost: the request had not arrived
CallFails(q) ==
  /\ Fault("call")
  /\ client[q] \in {"asked", "confirming"}
  /\ Return(q, "failed")
  /\ \E lost \in BOOLEAN :
       net' = {m \in net : ~(/\ m.type \in CallTypes /\ m.q = q
                             /\ lost \/ m.type \in {"accepted", "rejected", "confirmed"})}
  /\ UNCHANGED <<via, peers, notice, server, code, cancelled, cutOff>>

CancelLost(q) ==
  /\ Fault("cancel")
  /\ M("cancel", q) \in net
  /\ net' = net \ {M("cancel", q)}
  /\ UNCHANGED <<via, peers, notice, client, server, code, outgoing, cancelled, cutOff>>

\* the call fails, its request or its answer is lost
UnpairFails(m) ==
  /\ Fault("unpair")
  /\ m \in net /\ \/ m.type = "unpair"
                  \/ m.type = "unpaired" /\ m.ok
  /\ net' = (net \ {m}) \cup {Unpaired(m.from, m.to, FALSE)}
  /\ UNCHANGED <<via, peers, notice, client, server, code, outgoing, cancelled, cutOff>>

NoticeLost(m) ==
  /\ Fault("notice")
  /\ m \in net /\ m.type = "notice"
  /\ net' = net \ {m}
  /\ UNCHANGED <<via, peers, notice, client, server, code, outgoing, cancelled, cutOff>>

\* The process of d ends and starts again: peers and unpair_outbox remain.  The calls that
\* wait for d fail
Restart(d) ==
  LET mine    == {q \in Request : From[q] = d /\ client[q] \in {"asked", "confirming", "closing"}}
      waiting == {q \in Request : To[q] = d /\ client[q] \in {"asked", "confirming"}}
  IN /\ Fault("restart")
     /\ client' = [q \in Request |-> IF q \in mine \cup waiting THEN "failed" ELSE client[q]]
     /\ server' = [q \in Request |->
                     IF To[q] = d /\ server[q] \in {"pending", "staged"} THEN "refused" ELSE server[q]]
     /\ code' = [code EXCEPT ![d] = [way \in DOMAIN @ |-> None]]
     /\ outgoing' = [x \in Device |-> [e \in Device |->
                       IF x = d \/ \E q \in waiting : From[q] = x /\ To[q] = e /\ via[q] = "pin"
                         THEN None ELSE outgoing[x][e]]]
     /\ cutOff' = cutOff \cup {q \in cancelled : From[q] = d /\ peers[d][To[q]] = q}
     /\ net' = {m \in net : \/ m.type \in CallTypes /\ m.q \notin mine \cup waiting
                            \/ m.type \in {"cancel", "answer"} /\ To[m.q] # d /\ From[m.q] # d
                            \/ m.type \in {"unpair", "unpaired", "notice"} /\ d \notin {m.from, m.to}}
               \cup {Unpaired(m.from, d, FALSE) :
                       m \in {x \in net : x.type \in {"unpair", "unpaired"} /\ x.to = d}}
     /\ UNCHANGED <<via, peers, notice, cancelled>>

-----------------------------------------------------------------------------
Init ==
  /\ via \in {v \in [Request -> {"pin", "tap", "invite"}] : \A q \in Request : v[q] \in Ways[q]}
  /\ peers = [d \in Device |-> [e \in Device |-> None]]
  /\ notice = {}
  /\ client = [q \in Request |-> "idle"] /\ server = [q \in Request |-> "none"]
  /\ code = [d \in Device |-> [way \in {"tap", "invite"} |-> None]]
  /\ outgoing = [d \in Device |-> [e \in Device |-> None]]
  /\ cancelled = {} /\ cutOff = {} /\ net = {} /\ faults = {}

\* what the program does by itself
Handle(q) == \/ Admit(q) \/ Refuse(q) \/ HandleCancel(q)
             \/ HandleAccepted(q) \/ HandleRejected(q) \/ HandleConfirm(q)
             \/ HandleConfirmed(q) \/ Finish(q)
             \/ HandleTap(q) \/ HandleAnswer(q)
HandleAny(m) == HandleUnpair(m) \/ HandleUnpaired(m) \/ HandleNotice(m)

User(q) == \/ Ask(q) \/ Cancel(q) \/ ShowCode(q) \/ Scan(q) \/ Join(q)
           \/ \E accept \in BOOLEAN : Respond(q, accept)

Next ==
  \/ \E q \in Request : Handle(q) \/ User(q) \/ Timeout(q) \/ CallFails(q) \/ CancelLost(q)
  \/ \E m \in net : HandleAny(m) \/ UnpairFails(m) \/ NoticeLost(m)
  \/ \E d, e \in Device : Unpair(d, e) \/ Dial(d, e)
  \/ \E d \in Device : Restart(d) \/ \E way \in {"tap", "invite"} : ForgetCode(d, way)

Spec == Init /\ [][Next]_vars

-----------------------------------------------------------------------------
\* one dialog per device that asks, and never more than three (requestPair)
FewDialogs ==
  \A d \in Device : /\ Cardinality(PendingAt(d)) <= MaxPending
                    /\ \A p, q \in PendingAt(d) : From[p] = From[q] => p = q

TypeOK ==
  /\ FewDialogs
  /\ via \in [Request -> {"pin", "tap", "invite"}]
  /\ peers \in [Device -> [Device -> Request \cup {None}]]
  /\ notice \subseteq Device \X Device \X Request
  /\ client \in [Request -> {"idle", "asked", "confirming", "closing", "done", "failed"}]
  /\ server \in [Request -> {"none", "pending", "staged", "stored", "refused", "shown"}]
  /\ code \in [Device -> [{"tap", "invite"} -> Request \cup {None}]]
  /\ outgoing \in [Device -> [Device -> Request \cup {None}]]
  /\ cutOff \subseteq cancelled /\ cancelled \subseteq Request
  /\ net \subseteq Message /\ faults \subseteq FaultKinds

\* Nobody stores a pairing before the end that has to be first: a requester not before the
\* responder has stored, an inviter not before the one invited has.  (two-phase commit of
\* requestPair and confirmPair, pairWithTap, acceptRemoteAnswer)
FirstEndFirst ==
  \A q \in Request :
    IF via[q] = "invite"
      THEN peers[To[q]][From[q]] = q => client[q] = "done"
      ELSE peers[From[q]][To[q]] = q => server[q] = "stored"

\* A request that was refused, kicked, timed out, swept or cancelled in time stays refused,
\* whatever is under way: neither end ever holds it.  (respond, cancelPair, confirmPair)
RefusedIsFinal ==
  [][\A q \in Request : server[q] = "refused" =>
       /\ server'[q] = "refused"
       /\ peers'[To[q]][From[q]] # q /\ peers'[From[q]][To[q]] # q]_vars

Quiet == /\ net = {} /\ \A d \in Device, way \in {"tap", "invite"} : code[d][way] = None
         /\ \A q \in Request : /\ client[q] \in {"idle", "done", "failed"}
                               /\ server[q] \notin {"pending", "staged"}

\* One pairing at a time: when all is quiet both ends hold the same token, through lost
\* calls, cancellations and unpairings of either user, unless the end without it owes the
\* other a notice, or the requester was told that its call failed, or an invitation was
\* withdrawn or ran out after it was accepted.  A restart may cut an unpairing in two.
\* (requestPairWith, startPairFlow, unpairWith)
BothOrNeither ==
  /\ Quiet /\ "restart" \notin faults
  /\ Cardinality({q \in Request : client[q] # "idle"}) <= 1
  => \A d, e \in Device :
       \/ peers[d][e] = peers[e][d]
       \/ peers[d][e] = None /\ <<d, e, peers[e][d]>> \in notice
       \/ peers[e][d] = None /\ <<e, d, peers[d][e]>> \in notice
       \/ \E q \in {peers[d][e], peers[e][d]} \ {None} :
            \/ client[q] = "failed" /\ peers[From[q]][To[q]] = None
            \/ via[q] = "invite" /\ server[q] = "shown"

\* What two users do at the same time does not matter either: a pairing that both ends hold
\* is held with one token.  (requestPairWith: the value is that which the responder stored)
TokensAgree ==
  Quiet /\ faults = {} => \A d, e \in Device :
    peers[d][e] # None /\ peers[e][d] # None => peers[d][e] = peers[e][d]

\* A notice ends the pairing it was written for, or nothing.  (applyRemoteUnpair)
NoticeEndsItsPairing ==
  [][\A m \in net : HandleNotice(m) => peers[m.to][m.from] \in {m.t, None}]_vars

\* Whoever pressed cancel does not end up with the pairing, whatever calls are lost and whoever
\* else starts again, unless the own process ended after it had stored the pairing and before
\* it was taken back: nothing remembers the cancel then.  (cancelOutgoingRequest,
\* startPairFlow)
CancelledIsGone ==
  Quiet => \A q \in cancelled \ cutOff : peers[From[q]][To[q]] # q
=============================================================================
