---------------------------- MODULE PairingSafety ----------------------------
(***************************************************************************)
(* What holds of pairing for any devices, requests and faults: who stores  *)
(* first and that a refusal is final (every call and answer under way is   *)
(* true of the request it is about, and a code only stands for its own     *)
(* request), the types and the number of dialogs, that a cancelled pairing *)
(* is taken back (of a request one call is under way at a time), and that  *)
(* of one pairing both ends hold the row or neither does.                  *)
(***************************************************************************)
EXTENDS Pairing, FiniteSetTheorems, TLAPS

Types ==
  /\ via \in [Request -> {"pin", "tap", "invite"}]
  /\ peers \in [Device -> [Device -> Request \cup {None}]]
  /\ client \in [Request -> {"idle", "asked", "confirming", "closing", "done", "failed"}]
  /\ server \in [Request -> {"none", "pending", "staged", "stored", "refused", "shown"}]
  /\ code \in [Device -> [{"tap", "invite"} -> Request \cup {None}]]

\* what the calls and answers about q say of it
True(type, q) ==
  /\ type = "request" => via[q] = "pin" /\ server[q] = "none" /\ client[q] # "idle"
  /\ type \in {"accepted", "confirm"} => via[q] = "pin"
  /\ type = "tap" => via[q] = "tap"
  /\ type = "rejected" => via[q] # "invite"
  /\ type = "confirmed" => via[q] # "invite" /\ server[q] = "stored"
  /\ type = "answer" => via[q] = "invite" /\ client[q] = "done"

About == {"request", "accepted", "rejected", "confirm", "confirmed", "tap", "answer"}

Net == \A type \in About, q \in Request : M(type, q) \in net => True(type, q)

Ends ==
  \A q \in Request :
    /\ client[q] = "idle" /\ via[q] = "pin" => server[q] = "none"
    /\ client[q] \in {"asked", "confirming", "closing"} => via[q] # "invite"
    /\ server[q] \in {"pending", "staged", "refused"} => via[q] = "pin"
    /\ server[q] = "shown" => via[q] # "pin"

Codes ==
  \A d \in Device, way \in {"tap", "invite"} : \A q \in Request :
    code[d][way] = q => via[q] = way /\ To[q] = d /\ server[q] = "shown"

Held ==
  \A q \in Request :
    /\ peers[To[q]][From[q]] = q =>
         server[q] = "stored" /\ (via[q] = "invite" => client[q] = "done")
    /\ peers[From[q]][To[q]] = q => via[q] = "invite" \/ server[q] = "stored"

Inv == Types /\ Net /\ Ends /\ Codes /\ Held

LEMMA Two == \A q \in Request : From[q] \in Device /\ To[q] \in Device /\ From[q] # To[q]
BY PairingAssumption

LEMMA InitInv == Init => Inv
<1>. SUFFICES ASSUME Init PROVE Inv
  OBVIOUS
<1>1. Types
  BY DEF Init, Types
<1>2. Net /\ Ends
  BY DEF Init, Net, Ends
<1>3. Codes /\ Held
  BY Two, PairingAssumption DEF Init, Codes, Held
<1>. QED
  BY <1>1, <1>2, <1>3 DEF Inv

\* An unpairing, or a fault of one, takes rows away and sends nothing about a request.
LEMMA UnpairingKeeps ==
  ASSUME Inv, UNCHANGED <<via, client, server, code>>,
         peers' \in [Device -> [Device -> Request \cup {None}]],
         \A d, e \in Device : peers'[d][e] \in {peers[d][e], None},
         \A m \in net' : m \in net \/ m.type \notin About
  PROVE  Inv'
<1>1. Types'
  BY DEF Inv, Types
<1>2. Net'
  <2>1. \A type \in About, q \in Request : M(type, q).type = type
    BY DEF M
  <2>. QED
    BY <2>1 DEF Inv, Net, True
<1>3. Ends' /\ Codes'
  BY DEF Inv, Ends, Codes
<1>4. Held'
  BY Two, PairingAssumption DEF Inv, Held
<1>. QED
  BY <1>1, <1>2, <1>3, <1>4 DEF Inv


LEMMA CodesStay ==
  ASSUME Codes, via' = via,
         \A d \in Device, way \in {"tap", "invite"} : code'[d][way] \in {code[d][way], None},
         \A q \in Request : server[q] = "shown" => server'[q] = "shown"
  PROVE  Codes'
<1>. SUFFICES ASSUME NEW d \in Device, NEW way \in {"tap", "invite"}, NEW q \in Request,
                     code'[d][way] = q
              PROVE  via[q] = way /\ To[q] = d /\ server'[q] = "shown"
  BY DEF Codes
<1>1. code[d][way] = q
  BY PairingAssumption
<1>. QED
  BY <1>1 DEF Codes

LEMMA Messages ==
  ASSUME NEW type \in About, NEW q \in Request
  PROVE  M(type, q).type = type /\ M(type, q).q = q
BY DEF M

LEMMA Replies ==
  ASSUME NEW q \in Request, NEW t \in About, NEW type \in About,
         Reply(M(t, q), type)
  PROVE  \A m \in net' : m = M(type, q) \/ (m \in net /\ m # M(t, q))
<1>1. M(t, q).q = q
  BY Messages
<1>2. net' = (net \ {M(t, q)})
              \cup (IF client[q] \in {"asked", "confirming"} THEN {M(type, q)} ELSE {})
  BY <1>1 DEF Reply
<1>3. CASE client[q] \in {"asked", "confirming"}
  BY <1>1, <1>2, <1>3
<1>4. CASE client[q] \notin {"asked", "confirming"}
  BY <1>1, <1>2, <1>4
<1>. QED
  BY <1>3, <1>4

LEMMA Stores ==
  ASSUME NEW d \in Device, NEW e \in Device, NEW q \in Request,
         peers \in [Device -> [Device -> Request \cup {None}]], Store(d, e, q)
  PROVE  /\ peers' \in [Device -> [Device -> Request \cup {None}]]
         /\ \A x, y \in Device : peers'[x][y] = IF x = d /\ y = e THEN q ELSE peers[x][y]
<1>1. peers' = [peers EXCEPT ![d] = [peers[d] EXCEPT ![e] = q]]
  BY DEF Store
<1>2. [peers[d] EXCEPT ![e] = q] \in [Device -> Request \cup {None}]
  OBVIOUS
<1>. QED
  BY <1>1, <1>2

\* the responder stores
LEMMA StoredHeld ==
  ASSUME Held, NEW q \in Request, via[q] = "invite" => client[q] = "done",
         peers \in [Device -> [Device -> Request \cup {None}]],
         server \in [Request -> {"none", "pending", "staged", "stored", "refused", "shown"}],
         UNCHANGED <<via, client>>, server' = [server EXCEPT ![q] = "stored"],
         Store(To[q], From[q], q)
  PROVE  Held'
<1>1. \A x, y \in Device : peers'[x][y] = IF x = To[q] /\ y = From[q] THEN q ELSE peers[x][y]
  BY Two, Stores
<1>2. ASSUME NEW p \in Request, peers'[To[p]][From[p]] = p
      PROVE  server'[p] = "stored" /\ (via[p] = "invite" => client[p] = "done")
  <2>1. p = q \/ peers[To[p]][From[p]] = p
    BY Two, <1>1, <1>2
  <2>. QED
    BY <2>1 DEF Held
<1>3. ASSUME NEW p \in Request, peers'[From[p]][To[p]] = p
      PROVE  via[p] = "invite" \/ server'[p] = "stored"
  <2>1. p = q \/ peers[From[p]][To[p]] = p
    BY Two, <1>1, <1>3
  <2>. QED
    BY <2>1 DEF Held
<1>. QED
  BY <1>2, <1>3 DEF Held

LEMMA UsesCode ==
  ASSUME Inv, NEW q \in Request, via[q] \in {"tap", "invite"}, code[To[q]][via[q]] = q,
         UseCode(q), via' = via
  PROVE  /\ server' = [server EXCEPT ![q] = "stored"] /\ Store(To[q], From[q], q)
         /\ code' \in [Device -> [{"tap", "invite"} -> Request \cup {None}]]
         /\ server[q] = "shown" /\ Codes'
<1>0. /\ code \in [Device -> [{"tap", "invite"} -> Request \cup {None}]] /\ Codes
      /\ server \in [Request -> {"none", "pending", "staged", "stored", "refused", "shown"}]
  BY DEF Inv, Types
<1>. DEFINE d == To[q]
            way == via[q]
<1>1. d \in Device /\ way \in {"tap", "invite"}
  BY Two
<1>2. /\ server' = [server EXCEPT ![q] = "stored"]
      /\ code' = [code EXCEPT ![d] = [code[d] EXCEPT ![way] = None]]
      /\ Store(To[q], From[q], q)
  BY DEF UseCode
<1>3. server[q] = "shown"
  BY <1>0, <1>1 DEF Codes
<1>. HIDE DEF d, way
<1>4. [code[d] EXCEPT ![way] = None] \in [{"tap", "invite"} -> Request \cup {None}]
  BY <1>0, <1>1
<1>5. code' \in [Device -> [{"tap", "invite"} -> Request \cup {None}]]
  BY <1>0, <1>1, <1>2, <1>4
<1>6. ASSUME NEW x \in Device, NEW w \in {"tap", "invite"}, NEW p \in Request, code'[x][w] = p
      PROVE  via[p] = w /\ To[p] = x /\ server'[p] = "shown"
  <2>1. p # None
    BY PairingAssumption
  <2>2. ~(x = d /\ w = way) /\ code[x][w] = p
    BY <1>0, <1>1, <1>2, <1>4, <1>6, <2>1
  <2>3. via[p] = w /\ To[p] = x /\ server[p] = "shown"
    BY <1>0, <2>2 DEF Codes
  <2>4. p # q
    BY <2>2, <2>3 DEF d, way
  <2>. QED
    BY <1>0, <1>2, <2>3, <2>4
<1>. QED
  BY <1>2, <1>3, <1>5, <1>6 DEF Codes

LEMMA AskInv ==
  ASSUME Inv, NEW q \in Request, Ask(q)
  PROVE  Inv'
<1>1. Types'
  BY Two DEF Inv, Types, Ask
<1>2. Net'
  BY Two DEF Inv, Types, Net, True, About, Ends, Codes, Ask, M
<1>3. Ends'
  BY Two DEF Inv, Types, Net, True, About, Ends, Codes, Ask, M
<1>4. Codes'
  <2>1. \A p \in Request : server[p] = "shown" => server'[p] = "shown"
    BY DEF Inv, Types, Ends, Ask
  <2>2. via' = via /\ \A x \in Device, w \in {"tap", "invite"} : code'[x][w] \in {code[x][w], None}
    BY DEF Ask
  <2>. QED
    BY <2>1, <2>2, CodesStay DEF Inv
<1>5. Held'
  BY Two, PairingAssumption DEF Inv, Types, Net, True, About, Codes, Held, Ask, M
<1>. QED
  BY <1>1, <1>2, <1>3, <1>4, <1>5 DEF Inv

LEMMA AdmitInv ==
  ASSUME Inv, NEW q \in Request, Admit(q)
  PROVE  Inv'
<1>1. Types'
  <2>1. server' \in [Request -> {"none", "pending", "staged", "stored", "refused", "shown"}]
    BY DEF Inv, Types, Admit
  <2>. QED
    BY <2>1 DEF Inv, Types, Admit
<1>2. Net'
  <2>. SUFFICES ASSUME NEW type \in About, NEW p \in Request, M(type, p) \in net'
                PROVE  True(type, p)'
    BY DEF Net
  <2>1. server[q] = "none"
    BY Messages DEF Inv, Net, True, Admit, About
  <2>2. \A x \in Request : server[x] = "stored" => server'[x] = "stored"
    BY <2>1 DEF Admit, Stale, PendingAt, StagedAt
  <2>3. \A x \in Request : server[x] = "none" => x = q \/ server'[x] = "none"
    BY DEF Admit, Stale, PendingAt, StagedAt
  <2>4. via' = via /\ client' = client
    BY DEF Admit
  <2>5. CASE M(type, p) \in net /\ M(type, p) # M("request", q)
    <3>1. True(type, p) /\ ~(type = "request" /\ p = q)
      BY <2>5 DEF Inv, Net
    <3>. QED
      BY <2>2, <2>3, <2>4, <3>1 DEF True
  <2>6. CASE \E x \in Stale(q) : M(type, p) = M("rejected", x)
    <3>1. PICK x \in Stale(q) : M(type, p) = M("rejected", x)
      BY <2>6
    <3>2. type = "rejected" /\ p = x
      BY <3>1 DEF M
    <3>3. via[p] = "pin"
      BY <3>2 DEF Inv, Ends, Stale, PendingAt
    <3>. QED
      BY <2>4, <3>2, <3>3 DEF True
  <2>. QED
    BY <2>5, <2>6 DEF Admit
<1>3. Ends'
  BY Two DEF Inv, Types, Net, True, About, Ends, Codes, Admit, Stale, PendingAt, StagedAt, M
<1>4. Codes'
  <2>1. server[q] = "none"
    BY Messages DEF Inv, Net, True, Admit, About
  <2>2. \A p \in Request : server[p] = "shown" => server'[p] = "shown"
    BY <2>1 DEF Inv, Types, Admit, Stale, PendingAt, StagedAt
  <2>3. code' = code /\ via' = via
    BY DEF Admit
  <2>. QED
    BY <2>2, <2>3, CodesStay DEF Inv
<1>5. Held'
  BY Two, PairingAssumption DEF Inv, Types, Net, True, About, Codes, Held, Admit, Stale, PendingAt, StagedAt, M
<1>. QED
  BY <1>1, <1>2, <1>3, <1>4, <1>5 DEF Inv

LEMMA RefuseInv ==
  ASSUME Inv, NEW q \in Request, Refuse(q)
  PROVE  Inv'
<1>1. Types'
  BY DEF Inv, Types, Refuse
<1>2. Net'
  BY Two DEF Inv, Types, Net, True, About, Ends, Codes, Refuse, Reply, M
<1>3. Ends'
  BY Two DEF Inv, Types, Net, True, About, Ends, Codes, Refuse, Reply, M
<1>4. Codes'
  <2>1. server[q] = "none"
    BY Messages DEF Inv, Net, True, Refuse, About
  <2>2. \A p \in Request : server[p] = "shown" => server'[p] = "shown"
    BY <2>1 DEF Inv, Types, Refuse
  <2>3. code' = code /\ via' = via
    BY DEF Refuse
  <2>. QED
    BY <2>2, <2>3, CodesStay DEF Inv
<1>5. Held'
  BY Two, PairingAssumption DEF Inv, Types, Net, True, About, Codes, Held, Refuse, Reply, M
<1>. QED
  BY <1>1, <1>2, <1>3, <1>4, <1>5 DEF Inv

LEMMA HandleCancelInv ==
  ASSUME Inv, NEW q \in Request, HandleCancel(q)
  PROVE  Inv'
<1>1. Types'
  BY Two DEF Inv, Types, HandleCancel
<1>2. Net'
  BY Two DEF Inv, Types, Net, True, About, Ends, Codes, HandleCancel, M
<1>3. Ends'
  BY Two DEF Inv, Types, Net, True, About, Ends, Codes, HandleCancel, M
<1>4. Codes'
  <2>1. \A p \in Request : server[p] = "shown" => server'[p] = "shown"
    BY DEF Inv, Types, Ends, HandleCancel
  <2>2. via' = via /\ \A x \in Device, w \in {"tap", "invite"} : code'[x][w] \in {code[x][w], None}
    BY DEF HandleCancel
  <2>. QED
    BY <2>1, <2>2, CodesStay DEF Inv
<1>5. Held'
  BY Two, PairingAssumption DEF Inv, Types, Net, True, About, Codes, Held, HandleCancel, M
<1>. QED
  BY <1>1, <1>2, <1>3, <1>4, <1>5 DEF Inv

LEMMA HandleAcceptedInv ==
  ASSUME Inv, NEW q \in Request, HandleAccepted(q)
  PROVE  Inv'
<1>1. Types'
  BY Two DEF Inv, Types, HandleAccepted
<1>2. Net'
  BY Two DEF Inv, Types, Net, True, About, Ends, Codes, HandleAccepted, M
<1>3. Ends'
  BY Two DEF Inv, Types, Net, True, About, Ends, Codes, HandleAccepted, M
<1>4. Codes'
  <2>1. \A p \in Request : server[p] = "shown" => server'[p] = "shown"
    BY DEF Inv, Types, Ends, HandleAccepted
  <2>2. via' = via /\ \A x \in Device, w \in {"tap", "invite"} : code'[x][w] \in {code[x][w], None}
    BY DEF HandleAccepted
  <2>. QED
    BY <2>1, <2>2, CodesStay DEF Inv
<1>5. Held'
  BY Two, PairingAssumption DEF Inv, Types, Net, True, About, Codes, Held, HandleAccepted, M
<1>. QED
  BY <1>1, <1>2, <1>3, <1>4, <1>5 DEF Inv

LEMMA HandleRejectedInv ==
  ASSUME Inv, NEW q \in Request, HandleRejected(q)
  PROVE  Inv'
<1>1. Types'
  BY Two DEF Inv, Types, HandleRejected, Return
<1>2. Net'
  BY Two DEF Inv, Types, Net, True, About, Ends, Codes, HandleRejected, Return, M
<1>3. Ends'
  BY Two DEF Inv, Types, Net, True, About, Ends, Codes, HandleRejected, Return, M
<1>4. Codes'
  <2>1. \A p \in Request : server[p] = "shown" => server'[p] = "shown"
    BY DEF Inv, Types, Ends, HandleRejected, Return
  <2>2. via' = via /\ \A x \in Device, w \in {"tap", "invite"} : code'[x][w] \in {code[x][w], None}
    BY DEF HandleRejected
  <2>. QED
    BY <2>1, <2>2, CodesStay DEF Inv
<1>5. Held'
  BY Two, PairingAssumption DEF Inv, Types, Net, True, About, Codes, Held, HandleRejected, Return, M
<1>. QED
  BY <1>1, <1>2, <1>3, <1>4, <1>5 DEF Inv

LEMMA HandleConfirmInv ==
  ASSUME Inv, NEW q \in Request, HandleConfirm(q)
  PROVE  Inv'
<1>1. Types'
  <2>1. peers' \in [Device -> [Device -> Request \cup {None}]]
    BY Two, Stores DEF Inv, Types, HandleConfirm
  <2>2. server' \in [Request -> {"none", "pending", "staged", "stored", "refused", "shown"}]
    BY DEF Inv, Types, HandleConfirm
  <2>. QED
    BY <2>1, <2>2 DEF Inv, Types, HandleConfirm
<1>2. Net'
  BY Two DEF Inv, Types, Net, True, About, Ends, Codes, HandleConfirm, Reply, Store, M
<1>3. Ends'
  BY Two DEF Inv, Types, Net, True, About, Ends, Codes, HandleConfirm, Reply, Store, M
<1>4. Codes'
  <2>1. \A p \in Request : server[p] = "shown" => server'[p] = "shown"
    BY DEF Inv, Types, HandleConfirm
  <2>2. code' = code /\ via' = via
    BY DEF HandleConfirm
  <2>. QED
    BY <2>1, <2>2, CodesStay DEF Inv
<1>5. Held'
  <2>1. via' = via /\ client' = client
    BY DEF HandleConfirm
  <2>2. CASE server[q] = "staged"
    <3>1. server' = [server EXCEPT ![q] = "stored"] /\ Store(To[q], From[q], q)
      BY <2>2 DEF HandleConfirm
    <3>2. via[q] = "pin"
      BY <2>2 DEF Inv, Ends
    <3>. QED
      BY <2>1, <3>1, <3>2, StoredHeld DEF Inv, Types
  <2>3. CASE server[q] # "staged"
    BY <2>1, <2>3 DEF Inv, Held, HandleConfirm
  <2>. QED
    BY <2>2, <2>3
<1>. QED
  BY <1>1, <1>2, <1>3, <1>4, <1>5 DEF Inv

LEMMA HandleConfirmedInv ==
  ASSUME Inv, NEW q \in Request, HandleConfirmed(q)
  PROVE  Inv'
<1>1. Types'
  BY Two DEF Inv, Types, HandleConfirmed, Store
<1>2. Net'
  BY Two DEF Inv, Types, Net, True, About, Ends, Codes, HandleConfirmed, Store, M
<1>3. Ends'
  BY Two DEF Inv, Types, Net, True, About, Ends, Codes, HandleConfirmed, Store, M
<1>4. Codes'
  <2>1. \A p \in Request : server[p] = "shown" => server'[p] = "shown"
    BY DEF Inv, Types, Ends, HandleConfirmed, Store
  <2>2. via' = via /\ \A x \in Device, w \in {"tap", "invite"} : code'[x][w] \in {code[x][w], None}
    BY DEF HandleConfirmed
  <2>. QED
    BY <2>1, <2>2, CodesStay DEF Inv
<1>5. Held'
  BY Two, PairingAssumption DEF Inv, Types, Net, True, About, Codes, Held, HandleConfirmed, Store, M
<1>. QED
  BY <1>1, <1>2, <1>3, <1>4, <1>5 DEF Inv

LEMMA FinishInv ==
  ASSUME Inv, NEW q \in Request, Finish(q)
  PROVE  Inv'
<1>1. Types'
  BY Two DEF Inv, Types, Finish, Return, UnpairCalls, UnpairCall
<1>2. Net'
  BY Two DEF Inv, Types, Net, True, About, Ends, Codes, Finish, Return, UnpairCalls, UnpairCall, M
<1>3. Ends'
  BY Two DEF Inv, Types, Net, True, About, Ends, Codes, Finish, Return, UnpairCalls, UnpairCall, M
<1>4. Codes'
  <2>1. \A p \in Request : server[p] = "shown" => server'[p] = "shown"
    BY DEF Inv, Types, Ends, Finish, Return, UnpairCalls, UnpairCall
  <2>2. via' = via /\ \A x \in Device, w \in {"tap", "invite"} : code'[x][w] \in {code[x][w], None}
    BY DEF Finish
  <2>. QED
    BY <2>1, <2>2, CodesStay DEF Inv
<1>5. Held'
  BY Two, PairingAssumption DEF Inv, Types, Net, True, About, Codes, Held, Finish, Return, UnpairCalls, UnpairCall, M
<1>. QED
  BY <1>1, <1>2, <1>3, <1>4, <1>5 DEF Inv

LEMMA CancelInv ==
  ASSUME Inv, NEW q \in Request, Cancel(q)
  PROVE  Inv'
<1>1. Types'
  BY Two DEF Inv, Types, Cancel
<1>2. Net'
  BY Two DEF Inv, Types, Net, True, About, Ends, Codes, Cancel, M
<1>3. Ends'
  BY Two DEF Inv, Types, Net, True, About, Ends, Codes, Cancel, M
<1>4. Codes'
  <2>1. \A p \in Request : server[p] = "shown" => server'[p] = "shown"
    BY DEF Inv, Types, Ends, Cancel
  <2>2. via' = via /\ \A x \in Device, w \in {"tap", "invite"} : code'[x][w] \in {code[x][w], None}
    BY DEF Cancel
  <2>. QED
    BY <2>1, <2>2, CodesStay DEF Inv
<1>5. Held'
  BY Two, PairingAssumption DEF Inv, Types, Net, True, About, Codes, Held, Cancel, M
<1>. QED
  BY <1>1, <1>2, <1>3, <1>4, <1>5 DEF Inv

LEMMA ScanInv ==
  ASSUME Inv, NEW q \in Request, Scan(q)
  PROVE  Inv'
<1>1. Types'
  BY Two DEF Inv, Types, Scan
<1>2. Net'
  BY Two DEF Inv, Types, Net, True, About, Ends, Codes, Scan, M
<1>3. Ends'
  BY Two DEF Inv, Types, Net, True, About, Ends, Codes, Scan, M
<1>4. Codes'
  <2>1. \A p \in Request : server[p] = "shown" => server'[p] = "shown"
    BY DEF Inv, Types, Ends, Scan
  <2>2. via' = via /\ \A x \in Device, w \in {"tap", "invite"} : code'[x][w] \in {code[x][w], None}
    BY DEF Scan
  <2>. QED
    BY <2>1, <2>2, CodesStay DEF Inv
<1>5. Held'
  BY Two, PairingAssumption DEF Inv, Types, Net, True, About, Codes, Held, Scan, M
<1>. QED
  BY <1>1, <1>2, <1>3, <1>4, <1>5 DEF Inv

LEMMA JoinInv ==
  ASSUME Inv, NEW q \in Request, Join(q)
  PROVE  Inv'
<1>1. Types'
  BY Two DEF Inv, Types, Join, Store
<1>2. Net'
  BY Two DEF Inv, Types, Net, True, About, Ends, Codes, Join, Store, M
<1>3. Ends'
  BY Two DEF Inv, Types, Net, True, About, Ends, Codes, Join, Store, M
<1>4. Codes'
  <2>1. \A p \in Request : server[p] = "shown" => server'[p] = "shown"
    BY DEF Inv, Types, Ends, Join, Store
  <2>2. via' = via /\ \A x \in Device, w \in {"tap", "invite"} : code'[x][w] \in {code[x][w], None}
    BY DEF Join
  <2>. QED
    BY <2>1, <2>2, CodesStay DEF Inv
<1>5. Held'
  BY Two, PairingAssumption DEF Inv, Types, Net, True, About, Codes, Held, Join, Store, M
<1>. QED
  BY <1>1, <1>2, <1>3, <1>4, <1>5 DEF Inv

LEMMA CallFailsInv ==
  ASSUME Inv, NEW q \in Request, CallFails(q)
  PROVE  Inv'
<1>1. Types'
  BY Two DEF Inv, Types, CallFails, Return, CallTypes, Fault
<1>2. Net'
  BY Two DEF Inv, Types, Net, True, About, Ends, Codes, CallFails, Return, CallTypes, Fault, M
<1>3. Ends'
  BY Two DEF Inv, Types, Net, True, About, Ends, Codes, CallFails, Return, CallTypes, Fault, M
<1>4. Codes'
  <2>1. \A p \in Request : server[p] = "shown" => server'[p] = "shown"
    BY DEF Inv, Types, Ends, CallFails, Return, CallTypes, Fault
  <2>2. via' = via /\ \A x \in Device, w \in {"tap", "invite"} : code'[x][w] \in {code[x][w], None}
    BY DEF CallFails
  <2>. QED
    BY <2>1, <2>2, CodesStay DEF Inv
<1>5. Held'
  BY Two, PairingAssumption DEF Inv, Types, Net, True, About, Codes, Held, CallFails, Return, CallTypes, Fault, M
<1>. QED
  BY <1>1, <1>2, <1>3, <1>4, <1>5 DEF Inv

LEMMA CancelLostInv ==
  ASSUME Inv, NEW q \in Request, CancelLost(q)
  PROVE  Inv'
<1>1. Types'
  BY Two DEF Inv, Types, CancelLost
<1>2. Net'
  BY Two DEF Inv, Types, Net, True, About, Ends, Codes, CancelLost, M
<1>3. Ends'
  BY Two DEF Inv, Types, Net, True, About, Ends, Codes, CancelLost, M
<1>4. Codes'
  <2>1. \A p \in Request : server[p] = "shown" => server'[p] = "shown"
    BY DEF Inv, Types, Ends, CancelLost
  <2>2. via' = via /\ \A x \in Device, w \in {"tap", "invite"} : code'[x][w] \in {code[x][w], None}
    BY DEF CancelLost
  <2>. QED
    BY <2>1, <2>2, CodesStay DEF Inv
<1>5. Held'
  BY Two, PairingAssumption DEF Inv, Types, Net, True, About, Codes, Held, CancelLost, M
<1>. QED
  BY <1>1, <1>2, <1>3, <1>4, <1>5 DEF Inv

LEMMA RespondInv ==
  ASSUME Inv, NEW q \in Request, NEW accept \in BOOLEAN, Respond(q, accept)
  PROVE  Inv'
<1>1. Types'
  BY Two DEF Inv, Types, Respond, Reply
<1>2. Net'
  BY Two DEF Inv, Types, Net, True, About, Ends, Codes, Respond, Reply, M
<1>3. Ends'
  BY Two DEF Inv, Types, Net, True, About, Ends, Codes, Respond, Reply, M
<1>4. Codes'
  <2>1. \A p \in Request : server[p] = "shown" => server'[p] = "shown"
    BY DEF Inv, Types, Ends, Respond, Reply
  <2>2. via' = via /\ \A x \in Device, w \in {"tap", "invite"} : code'[x][w] \in {code[x][w], None}
    BY DEF Respond
  <2>. QED
    BY <2>1, <2>2, CodesStay DEF Inv
<1>5. Held'
  BY Two, PairingAssumption DEF Inv, Types, Net, True, About, Codes, Held, Respond, Reply, M
<1>. QED
  BY <1>1, <1>2, <1>3, <1>4, <1>5 DEF Inv

LEMMA ForgetCodeInv ==
  ASSUME Inv, NEW d \in Device, NEW way \in {"tap", "invite"}, ForgetCode(d, way)
  PROVE  Inv'
<1>1. Types'
  BY Two DEF Inv, Types, ForgetCode
<1>2. Net'
  BY Two DEF Inv, Types, Net, True, About, Ends, Codes, ForgetCode, M
<1>3. Ends'
  BY Two DEF Inv, Types, Net, True, About, Ends, Codes, ForgetCode, M
<1>4. Codes'
  <2>1. \A p \in Request : server[p] = "shown" => server'[p] = "shown"
    BY DEF Inv, Types, Ends, ForgetCode
  <2>2. via' = via /\ \A x \in Device, w \in {"tap", "invite"} : code'[x][w] \in {code[x][w], None}
    BY DEF ForgetCode
  <2>. QED
    BY <2>1, <2>2, CodesStay DEF Inv
<1>5. Held'
  BY Two, PairingAssumption DEF Inv, Types, Net, True, About, Codes, Held, ForgetCode, M
<1>. QED
  BY <1>1, <1>2, <1>3, <1>4, <1>5 DEF Inv

LEMMA ShowCodeInv ==
  ASSUME Inv, NEW q \in Request, ShowCode(q)
  PROVE  Inv'
<1>. DEFINE d == To[q]
            way == via[q]
<1>0. /\ via \in [Request -> {"pin", "tap", "invite"}] /\ Codes
      /\ code \in [Device -> [{"tap", "invite"} -> Request \cup {None}]]
      /\ server \in [Request -> {"none", "pending", "staged", "stored", "refused", "shown"}]
  BY DEF Inv, Types
<1>1. /\ via[q] # "pin" /\ server[q] = "none" /\ server' = [server EXCEPT ![q] = "shown"]
      /\ code' = [code EXCEPT ![d] = [code[d] EXCEPT ![way] = q]]
      /\ UNCHANGED <<via, peers, client, net>>
  BY DEF ShowCode
<1>2. d \in Device /\ way \in {"tap", "invite"}
  BY <1>0, <1>1, Two
<1>3. \A x \in Device, w \in {"tap", "invite"} :
        code'[x][w] = IF x = d /\ w = way THEN q ELSE code[x][w]
  BY <1>0, <1>1, <1>2
<1>4. code' \in [Device -> [{"tap", "invite"} -> Request \cup {None}]]
  <2>1. [code[d] EXCEPT ![way] = q] \in [{"tap", "invite"} -> Request \cup {None}]
    BY <1>0, <1>2
  <2>. QED
    BY <1>0, <1>1, <1>2, <2>1
<1>5. Types'
  BY <1>1, <1>4 DEF Inv, Types
<1>6. Net' /\ Ends' /\ Held'
  BY <1>0, <1>1 DEF Inv, Net, True, Ends, Held
<1>7. Codes'
  <2>. SUFFICES ASSUME NEW x \in Device, NEW w \in {"tap", "invite"}, NEW p \in Request,
                       code'[x][w] = p
                PROVE  via[p] = w /\ To[p] = x /\ server'[p] = "shown"
    BY <1>1 DEF Codes
  <2>1. CASE x = d /\ w = way
    BY <1>0, <1>1, <1>3, <2>1
  <2>2. CASE ~(x = d /\ w = way)
    <3>1. code[x][w] = p
      BY <1>3, <2>2
    <3>. QED
      BY <1>0, <1>1, <3>1 DEF Codes
  <2>. QED
    BY <2>1, <2>2
<1>. QED
  BY <1>5, <1>6, <1>7 DEF Inv

\* A code is used: the rest of a tap that is accepted, and of an answer.
LEMMA UsesCodeInv ==
  ASSUME Inv, NEW q \in Request, via[q] \in {"tap", "invite"}, code[To[q]][via[q]] = q,
         via[q] = "invite" => client[q] = "done",
         UseCode(q), UNCHANGED <<via, client>>,
         \A type \in About, p \in Request : M(type, p) \in net' =>
           M(type, p) \in net \/ (type = "confirmed" /\ p = q /\ via[q] = "tap")
  PROVE  Inv'
<1>0. /\ server \in [Request -> {"none", "pending", "staged", "stored", "refused", "shown"}]
      /\ peers \in [Device -> [Device -> Request \cup {None}]]
  BY DEF Inv, Types
<1>1. /\ server' = [server EXCEPT ![q] = "stored"] /\ Store(To[q], From[q], q)
      /\ code' \in [Device -> [{"tap", "invite"} -> Request \cup {None}]]
      /\ server[q] = "shown" /\ Codes'
  BY UsesCode
<1>2. peers' \in [Device -> [Device -> Request \cup {None}]]
  BY <1>0, <1>1, Two, Stores
<1>3. Types'
  BY <1>0, <1>1, <1>2 DEF Inv, Types
<1>4. Net'
  BY <1>0, <1>1 DEF Inv, Net, True
<1>5. Ends'
  BY <1>0, <1>1 DEF Inv, Ends
<1>6. Held'
  BY <1>0, <1>1, StoredHeld DEF Inv
<1>. QED
  BY <1>1, <1>3, <1>4, <1>5, <1>6 DEF Inv

LEMMA HandleTapInv ==
  ASSUME Inv, NEW q \in Request, HandleTap(q)
  PROVE  Inv'
<1>1. via[q] = "tap"
  BY DEF Inv, Net, True, About, HandleTap
<1>2. UNCHANGED <<via, client>>
  BY DEF HandleTap
<1>3. CASE code[To[q]]["tap"] = q
  <2>1. UseCode(q) /\ Reply(M("tap", q), "confirmed")
    BY <1>3 DEF HandleTap
  <2>2. \A m \in net' : m = M("confirmed", q) \/ (m \in net /\ m # M("tap", q))
    BY <2>1, Replies DEF About
  <2>3. ASSUME NEW type \in About, NEW p \in Request, M(type, p) \in net'
        PROVE  M(type, p) \in net \/ (type = "confirmed" /\ p = q /\ via[q] = "tap")
    BY <1>1, <2>2, <2>3 DEF M
  <2>. QED
    BY <1>1, <1>2, <1>3, <2>1, <2>3, UsesCodeInv
<1>4. CASE code[To[q]]["tap"] # q
  <2>1. Reply(M("tap", q), "rejected") /\ UNCHANGED <<peers, server, code>>
    BY <1>4 DEF HandleTap
  <2>2. \A m \in net' : m = M("rejected", q) \/ (m \in net /\ m # M("tap", q))
    BY <2>1, Replies DEF About
  <2>3. Net'
    BY <1>1, <1>2, <2>1, <2>2 DEF Inv, Net, True, M
  <2>. QED
    BY <1>2, <2>1, <2>3 DEF Inv, Types, Ends, Codes, Held
<1>. QED
  BY <1>3, <1>4

LEMMA HandleAnswerInv ==
  ASSUME Inv, NEW q \in Request, HandleAnswer(q)
  PROVE  Inv'
<1>1. via[q] = "invite" /\ client[q] = "done"
  BY DEF Inv, Net, True, About, HandleAnswer
<1>2. UNCHANGED <<via, client>> /\ net' \subseteq net
  BY DEF HandleAnswer
<1>3. CASE code[To[q]]["invite"] = q
  <2>1. UseCode(q)
    BY <1>3 DEF HandleAnswer
  <2>. QED
    BY <1>1, <1>2, <1>3, <2>1, UsesCodeInv
<1>4. CASE code[To[q]]["invite"] # q
  <2>1. UNCHANGED <<peers, server, code>>
    BY <1>4 DEF HandleAnswer
  <2>. QED
    BY <1>2, <2>1 DEF Inv, Types, Net, True, Ends, Codes, Held
<1>. QED
  BY <1>3, <1>4

LEMMA RestartInv ==
  ASSUME Inv, NEW d \in Device, Restart(d)
  PROVE  Inv'
<1>. DEFINE hit == {q \in Request :
                      \/ From[q] = d /\ client[q] \in {"asked", "confirming", "closing"}
                      \/ To[q] = d /\ client[q] \in {"asked", "confirming"}}
<1>0. Types /\ Net /\ Ends /\ Codes /\ Held
  BY DEF Inv
<1>1. client' = [q \in Request |-> IF q \in hit THEN "failed" ELSE client[q]]
  BY DEF Restart
<1>2. server' = [q \in Request |->
                   IF To[q] = d /\ server[q] \in {"pending", "staged"} THEN "refused" ELSE server[q]]
  BY DEF Restart
<1>3. code' = [code EXCEPT ![d] = [way \in DOMAIN @ |-> None]] /\ UNCHANGED <<via, peers>>
  BY DEF Restart
<1>4. \A m \in net' : m \in net \/ m.type = "unpaired"
  BY DEF Restart, Unpaired
<1>5. code' \in [Device -> [{"tap", "invite"} -> Request \cup {None}]]
  BY <1>0, <1>3 DEF Types
<1>6. \A x \in Device, w \in {"tap", "invite"} : code'[x][w] \in {code[x][w], None}
  BY <1>0, <1>3 DEF Types
<1>7. Types'
  BY <1>0, <1>1, <1>2, <1>3, <1>5 DEF Types
<1>8. Net'
  <2>. SUFFICES ASSUME NEW type \in About, NEW q \in Request, M(type, q) \in net'
                PROVE  True(type, q)'
    BY DEF Net
  <2>1. M(type, q) \in net
    BY <1>4, Messages DEF About
  <2>2. True(type, q)
    BY <1>0, <2>1 DEF Net
  <2>. QED
    BY <1>1, <1>2, <1>3, <2>2 DEF True
<1>9. Ends'
  BY <1>0, <1>1, <1>2, <1>3 DEF Ends
<1>10. Codes'
  BY <1>0, <1>2, <1>3, <1>6, CodesStay
<1>11. Held'
  BY <1>0, <1>1, <1>2, <1>3 DEF Held
<1>. QED
  BY <1>7, <1>8, <1>9, <1>10, <1>11 DEF Inv

LEMMA WipeKeeps ==
  ASSUME Inv, NEW d, NEW e, NEW owe \in BOOLEAN, NEW messages,
         Wipe(d, e, owe, messages), UNCHANGED <<via, client, server, code>>,
         \A m \in messages : m \in net \/ m.type \notin About
  PROVE  Inv'
<1>0. peers \in [Device -> [Device -> Request \cup {None}]]
  BY DEF Inv, Types
<1>1. peers' = [peers EXCEPT ![d] = [peers[d] EXCEPT ![e] = None]] /\ net' \subseteq messages
  BY DEF Wipe
<1>2. d \in Device => [peers[d] EXCEPT ![e] = None] \in [Device -> Request \cup {None}]
  BY <1>0
<1>3. peers' \in [Device -> [Device -> Request \cup {None}]]
  BY <1>0, <1>1, <1>2
<1>4. \A x, y \in Device : peers'[x][y] \in {peers[x][y], None}
  BY <1>0, <1>1, <1>2
<1>. QED
  BY <1>1, <1>3, <1>4, UnpairingKeeps

\* Without a row that goes: only notices and calls of an unpairing are sent.
LEMMA SendingKeeps ==
  ASSUME Inv, UNCHANGED <<via, client, server, code, peers>>,
         \A m \in net' : m \in net \/ m.type \notin About
  PROVE  Inv'
<1>1. peers \in [Device -> [Device -> Request \cup {None}]]
  BY DEF Inv, Types
<1>. QED
  BY <1>1, UnpairingKeeps

LEMMA HandleUnpairInv ==
  ASSUME Inv, NEW m \in net, HandleUnpair(m)
  PROVE  Inv'
<1>. DEFINE ok == peers[m.to][m.from] = m.t
            answered == (net \ {m}) \cup {Unpaired(m.from, m.to, ok)}
<1>1. UNCHANGED <<via, client, server, code>>
  BY DEF HandleUnpair
<1>2. \A x \in answered : x \in net \/ x.type \notin About
  BY DEF Unpaired, About
<1>3. \/ Wipe(m.to, m.from, FALSE, answered)
      \/ net' = answered /\ UNCHANGED <<peers, notice>>
  BY DEF HandleUnpair
<1>. HIDE DEF answered
<1>4. CASE Wipe(m.to, m.from, FALSE, answered)
  BY <1>1, <1>2, <1>4, WipeKeeps
<1>5. CASE net' = answered /\ UNCHANGED <<peers, notice>>
  BY <1>1, <1>2, <1>5, SendingKeeps
<1>. QED
  BY <1>3, <1>4, <1>5

LEMMA HandleUnpairedInv ==
  ASSUME Inv, NEW m \in net, HandleUnpaired(m)
  PROVE  Inv'
<1>1. Wipe(m.from, m.to, ~m.ok, net \ {m}) /\ UNCHANGED <<via, client, server, code>>
  BY DEF HandleUnpaired
<1>2. (~m.ok) \in BOOLEAN
  OBVIOUS
<1>. QED
  BY <1>1, <1>2, WipeKeeps

LEMMA HandleNoticeInv ==
  ASSUME Inv, NEW m \in net, HandleNotice(m)
  PROVE  Inv'
<1>1. UNCHANGED <<via, client, server, code>>
  BY DEF HandleNotice
<1>2. \/ Wipe(m.to, m.from, FALSE, net \ {m})
      \/ net' = net \ {m} /\ UNCHANGED <<peers, notice>>
  BY DEF HandleNotice
<1>3. CASE Wipe(m.to, m.from, FALSE, net \ {m})
  BY <1>1, <1>3, WipeKeeps
<1>4. CASE net' = net \ {m} /\ UNCHANGED <<peers, notice>>
  BY <1>1, <1>4, SendingKeeps
<1>. QED
  BY <1>2, <1>3, <1>4

LEMMA OtherUnpairingInv ==
  ASSUME Inv,
         \/ \E m \in net : UnpairFails(m) \/ NoticeLost(m)
         \/ \E d, e \in Device : Unpair(d, e) \/ Dial(d, e)
  PROVE  Inv'
<1>1. UNCHANGED <<via, client, server, code, peers>>
  BY DEF UnpairFails, NoticeLost, Unpair, Dial
<1>2. \A m \in net' : m \in net \/ m.type \notin About
  <2>1. CASE \E m \in net : UnpairFails(m) \/ NoticeLost(m)
    BY <2>1 DEF UnpairFails, NoticeLost, Unpaired, About
  <2>2. CASE \E d, e \in Device : Unpair(d, e)
    BY <2>2 DEF Unpair, UnpairCalls, UnpairCall, About
  <2>3. CASE \E d, e \in Device : Dial(d, e)
    BY <2>3 DEF Dial, About
  <2>. QED
    BY <2>1, <2>2, <2>3
<1>. QED
  BY <1>1, <1>2, SendingKeeps

LEMMA StepInv == Inv /\ [Next]_vars => Inv'
<1>. SUFFICES ASSUME Inv, [Next]_vars PROVE Inv'
  OBVIOUS
<1>1. ASSUME NEW q \in Request, Handle(q)
      PROVE  Inv'
  BY <1>1, AdmitInv, RefuseInv, HandleCancelInv, HandleAcceptedInv, HandleRejectedInv,
     HandleConfirmInv, HandleConfirmedInv, FinishInv, HandleTapInv, HandleAnswerInv DEF Handle
<1>2. ASSUME NEW q \in Request, User(q)
      PROVE  Inv'
  BY <1>2, AskInv, CancelInv, ShowCodeInv, ScanInv, JoinInv, RespondInv DEF User
<1>3. ASSUME NEW q \in Request, Timeout(q) \/ CallFails(q) \/ CancelLost(q)
      PROVE  Inv'
  BY <1>3, RespondInv, CallFailsInv, CancelLostInv DEF Timeout
<1>4. ASSUME NEW m \in net, HandleAny(m)
      PROVE  Inv'
  BY <1>4, HandleUnpairInv, HandleUnpairedInv, HandleNoticeInv DEF HandleAny
<1>5. CASE \E d \in Device : Restart(d) \/ \E way \in {"tap", "invite"} : ForgetCode(d, way)
  BY <1>5, RestartInv, ForgetCodeInv
<1>6. CASE UNCHANGED vars
  BY <1>6 DEF vars, Inv, Types, Net, True, Ends, Codes, Held
<1>. QED
  BY <1>1, <1>2, <1>3, <1>4, <1>5, <1>6, OtherUnpairingInv DEF Next

-----------------------------------------------------------------------------
\* Nobody stores a pairing before the end that has to be first, whatever is lost, cancelled
\* or started anew at the same time, by however many devices.
THEOREM FirstIsFirst == Spec => []FirstEndFirst
<1>1. Inv => FirstEndFirst
  BY DEF Inv, Held, FirstEndFirst
<1>. QED
  BY InitInv, StepInv, <1>1, PTL DEF Spec

\* What was refused stays so.
LEMMA RefusedStays ==
  ASSUME Inv, [Next]_vars, NEW q \in Request, server[q] = "refused"
  PROVE  server'[q] = "refused"
<1>0. Types /\ Net /\ Codes
  BY DEF Inv
<1>1. M("request", q) \notin net
  BY <1>0 DEF Net, True, About
<1>2. ASSUME NEW p \in Request, UseCode(p), code[To[p]][via[p]] = p, via[p] \in {"tap", "invite"}
      PROVE  server'[q] = "refused"
  <2>1. server[p] = "shown"
    BY <1>0, <1>2, Two DEF Codes
  <2>. QED
    BY <1>0, <1>2, <2>1 DEF UseCode, Types
<1>3. ASSUME NEW p \in Request, HandleTap(p)
      PROVE  server'[q] = "refused"
  <2>1. via[p] = "tap"
    BY <1>0, <1>3 DEF Net, True, About, HandleTap
  <2>2. UNCHANGED server \/ (UseCode(p) /\ code[To[p]]["tap"] = p)
    BY <1>3 DEF HandleTap
  <2>. QED
    BY <1>2, <2>1, <2>2
<1>4. ASSUME NEW p \in Request, HandleAnswer(p)
      PROVE  server'[q] = "refused"
  <2>1. via[p] = "invite"
    BY <1>0, <1>4 DEF Net, True, About, HandleAnswer
  <2>2. UNCHANGED server \/ (UseCode(p) /\ code[To[p]]["invite"] = p)
    BY <1>4 DEF HandleAnswer
  <2>. QED
    BY <1>2, <2>1, <2>2
<1>5. ASSUME NEW p \in Request, Admit(p)
      PROVE  server'[q] = "refused"
  BY <1>1, <1>5 DEF Admit
<1>6. ASSUME NEW p \in Request,
             Refuse(p) \/ HandleCancel(p) \/ HandleAccepted(p) \/ HandleRejected(p)
               \/ HandleConfirm(p) \/ HandleConfirmed(p) \/ Finish(p)
      PROVE  server'[q] = "refused"
  BY <1>0, <1>6 DEF Types, Refuse, HandleCancel, HandleAccepted, HandleRejected, HandleConfirm,
     HandleConfirmed, Finish
<1>7. ASSUME NEW p \in Request, User(p) \/ Timeout(p) \/ CallFails(p) \/ CancelLost(p)
      PROVE  server'[q] = "refused"
  BY <1>0, <1>7 DEF Types, User, Ask, Cancel, ShowCode, Scan, Join, Respond, Timeout, CallFails,
     CancelLost
<1>8. ASSUME NEW m \in net, HandleAny(m) \/ UnpairFails(m) \/ NoticeLost(m)
      PROVE  server'[q] = "refused"
  BY <1>8 DEF HandleAny, HandleUnpair, HandleUnpaired, HandleNotice, UnpairFails, NoticeLost
<1>9. CASE \E d, e \in Device : Unpair(d, e) \/ Dial(d, e)
  BY <1>9 DEF Unpair, Dial
<1>10. CASE \E d \in Device : Restart(d) \/ \E way \in {"tap", "invite"} : ForgetCode(d, way)
  <2>1. ASSUME NEW d \in Device, Restart(d)
        PROVE  \A p \in Request : server'[p] = server[p] \/ server'[p] = "refused"
    BY <1>0, <2>1 DEF Types, Restart
  <2>. QED
    BY <1>10, <2>1 DEF ForgetCode
<1>11. CASE UNCHANGED vars
  BY <1>11 DEF vars
<1>. QED
  BY <1>3, <1>4, <1>5, <1>6, <1>7, <1>8, <1>9, <1>10, <1>11 DEF Next, Handle

\* A request that was refused, kicked, timed out, swept or cancelled in time is never held
\* by either end, whatever is under way.
THEOREM RefusalIsFinal == Spec => RefusedIsFinal
<1>. DEFINE Final(q) == server[q] = "refused" =>
              /\ server'[q] = "refused"
              /\ peers'[To[q]][From[q]] # q /\ peers'[From[q]][To[q]] # q
<1>1. ASSUME Inv, [Next]_vars, NEW q \in Request
      PROVE  Final(q)
  <2>. SUFFICES ASSUME server[q] = "refused"
                PROVE  Final(q)
    OBVIOUS
  <2>1. server'[q] = "refused"
    BY <1>1, RefusedStays
  <2>2. Inv'
    BY <1>1, StepInv
  <2>3. via'[q] = "pin"
    BY <2>1, <2>2 DEF Inv, Ends
  <2>. QED
    BY <2>1, <2>2, <2>3 DEF Inv, Held
<1>2. Inv /\ [Next]_vars => \A q \in Request : Final(q)
  BY <1>1
<1>3. Inv /\ [Next]_vars => [\A q \in Request : Final(q)]_vars
  BY <1>2
<1>. QED
  BY InitInv, StepInv, <1>3, PTL DEF Spec, RefusedIsFinal

-----------------------------------------------------------------------------
(***************************************************************************)
(* The rest of the types, and the dialogs: requestPair asks the user about *)
(* no more than _maxPending requests, and about one of each device.        *)
(***************************************************************************)
Tables ==
  /\ notice \subseteq Device \X Device \X Request
  /\ outgoing \in [Device -> [Device -> Request \cup {None}]]
  /\ cutOff \subseteq cancelled /\ cancelled \subseteq Request
  /\ net \subseteq Message /\ faults \subseteq FaultKinds

Kinds == {"request", "accepted", "rejected", "confirm", "confirmed", "tap", "cancel", "answer"}

LEMMA MessageTypes ==
  /\ \A type \in Kinds, q \in Request : M(type, q) \in Message
  /\ \A d, e \in Device, t \in Request : UnpairCall(d, e, t) \in Message
  /\ \A d, e \in Device, t \in Request :
       [type |-> "notice", from |-> d, to |-> e, t |-> t] \in Message
  /\ \A d, e \in Device, ok \in BOOLEAN : Unpaired(d, e, ok) \in Message
BY DEF Kinds, M, UnpairCall, Unpaired, Message

\* what a message that is about no request names
LEMMA UnpairFields ==
  ASSUME NEW m \in Message, m.type \in {"unpair", "unpaired", "notice"}
  PROVE  /\ m.from \in Device /\ m.to \in Device
         /\ m.type # "unpaired" => m.t \in Request
         /\ m.type = "unpaired" => m.ok \in BOOLEAN
BY DEF Message

LEMMA OutgoingSet ==
  ASSUME NEW d \in Device, NEW e \in Device, NEW v \in Request \cup {None},
         outgoing \in [Device -> [Device -> Request \cup {None}]]
  PROVE  [outgoing EXCEPT ![d][e] = v] \in [Device -> [Device -> Request \cup {None}]]
OBVIOUS

LEMMA ReplyTypes ==
  ASSUME net \subseteq Message, NEW q \in Request, NEW t \in Kinds, NEW type \in Kinds,
         Reply(M(t, q), type)
  PROVE  net' \subseteq Message
<1>1. M(t, q).q = q /\ M(type, q) \in Message
  BY MessageTypes DEF M
<1>. QED
  BY <1>1 DEF Reply

LEMMA ReturnTypes ==
  ASSUME Tables, NEW q \in Request, NEW result, Return(q, result)
  PROVE  outgoing' \in [Device -> [Device -> Request \cup {None}]]
<1>1. CASE via[q] = "pin"
  <2>1. outgoing' = [outgoing EXCEPT ![From[q]][To[q]] = None]
    BY <1>1 DEF Return
  <2>. QED
    BY <2>1, OutgoingSet, Two DEF Tables
<1>2. CASE via[q] # "pin"
  <2>1. outgoing' = [outgoing EXCEPT ![From[q]][To[q]] = outgoing[From[q]][To[q]]]
    BY <1>2 DEF Return
  <2>2. outgoing[From[q]][To[q]] \in Request \cup {None}
    BY Two DEF Tables
  <2>. QED
    BY <2>1, <2>2, OutgoingSet, Two DEF Tables
<1>. QED
  BY <1>1, <1>2

LEMMA CallTables ==
  ASSUME Types, Tables, NEW q \in Request, Handle(q) \/ User(q)
  PROVE  Tables'
<1>1. UNCHANGED <<notice, faults>>
  BY DEF Handle, User, Admit, Refuse, HandleCancel, HandleAccepted, HandleRejected, HandleConfirm,
     HandleConfirmed, Finish, HandleTap, HandleAnswer, Ask, Cancel, ShowCode, Scan, Join, Respond
<1>2. net' \subseteq Message
  <2>1. CASE Admit(q)
    <3>1. \A p \in Stale(q) : M("rejected", p) \in Message
      BY MessageTypes DEF Kinds, Stale, PendingAt
    <3>2. ASSUME NEW m \in net'
          PROVE  m \in Message
      <4>1. m \in net \/ \E p \in Stale(q) : m = M("rejected", p)
        BY <2>1 DEF Admit
      <4>. QED
        BY <3>1, <4>1 DEF Tables
    <3>. QED
      BY <3>2
  <2>2. CASE Refuse(q) \/ \E accept \in BOOLEAN : Respond(q, accept)
    <3>1. \E type \in Kinds : Reply(M("request", q), type)
      BY <2>2 DEF Refuse, Respond, Kinds
    <3>. QED
      BY <3>1, ReplyTypes DEF Tables, Kinds
  <2>3. CASE HandleConfirm(q)
    <3>1. \E type \in Kinds : Reply(M("confirm", q), type)
      BY <2>3 DEF HandleConfirm, Kinds
    <3>. QED
      BY <3>1, ReplyTypes DEF Tables, Kinds
  <2>4. CASE HandleTap(q)
    <3>1. \E type \in Kinds : Reply(M("tap", q), type)
      BY <2>4 DEF HandleTap, Kinds
    <3>. QED
      BY <3>1, ReplyTypes DEF Tables, Kinds
  <2>5. CASE HandleCancel(q) \/ HandleAccepted(q) \/ Ask(q) \/ Scan(q) \/ Join(q)
    <3>1. \A type \in Kinds : M(type, q) \in Message
      BY MessageTypes
    <3>2. \A m \in net' : m \in net \/ \E type \in Kinds : m = M(type, q)
      BY <2>5 DEF HandleCancel, HandleAccepted, Ask, Scan, Join, Kinds
    <3>. QED
      BY <3>1, <3>2 DEF Tables
  <2>6. CASE HandleRejected(q) \/ HandleConfirmed(q) \/ ShowCode(q) \/ HandleAnswer(q)
    BY <2>6 DEF Tables, HandleRejected, HandleConfirmed, ShowCode, HandleAnswer
  <2>7. CASE Finish(q)
    <3>1. peers[From[q]][To[q]] \in Request \cup {None}
      BY Two DEF Types
    <3>2. UnpairCalls(From[q], To[q]) \subseteq Message
      BY <3>1, Two, MessageTypes DEF UnpairCalls
    <3>. QED
      BY <2>7, <3>2 DEF Tables, Finish
  <2>8. CASE Cancel(q)
    <3>1. outgoing[From[q]][To[q]] \in Request \cup {None}
      BY Two DEF Tables
    <3>2. outgoing[From[q]][To[q]] # None => M("cancel", outgoing[From[q]][To[q]]) \in Message
      BY <3>1, MessageTypes DEF Kinds
    <3>. QED
      BY <2>8, <3>2 DEF Tables, Cancel
  <2>. QED
    BY <2>1, <2>2, <2>3, <2>4, <2>5, <2>6, <2>7, <2>8 DEF Handle, User
<1>3. outgoing' \in [Device -> [Device -> Request \cup {None}]]
  <2>1. CASE Ask(q) \/ Cancel(q)
    <3>1. \E v \in Request \cup {None} : outgoing' = [outgoing EXCEPT ![From[q]][To[q]] = v]
      BY <2>1 DEF Ask, Cancel
    <3>. QED
      BY <3>1, OutgoingSet, Two DEF Tables
  <2>2. CASE HandleRejected(q) \/ Finish(q)
    <3>1. \E result : Return(q, result)
      BY <2>2 DEF HandleRejected, Finish
    <3>. QED
      BY <3>1, ReturnTypes
  <2>3. CASE ~(Ask(q) \/ Cancel(q) \/ HandleRejected(q) \/ Finish(q))
    BY <2>3 DEF Tables, Handle, User, Admit, Refuse, HandleCancel, HandleAccepted, HandleConfirm,
       HandleConfirmed, HandleTap, HandleAnswer, ShowCode, Scan, Join, Respond
  <2>. QED
    BY <2>1, <2>2, <2>3
<1>4. cancelled \subseteq cancelled' /\ cancelled' \subseteq cancelled \cup {q} /\ cutOff' = cutOff
  BY DEF Handle, User, Admit, Refuse, HandleCancel, HandleAccepted, HandleRejected, HandleConfirm,
     HandleConfirmed, Finish, HandleTap, HandleAnswer, Ask, Cancel, ShowCode, Scan, Join, Respond
<1>. QED
  BY <1>1, <1>2, <1>3, <1>4 DEF Tables

LEMMA WipeTables ==
  ASSUME Types, Tables, NEW d \in Device, NEW e \in Device, NEW owe, NEW messages \in SUBSET Message,
         Wipe(d, e, owe, messages)
  PROVE  notice' \subseteq Device \X Device \X Request /\ net' \subseteq Message
<1>1. peers[d][e] \in Request \cup {None}
  BY DEF Types
<1>2. \A n \in notice' : n \in notice \/ (peers[d][e] # None /\ n = <<d, e, peers[d][e]>>)
  BY DEF Wipe
<1>3. net' \subseteq messages
  BY DEF Wipe
<1>. QED
  BY <1>1, <1>2, <1>3 DEF Tables

LEMMA UnpairTables ==
  ASSUME Types, Tables,
         \/ \E m \in net : HandleAny(m) \/ UnpairFails(m) \/ NoticeLost(m)
         \/ \E d, e \in Device : Unpair(d, e) \/ Dial(d, e)
  PROVE  Tables'
<1>1. UNCHANGED <<outgoing, cancelled, cutOff>>
  BY DEF HandleAny, HandleUnpair, HandleUnpaired, HandleNotice, UnpairFails, NoticeLost, Unpair, Dial
<1>2. faults' \subseteq FaultKinds
  BY DEF Tables, HandleAny, HandleUnpair, HandleUnpaired, HandleNotice, UnpairFails, NoticeLost,
     Unpair, Dial, Fault, FaultKinds
<1>3. notice' \subseteq Device \X Device \X Request /\ net' \subseteq Message
  <2>1. ASSUME NEW m \in net, m.type \in {"unpair", "unpaired", "notice"}
        PROVE  m.from \in Device /\ m.to \in Device /\ (m.type = "unpaired" => m.ok \in BOOLEAN)
    BY <2>1, UnpairFields DEF Tables
  <2>2. ASSUME NEW m \in net, HandleUnpair(m)
        PROVE  notice' \subseteq Device \X Device \X Request /\ net' \subseteq Message
    <3>. DEFINE ok == peers[m.to][m.from] = m.t
                answered == (net \ {m}) \cup {Unpaired(m.from, m.to, ok)}
    <3>1. m.from \in Device /\ m.to \in Device
      BY <2>1, <2>2 DEF HandleUnpair
    <3>2. answered \subseteq Message
      BY <3>1, MessageTypes DEF Tables
    <3>3. \/ Wipe(m.to, m.from, FALSE, answered)
          \/ net' = answered /\ UNCHANGED notice
      BY <2>2 DEF HandleUnpair
    <3>. HIDE DEF answered
    <3>. QED
      BY <3>1, <3>2, <3>3, WipeTables DEF Tables
  <2>3. ASSUME NEW m \in net, HandleUnpaired(m)
        PROVE  notice' \subseteq Device \X Device \X Request /\ net' \subseteq Message
    <3>1. m.from \in Device /\ m.to \in Device /\ Wipe(m.from, m.to, ~m.ok, net \ {m})
      BY <2>1, <2>3 DEF HandleUnpaired
    <3>2. net \ {m} \in SUBSET Message
      BY DEF Tables
    <3>. QED
      BY <3>1, <3>2, WipeTables
  <2>4. ASSUME NEW m \in net, HandleNotice(m)
        PROVE  notice' \subseteq Device \X Device \X Request /\ net' \subseteq Message
    <3>1. /\ m.from \in Device /\ m.to \in Device
          /\ \/ Wipe(m.to, m.from, FALSE, net \ {m})
             \/ net' = net \ {m} /\ UNCHANGED notice
      BY <2>1, <2>4 DEF HandleNotice
    <3>2. net \ {m} \in SUBSET Message
      BY DEF Tables
    <3>. QED
      BY <3>1, <3>2, WipeTables DEF Tables
  <2>5. ASSUME NEW m \in net, UnpairFails(m) \/ NoticeLost(m)
        PROVE  notice' \subseteq Device \X Device \X Request /\ net' \subseteq Message
    <3>1. UnpairFails(m) => Unpaired(m.from, m.to, FALSE) \in Message
      BY <2>1, MessageTypes DEF UnpairFails
    <3>. QED
      BY <2>5, <3>1 DEF Tables, UnpairFails, NoticeLost
  <2>6. ASSUME NEW d \in Device, NEW e \in Device, Unpair(d, e)
        PROVE  notice' \subseteq Device \X Device \X Request /\ net' \subseteq Message
    <3>1. peers[d][e] \in Request \cup {None}
      BY DEF Types
    <3>2. UnpairCalls(d, e) \subseteq Message
      BY <3>1, MessageTypes DEF UnpairCalls
    <3>. QED
      BY <2>6, <3>2 DEF Tables, Unpair
  <2>7. ASSUME NEW d \in Device, NEW e \in Device, Dial(d, e)
        PROVE  notice' \subseteq Device \X Device \X Request /\ net' \subseteq Message
    <3>1. ASSUME NEW n \in notice
          PROVE  [type |-> "notice", from |-> n[1], to |-> n[2], t |-> n[3]] \in Message
      <4>1. n[1] \in Device /\ n[2] \in Device /\ n[3] \in Request
        BY DEF Tables
      <4>. QED
        BY <4>1, MessageTypes
    <3>2. notice' \subseteq notice
      BY <2>7 DEF Dial
    <3>3. \A m \in net' : m \in net \/ \E n \in notice :
            m = [type |-> "notice", from |-> n[1], to |-> n[2], t |-> n[3]]
      BY <2>7 DEF Dial
    <3>. QED
      BY <3>1, <3>2, <3>3 DEF Tables
  <2>. QED
    BY <2>2, <2>3, <2>4, <2>5, <2>6, <2>7 DEF HandleAny
<1>. QED
  BY <1>1, <1>2, <1>3 DEF Tables

LEMMA TablesStep ==
  ASSUME Types, Tables, [Next]_vars PROVE Tables'
<1>1. ASSUME NEW q \in Request, Timeout(q)
      PROVE  Tables'
  <2>1. User(q)
    BY <1>1 DEF Timeout, User
  <2>. QED
    BY <2>1, CallTables
<1>2. ASSUME NEW q \in Request, CallFails(q) \/ CancelLost(q)
      PROVE  Tables'
  <2>1. UNCHANGED <<notice, cancelled, cutOff>> /\ faults' \subseteq FaultKinds /\ net' \subseteq net
    BY <1>2 DEF Tables, CallFails, CancelLost, Fault, FaultKinds
  <2>2. outgoing' \in [Device -> [Device -> Request \cup {None}]]
    BY <1>2, ReturnTypes DEF Tables, CallFails, CancelLost
  <2>. QED
    BY <2>1, <2>2 DEF Tables
<1>3. ASSUME NEW d \in Device, Restart(d)
      PROVE  Tables'
  <2>1. /\ UNCHANGED <<notice, cancelled>> /\ cutOff' \subseteq cancelled
        /\ faults' \subseteq FaultKinds
    BY <1>3 DEF Tables, Restart, Fault, FaultKinds
  <2>2. outgoing' \in [Device -> [Device -> Request \cup {None}]]
    BY <1>3 DEF Tables, Restart
  <2>3. net' \subseteq Message
    <3>1. ASSUME NEW m \in net'
          PROVE  m \in net \/ \E x \in net :
                   x.type \in {"unpair", "unpaired"} /\ m = Unpaired(x.from, d, FALSE)
      BY <1>3 DEF Restart
    <3>2. ASSUME NEW x \in net, x.type \in {"unpair", "unpaired"}
          PROVE  Unpaired(x.from, d, FALSE) \in Message
      BY <3>2, UnpairFields, MessageTypes DEF Tables
    <3>. QED
      BY <3>1, <3>2 DEF Tables
  <2>. QED
    BY <2>1, <2>2, <2>3 DEF Tables
<1>4. ASSUME NEW d \in Device, NEW way \in {"tap", "invite"}, ForgetCode(d, way)
      PROVE  Tables'
  BY <1>4 DEF Tables, ForgetCode
<1>5. CASE UNCHANGED vars
  BY <1>5 DEF vars, Tables
<1>. QED
  BY <1>1, <1>2, <1>3, <1>4, <1>5, CallTables, UnpairTables DEF Next

\* one dialog per device that asks, of a number that can be counted
Dialogs ==
  \A d \in Device : /\ IsFiniteSet(PendingAt(d))
                    /\ Cardinality(PendingAt(d)) <= MaxPending
                    /\ \A p, q \in PendingAt(d) : From[p] = From[q] => p = q

\* Only a request that is let in opens a dialog.
LEMMA DialogsOpen ==
  ASSUME Inv, [Next]_vars
  PROVE  \/ \A q \in Request : server'[q] = "pending" => server[q] = "pending"
         \/ \E q \in Request : Admit(q)
<1>0. Types
  BY DEF Inv
<1>1. ASSUME NEW q \in Request, ~Admit(q),
             Handle(q) \/ User(q) \/ Timeout(q) \/ CallFails(q) \/ CancelLost(q)
      PROVE  \A p \in Request : server'[p] = "pending" => server[p] = "pending"
  BY <1>0, <1>1 DEF Types, Handle, User, Timeout, CallFails, CancelLost, Refuse, HandleCancel,
     HandleAccepted, HandleRejected, HandleConfirm, HandleConfirmed, Finish, HandleTap, HandleAnswer,
     UseCode, Ask, Cancel, ShowCode, Scan, Join, Respond
<1>2. ASSUME NEW m \in net, HandleAny(m) \/ UnpairFails(m) \/ NoticeLost(m)
      PROVE  server' = server
  BY <1>2 DEF HandleAny, HandleUnpair, HandleUnpaired, HandleNotice, UnpairFails, NoticeLost
<1>3. ASSUME NEW d \in Device, NEW e \in Device, Unpair(d, e) \/ Dial(d, e)
      PROVE  server' = server
  BY <1>3 DEF Unpair, Dial
<1>4. ASSUME NEW d \in Device, Restart(d) \/ \E way \in {"tap", "invite"} : ForgetCode(d, way)
      PROVE  \A p \in Request : server'[p] = "pending" => server[p] = "pending"
  BY <1>0, <1>4 DEF Types, Restart, ForgetCode
<1>5. CASE UNCHANGED vars
  BY <1>5 DEF vars
<1>. QED
  BY <1>1, <1>2, <1>3, <1>4, <1>5 DEF Next

LEMMA DialogsStep ==
  ASSUME Inv, Dialogs, [Next]_vars PROVE Dialogs'
<1>0. Types /\ MaxPending \in Nat
  BY PairingAssumption DEF Inv
<1>1. CASE \A q \in Request : server'[q] = "pending" => server[q] = "pending"
  <2>. SUFFICES ASSUME NEW d \in Device
                PROVE  /\ IsFiniteSet(PendingAt(d)')
                       /\ Cardinality(PendingAt(d)') <= MaxPending
                       /\ \A p, q \in PendingAt(d)' : From[p] = From[q] => p = q
    BY DEF Dialogs
  <2>1. PendingAt(d)' \subseteq PendingAt(d)
    BY <1>1 DEF PendingAt
  <2>2. IsFiniteSet(PendingAt(d)) /\ Cardinality(PendingAt(d)) <= MaxPending
    BY DEF Dialogs
  <2>3. /\ IsFiniteSet(PendingAt(d)') /\ Cardinality(PendingAt(d)') <= Cardinality(PendingAt(d))
        /\ Cardinality(PendingAt(d)) \in Nat /\ Cardinality(PendingAt(d)') \in Nat
    BY <2>1, <2>2, FS_Subset, FS_CardinalityType
  <2>. QED
    BY <1>0, <2>1, <2>2, <2>3 DEF Dialogs
<1>2. ASSUME NEW q \in Request, Admit(q)
      PROVE  Dialogs'
  <2>. SUFFICES ASSUME NEW d \in Device
                PROVE  /\ IsFiniteSet(PendingAt(d)')
                       /\ Cardinality(PendingAt(d)') <= MaxPending
                       /\ \A p, r \in PendingAt(d)' : From[p] = From[r] => p = r
    BY DEF Dialogs
  <2>. DEFINE P == PendingAt(d)
  <2>1. /\ IsFiniteSet(P) /\ Cardinality(P) <= MaxPending /\ Cardinality(P) \in Nat
        /\ \A p, r \in P : From[p] = From[r] => p = r
    BY FS_CardinalityType DEF Dialogs
  <2>2. \A p \in Request : server'[p] = "pending" =>
          p = q \/ (server[p] = "pending" /\ p \notin Stale(q))
    BY <1>2 DEF Admit
  <2>3. CASE To[q] # d
    <3>1. PendingAt(d)' \subseteq P
      BY <2>2, <2>3 DEF PendingAt
    <3>2. IsFiniteSet(PendingAt(d)') /\ Cardinality(PendingAt(d)') <= Cardinality(P)
          /\ Cardinality(PendingAt(d)') \in Nat
      BY <2>1, <3>1, FS_Subset, FS_CardinalityType
    <3>. QED
      BY <1>0, <2>1, <3>1, <3>2
  <2>4. CASE To[q] = d
    <3>1. PendingAt(d)' \subseteq P \cup {q} /\ \A p \in PendingAt(d)' : p = q \/ p \notin Stale(q)
      BY <2>2 DEF PendingAt
    <3>2. Cardinality(P) < MaxPending
      BY <1>2, <2>4 DEF Admit
    <3>3. IsFiniteSet(P \cup {q}) /\ Cardinality(P \cup {q}) <= Cardinality(P) + 1
          /\ Cardinality(P \cup {q}) \in Nat
      <4>1. CASE q \in P
        <5>1. P \cup {q} = P
          BY <4>1
        <5>. HIDE DEF P
        <5>. QED
          BY <2>1, <5>1
      <4>2. CASE q \notin P
        <5>. HIDE DEF P
        <5>1. IsFiniteSet(P \cup {q}) /\ Cardinality(P \cup {q}) = Cardinality(P) + 1
          BY <2>1, <4>2, FS_AddElement
        <5>. QED
          BY <2>1, <5>1
      <4>. QED
        BY <4>1, <4>2
    <3>4. IsFiniteSet(PendingAt(d)') /\ Cardinality(PendingAt(d)') <= Cardinality(P \cup {q})
          /\ Cardinality(PendingAt(d)') \in Nat
      BY <3>1, <3>3, FS_Subset, FS_CardinalityType
    <3>5. Cardinality(PendingAt(d)') <= MaxPending
      <4>. HIDE DEF P
      <4>. QED
        BY <1>0, <2>1, <3>2, <3>3, <3>4
    <3>6. ASSUME NEW p \in PendingAt(d)', NEW r \in PendingAt(d)', From[p] = From[r]
          PROVE  p = r
      <4>1. \A x \in P : x \in Stale(q) <=> From[x] = From[q]
        BY <2>4 DEF Stale
      <4>. QED
        BY <2>1, <3>1, <3>6, <4>1
    <3>. QED
      BY <3>4, <3>5, <3>6
  <2>. QED
    BY <2>3, <2>4
<1>. QED
  BY <1>1, <1>2, DialogsOpen

LEMMA TablesInit == Init => Tables /\ Dialogs
<1>. SUFFICES ASSUME Init PROVE Tables /\ Dialogs
  OBVIOUS
<1>1. Tables
  BY DEF Init, Tables
<1>2. \A d \in Device : PendingAt(d) = {}
  BY DEF Init, PendingAt
<1>3. Dialogs
  BY <1>2, FS_EmptySet, PairingAssumption DEF Dialogs
<1>. QED
  BY <1>1, <1>3

\* Every reachable state has the types of the code's tables and calls, and no device ever
\* shows more dialogs than _maxPending, nor two of one device, however many ask, cancel and
\* ask again.
THEOREM TypeCorrect == Spec => []TypeOK
<1>1. Init => Inv /\ Tables /\ Dialogs
  BY InitInv, TablesInit
<1>2. Inv /\ Tables /\ Dialogs /\ [Next]_vars => (Inv /\ Tables /\ Dialogs)'
  BY StepInv, TablesStep, DialogsStep DEF Inv
<1>3. Inv /\ Tables /\ Dialogs => TypeOK
  BY DEF Inv, Types, Tables, Dialogs, TypeOK, FewDialogs
<1>. QED
  BY <1>1, <1>2, <1>3, PTL DEF Spec

-----------------------------------------------------------------------------
(***************************************************************************)
(* One call at a time: of each request no more than one call or answer is  *)
(* under way, none while its dialog is open, and an answer only as long as *)
(* the requester waits for it.                                             *)
(***************************************************************************)
Waiting(q) == client[q] \in {"asked", "confirming"}

Fits(q) ==
  /\ \A s, t \in CallTypes : M(s, q) \in net /\ M(t, q) \in net => s = t
  /\ \A t \in CallTypes : M(t, q) \in net =>
       /\ server[q] # "pending" /\ client[q] # "idle"
       /\ t \in {"accepted", "rejected", "confirmed"} => Waiting(q)

OneCall == \A q \in Request : Fits(q)

LEMMA SameMessage ==
  \A s, t, p, q : M(s, p) = M(t, q) <=> s = t /\ p = q
<1>. SUFFICES ASSUME NEW s, NEW t, NEW p, NEW q
              PROVE  M(s, p) = M(t, q) <=> s = t /\ p = q
  OBVIOUS
<1>1. M(s, p).type = s /\ M(s, p).q = p /\ M(t, q).type = t /\ M(t, q).q = q
  BY DEF M
<1>. QED
  BY <1>1

\* the three ways in which what is under way of a request still fits: nothing new, nothing,
\* and one message in place of all that was there
LEMMA FitsStays ==
  ASSUME NEW p \in Request, Fits(p), \A t \in CallTypes : M(t, p) \in net' => M(t, p) \in net,
         client'[p] = client[p], server'[p] = "pending" => server[p] = "pending"
  PROVE  Fits(p)'
BY DEF Fits, Waiting

LEMMA FitsNone ==
  ASSUME NEW p \in Request, \A t \in CallTypes : M(t, p) \notin net'
  PROVE  Fits(p)'
BY DEF Fits

LEMMA FitsOne ==
  ASSUME NEW p \in Request, NEW t \in CallTypes,
         \A s \in CallTypes : M(s, p) \in net' => s = t,
         server'[p] # "pending", client'[p] # "idle",
         t \in {"accepted", "rejected", "confirmed"} => Waiting(p)'
  PROVE  Fits(p)'
BY DEF Fits

\* a reply takes the place of the call
LEMMA ReplyFits ==
  ASSUME NEW q \in Request, NEW t \in CallTypes, NEW type \in CallTypes, Fits(q),
         Reply(M(t, q), type), UNCHANGED client, M(t, q) \in net \/ server[q] = "pending",
         server'[q] # "pending"
  PROVE  Fits(q)' /\ \A p \in Request \ {q}, s \in CallTypes : M(s, p) \in net' => M(s, p) \in net
<1>1. net' = (net \ {M(t, q)})
              \cup (IF client[q] \in {"asked", "confirming"} THEN {M(type, q)} ELSE {})
  BY SameMessage DEF Reply, M
<1>2. \A s \in CallTypes : M(s, q) \in net => s = t
  BY DEF Fits
<1>3. \A s \in CallTypes, p \in Request : M(s, p) \in net' =>
        \/ M(s, p) \in net /\ ~(s = t /\ p = q)
        \/ s = type /\ p = q /\ Waiting(q)
  BY <1>1, SameMessage DEF Waiting
<1>4. CASE Waiting(q)
  <2>1. client'[q] # "idle" /\ Waiting(q)'
    BY <1>4 DEF Waiting
  <2>2. \A s \in CallTypes : M(s, q) \in net' => s = type
    BY <1>2, <1>3
  <2>. QED
    BY <1>3, <2>1, <2>2, FitsOne
<1>5. CASE ~Waiting(q)
  <2>1. \A s \in CallTypes : M(s, q) \notin net'
    BY <1>2, <1>3, <1>5
  <2>. QED
    BY <1>3, <2>1, FitsNone
<1>. QED
  BY <1>4, <1>5

LEMMA AdmitFits ==
  ASSUME Inv, OneCall, NEW q \in Request, Admit(q)
  PROVE  OneCall'
<1>. DEFINE kicked == Stale(q)
<1>0. Types /\ Net
  BY DEF Inv
<1>1. M("request", q) \in net /\ client' = client
      /\ net' = (net \ {M("request", q)})
                \cup {M("rejected", p) : p \in {x \in kicked : client[x] = "asked"}}
  BY DEF Admit
<1>2. server[q] = "none"
  BY <1>0, <1>1 DEF Net, True, About
<1>3. \A p \in kicked : p \in Request /\ server[p] = "pending" /\ p # q
  BY <1>2 DEF Stale, PendingAt
<1>4. \A p \in Request : p \in kicked => server'[p] = "refused"
  BY <1>3 DEF Admit
<1>5. \A p \in Request : p # q => (server'[p] = "pending" => server[p] = "pending")
  BY DEF Admit
<1>. HIDE DEF kicked
<1>6. \A s \in CallTypes, p \in Request : M(s, p) \in net' =>
        \/ M(s, p) \in net /\ ~(s = "request" /\ p = q)
        \/ s = "rejected" /\ p \in kicked /\ client[p] = "asked"
  BY <1>1, SameMessage
<1>7. ASSUME NEW p \in Request
      PROVE  Fits(p)'
  <2>1. Fits(p)
    BY DEF OneCall
  <2>2. CASE p = q
    <3>1. \A s \in CallTypes : M(s, q) \in net => s = "request"
      BY <1>1, <2>1, <2>2 DEF Fits, CallTypes
    <3>2. \A s \in CallTypes : M(s, p) \notin net'
      BY <1>3, <1>6, <2>2, <3>1
    <3>. QED
      BY <3>2, FitsNone
  <2>3. CASE p \in kicked
    <3>1. \A s \in CallTypes : M(s, p) \notin net
      BY <1>3, <2>1, <2>3 DEF Fits
    <3>2. \A s \in CallTypes : M(s, p) \in net' => s = "rejected" /\ client[p] = "asked"
      BY <1>6, <3>1
    <3>3. server'[p] # "pending"
      BY <1>4, <2>3
    <3>4. CASE client[p] = "asked"
      <4>1. client'[p] # "idle" /\ Waiting(p)' /\ "rejected" \in CallTypes
        BY <1>1, <3>4 DEF Waiting, CallTypes
      <4>. QED
        BY <3>2, <3>3, <4>1, FitsOne
    <3>5. CASE client[p] # "asked"
      BY <3>2, <3>5, FitsNone
    <3>. QED
      BY <3>4, <3>5
  <2>4. CASE p # q /\ p \notin kicked
    BY <1>1, <1>5, <1>6, <2>1, <2>4, FitsStays
  <2>. QED
    BY <2>2, <2>3, <2>4
<1>. QED
  BY <1>7 DEF OneCall

\* a reply to the call of q, with nothing else about calls
LEMMA OneReplyFits ==
  ASSUME OneCall, NEW q \in Request, NEW t \in CallTypes, NEW type \in CallTypes,
         Reply(M(t, q), type), UNCHANGED client, M(t, q) \in net \/ server[q] = "pending",
         server'[q] # "pending",
         \A p \in Request \ {q} : server'[p] = "pending" => server[p] = "pending"
  PROVE  OneCall'
<1>1. ASSUME NEW p \in Request
      PROVE  Fits(p)'
  <2>1. Fits(p) /\ Fits(q)
    BY DEF OneCall
  <2>2. Fits(q)' /\ \A x \in Request \ {q}, s \in CallTypes : M(s, x) \in net' => M(s, x) \in net
    BY <2>1, ReplyFits
  <2>3. CASE p # q
    BY <2>1, <2>2, <2>3, FitsStays
  <2>. QED
    BY <2>2, <2>3
<1>. QED
  BY <1>1 DEF OneCall

LEMMA RepliesFit ==
  ASSUME Inv, OneCall, NEW q \in Request,
         \/ Refuse(q) \/ HandleConfirm(q) \/ HandleTap(q)
         \/ \E accept \in BOOLEAN : Respond(q, accept)
  PROVE  OneCall'
<1>0. Types /\ client' = client
  BY DEF Inv, Refuse, HandleConfirm, HandleTap, Respond
<1>1. \A type \in {"request", "accepted", "rejected", "confirm", "confirmed", "tap"} : type \in CallTypes
  BY DEF CallTypes
<1>2. \A t \in CallTypes : M(t, q) \in net => server[q] # "pending"
  BY DEF OneCall, Fits
<1>3. CASE Refuse(q)
  <2>1. server' = [server EXCEPT ![q] = "refused"]
    BY <1>3 DEF Refuse
  <2>2. server'[q] = "refused" /\ \A p \in Request \ {q} : server'[p] = server[p]
    BY <1>0, <2>1 DEF Types
  <2>3. Reply(M("request", q), "rejected") /\ M("request", q) \in net
    BY <1>3 DEF Refuse
  <2>. QED
    BY <1>0, <1>1, <2>2, <2>3, OneReplyFits
<1>4. CASE \E accept \in BOOLEAN : Respond(q, accept)
  <2>1. PICK accept \in BOOLEAN : Respond(q, accept)
    BY <1>4
  <2>2. server[q] = "pending" /\ server' = [server EXCEPT ![q] = IF accept THEN "staged" ELSE "refused"]
    BY <2>1 DEF Respond
  <2>3. server'[q] # "pending" /\ \A p \in Request \ {q} : server'[p] = server[p]
    BY <1>0, <2>2 DEF Types
  <2>4. \E type \in CallTypes : Reply(M("request", q), type)
    BY <2>1, <1>1 DEF Respond
  <2>. QED
    BY <1>0, <1>1, <2>2, <2>3, <2>4, OneReplyFits
<1>5. CASE HandleConfirm(q)
  <2>1. M("confirm", q) \in net /\ (server' = server \/ server' = [server EXCEPT ![q] = "stored"])
    BY <1>5 DEF HandleConfirm
  <2>2. server'[q] # "pending" /\ \A p \in Request \ {q} : server'[p] = server[p]
    BY <1>0, <1>1, <1>2, <2>1 DEF Types
  <2>3. \E type \in CallTypes : Reply(M("confirm", q), type)
    BY <1>5, <1>1 DEF HandleConfirm
  <2>. QED
    BY <1>0, <1>1, <2>1, <2>2, <2>3, OneReplyFits
<1>6. CASE HandleTap(q)
  <2>1. M("tap", q) \in net /\ (server' = server \/ server' = [server EXCEPT ![q] = "stored"])
    BY <1>6 DEF HandleTap, UseCode
  <2>2. server'[q] # "pending" /\ \A p \in Request \ {q} : server'[p] = server[p]
    BY <1>0, <1>1, <1>2, <2>1 DEF Types
  <2>3. \E type \in CallTypes : Reply(M("tap", q), type)
    BY <1>6, <1>1 DEF HandleTap
  <2>. QED
    BY <1>0, <1>1, <2>1, <2>2, <2>3, OneReplyFits
<1>. QED
  BY <1>3, <1>4, <1>5, <1>6

\* what the requester does: one message in place of another, or of none
LEMMA RequesterFits ==
  ASSUME Inv, OneCall, NEW q \in Request,
         \/ Ask(q) \/ Scan(q) \/ Join(q) \/ HandleAccepted(q) \/ HandleRejected(q) \/ HandleConfirmed(q)
  PROVE  OneCall'
<1>0. Types /\ Ends /\ Fits(q) /\ UNCHANGED server
  BY DEF Inv, OneCall, Ask, Scan, Join, HandleAccepted, HandleRejected, HandleConfirmed
<1>1. \A type \in {"request", "accepted", "rejected", "confirm", "confirmed", "tap"} : type \in CallTypes
  BY DEF CallTypes
<1>2. ASSUME NEW p \in Request \ {q}
      PROVE  Fits(p)'
  <2>1. Fits(p)
    BY DEF OneCall
  <2>2. client'[p] = client[p]
    BY <1>0 DEF Types, Ask, Scan, Join, HandleAccepted, HandleRejected, HandleConfirmed, Return
  <2>3. \A t \in CallTypes : M(t, p) \in net' => M(t, p) \in net
    BY SameMessage DEF Ask, Scan, Join, HandleAccepted, HandleRejected, HandleConfirmed
  <2>. QED
    BY <1>0, <2>1, <2>2, <2>3, FitsStays
<1>3. ASSUME Ask(q) \/ Scan(q)
      PROVE  Fits(q)'
  <2>1. client[q] = "idle" /\ server[q] # "pending" /\ client'[q] # "idle"
    BY <1>0, <1>3 DEF Types, Ends, Ask, Scan
  <2>2. \A t \in CallTypes : M(t, q) \notin net
    BY <1>0, <2>1 DEF Fits
  <2>3. \E t \in {"request", "tap"} : net' = net \cup {M(t, q)}
    BY <1>3 DEF Ask, Scan
  <2>4. \E t \in {"request", "tap"} : \A s \in CallTypes : M(s, q) \in net' => s = t
    BY <2>2, <2>3, SameMessage
  <2>. QED
    BY <1>0, <1>1, <2>1, <2>4, FitsOne
<1>4. ASSUME Join(q)
      PROVE  Fits(q)'
  <2>1. \A t \in CallTypes : M(t, q) \notin net
    BY <1>0, <1>4 DEF Fits, Join
  <2>2. \A t \in CallTypes : M(t, q) \notin net'
    BY <1>4, <2>1, SameMessage DEF Join, CallTypes
  <2>. QED
    BY <2>2, FitsNone
<1>5. ASSUME HandleAccepted(q)
      PROVE  Fits(q)'
  <2>1. M("accepted", q) \in net /\ net' = (net \ {M("accepted", q)}) \cup {M("confirm", q)}
        /\ client'[q] = "confirming"
    BY <1>0, <1>5 DEF Types, HandleAccepted
  <2>2. server[q] # "pending" /\ \A s \in CallTypes : M(s, q) \in net => s = "accepted"
    BY <1>0, <1>1, <2>1 DEF Fits
  <2>3. \A s \in CallTypes : M(s, q) \in net' => s = "confirm"
    BY <2>1, <2>2, SameMessage
  <2>. QED
    BY <1>0, <1>1, <2>1, <2>2, <2>3, FitsOne
<1>6. ASSUME HandleRejected(q) \/ HandleConfirmed(q)
      PROVE  Fits(q)'
  <2>1. \E t \in {"rejected", "confirmed"} : M(t, q) \in net /\ net' = net \ {M(t, q)}
    BY <1>6 DEF HandleRejected, HandleConfirmed
  <2>2. \A t \in CallTypes : M(t, q) \notin net'
    BY <1>0, <1>1, <2>1 DEF Fits
  <2>. QED
    BY <2>2, FitsNone
<1>7. Fits(q)'
  BY <1>3, <1>4, <1>5, <1>6
<1>. QED
  BY <1>2, <1>7 DEF OneCall

\* the cancelling of a dialog ends the call that waits for it
LEMMA CancelFits ==
  ASSUME Inv, OneCall, NEW q \in Request, HandleCancel(q)
  PROVE  OneCall'
<1>0. Types /\ client' = client /\ "rejected" \in CallTypes
  BY DEF Inv, HandleCancel, CallTypes
<1>1. server' = [server EXCEPT ![q] = IF @ = "pending" THEN "refused" ELSE @]
      /\ net' = (net \ {M("cancel", q)})
                \cup (IF server[q] = "pending" /\ client[q] = "asked" THEN {M("rejected", q)} ELSE {})
  BY DEF HandleCancel
<1>2. \A p \in Request \ {q} : server'[p] = server[p]
  BY <1>0, <1>1 DEF Types
<1>3. server'[q] # "pending"
  BY <1>0, <1>1 DEF Types
<1>4. \A s \in CallTypes, p \in Request : M(s, p) \in net' =>
        \/ M(s, p) \in net
        \/ s = "rejected" /\ p = q /\ server[q] = "pending" /\ client[q] = "asked"
  BY <1>1, SameMessage
<1>5. ASSUME NEW p \in Request
      PROVE  Fits(p)'
  <2>1. Fits(p)
    BY DEF OneCall
  <2>2. CASE p = q /\ server[q] = "pending" /\ client[q] = "asked"
    <3>1. \A s \in CallTypes : M(s, q) \in net' => s = "rejected"
      BY <1>4, <2>1, <2>2 DEF Fits
    <3>2. Waiting(q)' /\ client'[q] # "idle"
      BY <1>0, <2>2 DEF Waiting
    <3>. QED
      BY <1>0, <1>3, <2>2, <3>1, <3>2, FitsOne
  <2>3. CASE ~(p = q /\ server[q] = "pending" /\ client[q] = "asked")
    BY <1>0, <1>2, <1>3, <1>4, <2>1, <2>3, FitsStays
  <2>. QED
    BY <2>2, <2>3
<1>. QED
  BY <1>5 DEF OneCall

LEMMA CallFailsFits ==
  ASSUME Inv, OneCall, NEW q \in Request, CallFails(q)
  PROVE  OneCall'
<1>0. Types /\ server' = server /\ client' = [client EXCEPT ![q] = "failed"]
  BY DEF Inv, CallFails, Return
<1>1. net' \subseteq net /\ \A t \in {"accepted", "rejected", "confirmed"} : M(t, q) \notin net'
  BY DEF CallFails, M, CallTypes
<1>2. client'[q] = "failed" /\ \A p \in Request \ {q} : client'[p] = client[p]
  BY <1>0 DEF Types
<1>3. ASSUME NEW p \in Request
      PROVE  Fits(p)'
  <2>1. Fits(p)
    BY DEF OneCall
  <2>2. CASE p = q
    BY <1>0, <1>1, <1>2, <2>1, <2>2 DEF Fits
  <2>3. CASE p # q
    BY <1>0, <1>1, <1>2, <2>1, <2>3, FitsStays
  <2>. QED
    BY <2>2, <2>3
<1>. QED
  BY <1>3 DEF OneCall

LEMMA RestartFits ==
  ASSUME Inv, OneCall, NEW d \in Device, Restart(d)
  PROVE  OneCall'
<1>. DEFINE ended(p) == \/ From[p] = d /\ client[p] \in {"asked", "confirming", "closing"}
                        \/ To[p] = d /\ client[p] \in {"asked", "confirming"}
<1>1. ASSUME NEW p \in Request
      PROVE  /\ client'[p] = IF ended(p) THEN "failed" ELSE client[p]
             /\ server'[p] = "pending" => server[p] = "pending"
             /\ \A t \in CallTypes : M(t, p) \in net' => M(t, p) \in net /\ ~ended(p)
  <2>1. client'[p] = (IF ended(p) THEN "failed" ELSE client[p])
        /\ (server'[p] = "pending" => server[p] = "pending")
    BY DEF Restart
  <2>2. ASSUME NEW t \in CallTypes, M(t, p) \in net'
        PROVE  M(t, p) \in net /\ ~ended(p)
    <3>1. M(t, p).type = t /\ M(t, p).q = p /\ t \notin {"cancel", "answer", "unpair", "unpaired", "notice"}
      BY DEF M, CallTypes
    <3>2. \A m : Unpaired(m.from, d, FALSE).type = "unpaired"
      BY DEF Unpaired
    <3>3. M(t, p) \in net /\ ~(\/ M(t, p).q \in {q \in Request : From[q] = d /\ client[q] \in {"asked", "confirming", "closing"}}
                               \/ M(t, p).q \in {q \in Request : To[q] = d /\ client[q] \in {"asked", "confirming"}})
      BY <2>2, <3>1, <3>2 DEF Restart
    <3>. QED
      BY <3>1, <3>3
  <2>. QED
    BY <2>1, <2>2
<1>2. ASSUME NEW p \in Request
      PROVE  Fits(p)'
  <2>1. Fits(p)
    BY DEF OneCall
  <2>2. CASE ended(p)
    BY <1>1, <2>2, FitsNone
  <2>3. CASE ~ended(p)
    BY <1>1, <2>1, <2>3, FitsStays
  <2>. QED
    BY <2>2, <2>3
<1>. QED
  BY <1>2 DEF OneCall

\* a step that sends no call and answers none
LEMMA QuietFits ==
  ASSUME OneCall, \A t \in CallTypes, p \in Request : M(t, p) \in net' => M(t, p) \in net,
         \A p \in Request : client'[p] = client[p],
         \A p \in Request : server'[p] = "pending" => server[p] = "pending"
  PROVE  OneCall'
BY FitsStays DEF OneCall

LEMMA UnpairTypes ==
  \A t \in CallTypes, p \in Request :
    /\ \A d, e, x : M(t, p) # UnpairCall(d, e, x) /\ M(t, p) # Unpaired(d, e, x)
    /\ \A d, e, x : M(t, p) # [type |-> "notice", from |-> d, to |-> e, t |-> x]
<1>. SUFFICES ASSUME NEW t \in CallTypes, NEW p \in Request, NEW d, NEW e, NEW x
              PROVE  /\ M(t, p) # UnpairCall(d, e, x) /\ M(t, p) # Unpaired(d, e, x)
                     /\ M(t, p) # [type |-> "notice", from |-> d, to |-> e, t |-> x]
  OBVIOUS
<1>1. M(t, p).type = t /\ t \notin {"unpair", "unpaired", "notice"}
  BY DEF M, CallTypes
<1>2. UnpairCall(d, e, x).type = "unpair" /\ Unpaired(d, e, x).type = "unpaired"
      /\ [type |-> "notice", from |-> d, to |-> e, t |-> x].type = "notice"
  BY DEF UnpairCall, Unpaired
<1>. QED
  BY <1>1, <1>2

LEMMA UnpairStepFits ==
  ASSUME OneCall,
         \/ \E m \in net : HandleAny(m) \/ UnpairFails(m) \/ NoticeLost(m)
         \/ \E d, e \in Device : Unpair(d, e) \/ Dial(d, e)
  PROVE  OneCall'
<1>1. UNCHANGED <<client, server>>
  BY DEF HandleAny, HandleUnpair, HandleUnpaired, HandleNotice, UnpairFails, NoticeLost, Unpair, Dial
<1>2. \A t \in CallTypes, p \in Request : M(t, p) \in net' => M(t, p) \in net
  <2>1. ASSUME NEW m \in net, HandleAny(m) \/ UnpairFails(m) \/ NoticeLost(m)
        PROVE  \A x \in net' : x \in net \/ \E ok : x = Unpaired(m.from, m.to, ok)
    BY <2>1 DEF HandleAny, HandleUnpair, HandleUnpaired, HandleNotice, UnpairFails, NoticeLost, Wipe
  <2>2. ASSUME NEW d \in Device, NEW e \in Device, Unpair(d, e)
        PROVE  \A x \in net' : x \in net \/ \E y : x = UnpairCall(d, e, y)
    BY <2>2 DEF Unpair, UnpairCalls
  <2>3. ASSUME NEW d \in Device, NEW e \in Device, Dial(d, e)
        PROVE  \A x \in net' : x \in net \/
                 \E n \in notice : x = [type |-> "notice", from |-> n[1], to |-> n[2], t |-> n[3]]
    BY <2>3 DEF Dial
  <2>. QED
    BY <2>1, <2>2, <2>3, UnpairTypes
<1>. QED
  BY <1>1, <1>2, QuietFits

LEMMA OtherCallFits ==
  ASSUME Inv, OneCall,
         \/ \E q \in Request : Cancel(q) \/ ShowCode(q) \/ CancelLost(q) \/ Finish(q) \/ HandleAnswer(q)
         \/ \E d \in Device, way \in {"tap", "invite"} : ForgetCode(d, way)
         \/ UNCHANGED vars
  PROVE  OneCall'
<1>0. Types /\ Net
  BY DEF Inv
<1>1. ASSUME NEW q \in Request, Cancel(q) \/ ShowCode(q) \/ CancelLost(q) \/ HandleAnswer(q)
      PROVE  OneCall'
  <2>1. client' = client
    BY <1>1 DEF Cancel, ShowCode, CancelLost, HandleAnswer
  <2>2. \A p \in Request : server'[p] = "pending" => server[p] = "pending"
    BY <1>0, <1>1 DEF Types, Cancel, ShowCode, CancelLost, HandleAnswer, UseCode
  <2>3. \A x \in net' : x \in net \/ \E y : x = M("cancel", y)
    BY <1>1 DEF Cancel, ShowCode, CancelLost, HandleAnswer
  <2>4. \A t \in CallTypes, p \in Request : M(t, p) \in net' => M(t, p) \in net
    BY <2>3, SameMessage DEF CallTypes
  <2>. QED
    BY <2>1, <2>2, <2>4, QuietFits
<1>2. ASSUME NEW q \in Request, Finish(q)
      PROVE  OneCall'
  <2>1. client[q] = "closing" /\ client' = [client EXCEPT ![q] = "done"] /\ server' = server
    BY <1>2 DEF Finish, Return
  <2>2. \A x \in net' : x \in net \/ \E d, e, y : x = UnpairCall(d, e, y)
    BY <1>2 DEF Finish, UnpairCalls
  <2>3. \A t \in CallTypes, p \in Request : M(t, p) \in net' => M(t, p) \in net
    BY <2>2, UnpairTypes
  <2>4. client'[q] = "done" /\ \A p \in Request \ {q} : client'[p] = client[p]
    BY <1>0, <2>1 DEF Types
  <2>5. ASSUME NEW p \in Request
        PROVE  Fits(p)'
    <3>1. Fits(p)
      BY DEF OneCall
    <3>2. CASE p = q
      BY <2>1, <2>3, <2>4, <3>1, <3>2 DEF Fits, Waiting
    <3>3. CASE p # q
      BY <2>1, <2>3, <2>4, <3>1, <3>3, FitsStays
    <3>. QED
      BY <3>2, <3>3
  <2>. QED
    BY <2>5 DEF OneCall
<1>3. CASE (\E d \in Device, way \in {"tap", "invite"} : ForgetCode(d, way)) \/ UNCHANGED vars
  <2>1. UNCHANGED <<client, server, net>>
    BY <1>3 DEF ForgetCode, vars
  <2>. QED
    BY <2>1, QuietFits
<1>. QED
  BY <1>1, <1>2, <1>3

LEMMA OneCallStep ==
  ASSUME Inv, OneCall, [Next]_vars PROVE OneCall'
<1>1. ASSUME NEW q \in Request, Handle(q) \/ User(q)
      PROVE  OneCall'
  BY <1>1, AdmitFits, RepliesFit, RequesterFits, CancelFits, OtherCallFits DEF Handle, User
<1>2. ASSUME NEW q \in Request, Timeout(q) \/ CallFails(q) \/ CancelLost(q)
      PROVE  OneCall'
  BY <1>2, RepliesFit, CallFailsFits, OtherCallFits DEF Timeout
<1>. QED
  BY <1>1, <1>2, UnpairStepFits, RestartFits, OtherCallFits DEF Next

-----------------------------------------------------------------------------
(***************************************************************************)
(* The steps by what they do to the rows of peers: a call leaves them      *)
(* alone, the responder stores, the requester stores, a call that unpairs  *)
(* is sent, an unpairing takes a row away.                                 *)
(***************************************************************************)
SameUnpairs == \A m : m.type \in {"unpair", "unpaired", "notice"} => (m \in net' <=> m \in net)

Calling ==
  /\ UNCHANGED <<via, peers, notice, cutOff>> /\ SameUnpairs
  /\ \A p, r \in Request : client'[p] # client[p] /\ client'[r] # client[r] => p = r
  /\ \A p \in Request :
       /\ server'[p] = "stored" <=> server[p] = "stored"
       /\ server[p] = "shown" => server'[p] = "shown"
       /\ \/ client'[p] = client[p]
          \/ /\ via[p] # "invite" /\ client[p] \in {"idle", "asked", "confirming"}
             /\ client'[p] \in {"asked", "confirming", "failed"}
       /\ p \in cancelled' =>
            p \in cancelled \/ (/\ via[p] = "pin" /\ client'[p] = client[p]
                                /\ client[p] \in {"asked", "confirming", "closing"})

ResponderStores(q) ==
  /\ UNCHANGED <<via, notice, client, cancelled, cutOff>> /\ SameUnpairs
  /\ server[q] \notin {"stored", "none"} /\ server' = [server EXCEPT ![q] = "stored"]
  /\ client[q] # "idle" /\ Store(To[q], From[q], q)

RequesterStores(q) ==
  /\ UNCHANGED <<via, notice, server, cancelled, cutOff>> /\ SameUnpairs
  /\ client[q] \in {"idle", "asked", "confirming"}
  /\ \E to \in {"closing", "done"} : /\ client' = [client EXCEPT ![q] = to]
                                     /\ via[q] = "pin" => to = "closing"
  /\ via[q] = "invite" => server[q] = "shown"
  /\ Store(From[q], To[q], q)

\* only messages about requests come and go
LEMMA AboutRequests ==
  ASSUME \A m \in net' : m \in net \/ \E t \in Kinds, p \in Request : m = M(t, p),
         \A m \in net : m \in net' \/ m.type \in Kinds
  PROVE  SameUnpairs
<1>1. \A t \in Kinds, p \in Request : M(t, p).type \notin {"unpair", "unpaired", "notice"}
  BY DEF M, Kinds
<1>2. \A m : m.type \in Kinds => m.type \notin {"unpair", "unpaired", "notice"}
  BY DEF Kinds
<1>. QED
  BY <1>1, <1>2 DEF SameUnpairs

LEMMA RepliesAbout ==
  ASSUME NEW q \in Request, NEW t \in Kinds, NEW type \in Kinds, Reply(M(t, q), type)
  PROVE  SameUnpairs
<1>1. M(t, q).q = q /\ M(t, q).type = t
  BY DEF M
<1>2. \A m \in net' : m \in net \/ m = M(type, q)
  BY <1>1 DEF Reply
<1>3. \A m \in net : m \in net' \/ m = M(t, q)
  BY DEF Reply
<1>. QED
  BY <1>1, <1>2, <1>3, AboutRequests

LEMMA CallingAbout ==
  ASSUME NEW q \in Request,
         \/ Ask(q) \/ Admit(q) \/ Refuse(q) \/ HandleCancel(q) \/ HandleAccepted(q)
         \/ HandleRejected(q) \/ HandleConfirm(q) \/ HandleConfirmed(q) \/ HandleTap(q)
         \/ HandleAnswer(q) \/ Cancel(q) \/ ShowCode(q) \/ Scan(q) \/ Join(q)
         \/ (\E accept \in BOOLEAN : Respond(q, accept)) \/ CallFails(q) \/ CancelLost(q),
         Tables
  PROVE  SameUnpairs
<1>0. \A type \in {"request", "accepted", "rejected", "confirm", "confirmed", "tap", "cancel", "answer"} :
         type \in Kinds
  BY DEF Kinds
<1>1. \A t \in Kinds : M(t, q).type \in Kinds
  BY DEF M
<1>2. CASE \/ Refuse(q) \/ HandleConfirm(q) \/ HandleTap(q)
           \/ \E accept \in BOOLEAN : Respond(q, accept)
  <2>1. \E t, type \in Kinds : Reply(M(t, q), type)
    <3>1. CASE Refuse(q) \/ \E accept \in BOOLEAN : Respond(q, accept)
      BY <1>0, <3>1 DEF Refuse, Respond
    <3>2. CASE HandleConfirm(q) \/ HandleTap(q)
      BY <1>0, <3>2 DEF HandleConfirm, HandleTap
    <3>. QED
      BY <1>2, <3>1, <3>2
  <2>. QED
    BY <2>1, RepliesAbout
<1>3. CASE Ask(q) \/ Scan(q) \/ Join(q) \/ HandleAccepted(q) \/ HandleCancel(q)
  <2>1. \A m \in net' : m \in net \/ \E t \in Kinds : m = M(t, q)
    BY <1>0, <1>3 DEF Ask, Scan, Join, HandleAccepted, HandleCancel
  <2>2. \A m \in net : m \in net' \/ \E t \in Kinds : m = M(t, q)
    BY <1>0, <1>3 DEF Ask, Scan, Join, HandleAccepted, HandleCancel
  <2>. QED
    BY <1>1, <2>1, <2>2, AboutRequests
<1>4. CASE HandleRejected(q) \/ HandleConfirmed(q) \/ HandleAnswer(q) \/ ShowCode(q) \/ CancelLost(q)
  <2>1. net' \subseteq net /\ \A m \in net : m \in net' \/ \E t \in Kinds : m = M(t, q)
    BY <1>0, <1>4 DEF HandleRejected, HandleConfirmed, HandleAnswer, ShowCode, CancelLost
  <2>. QED
    BY <1>1, <2>1, AboutRequests
<1>5. CASE CallFails(q)
  <2>1. net' \subseteq net /\ \A m \in net : m \in net' \/ m.type \in CallTypes
    BY <1>5 DEF CallFails
  <2>2. CallTypes \subseteq Kinds
    BY DEF CallTypes, Kinds
  <2>. QED
    BY <2>1, <2>2, AboutRequests
<1>6. CASE Admit(q)
  <2>1. \A m \in net' : m \in net \/ \E p \in Stale(q) : m = M("rejected", p)
    BY <1>6 DEF Admit
  <2>2. \A p \in Stale(q) : p \in Request
    BY DEF Stale, PendingAt
  <2>3. \A m \in net : m \in net' \/ m = M("request", q)
    BY <1>6 DEF Admit
  <2>. QED
    BY <1>0, <1>1, <2>1, <2>2, <2>3, AboutRequests
<1>7. CASE Cancel(q)
  <2>1. net \subseteq net' /\ \A m \in net' : m \in net \/
           (outgoing[From[q]][To[q]] # None /\ m = M("cancel", outgoing[From[q]][To[q]]))
    BY <1>7 DEF Cancel
  <2>2. outgoing[From[q]][To[q]] \in Request \cup {None}
    BY Two DEF Tables
  <2>. QED
    BY <1>0, <2>1, <2>2, AboutRequests
<1>. QED
  BY <1>2, <1>3, <1>4, <1>5, <1>6, <1>7

LEMMA AnsweringCalls ==
  ASSUME Inv, Tables, NEW q \in Request,
         Admit(q) \/ Refuse(q) \/ HandleCancel(q) \/ \E accept \in BOOLEAN : Respond(q, accept)
  PROVE  Calling
<1>0. Types /\ Net
  BY DEF Inv
<1>1. UNCHANGED <<via, peers, notice, client, cancelled, cutOff>>
  BY DEF Admit, Refuse, HandleCancel, Respond
<1>2. SameUnpairs
  BY CallingAbout
<1>3. ASSUME NEW p \in Request
      PROVE  server'[p] = server[p] \/ (server[p] \notin {"stored", "shown"} /\ server'[p] # "stored")
  <2>1. CASE Admit(q)
    <3>1. server[q] = "none"
      BY <1>0, <2>1 DEF Net, True, About, Admit
    <3>2. PICK expired \in SUBSET StagedAt(To[q]) :
             server' = [x \in Request |-> IF x = q THEN "pending"
                                          ELSE IF x \in Stale(q) \cup expired THEN "refused"
                                          ELSE server[x]]
      BY <2>1 DEF Admit
    <3>3. \A x \in Stale(q) \cup expired : server[x] \in {"pending", "staged"}
      BY DEF Stale, PendingAt, StagedAt
    <3>. QED
      BY <3>1, <3>2, <3>3
  <2>2. CASE Refuse(q)
    <3>1. server[q] = "none"
      BY <1>0, <2>2 DEF Net, True, About, Refuse
    <3>. QED
      BY <1>0, <2>2, <3>1 DEF Types, Refuse
  <2>3. CASE HandleCancel(q)
    BY <1>0, <2>3 DEF Types, HandleCancel
  <2>4. CASE \E accept \in BOOLEAN : Respond(q, accept)
    BY <1>0, <2>4 DEF Types, Respond
  <2>. QED
    BY <2>1, <2>2, <2>3, <2>4
<1>. QED
  BY <1>1, <1>2, <1>3 DEF Calling

LEMMA RequesterCalls ==
  ASSUME Inv, Tables, OneCall, NEW q \in Request,
         \/ Ask(q) \/ Scan(q) \/ HandleAccepted(q) \/ HandleRejected(q) \/ CallFails(q)
         \/ Cancel(q) \/ ShowCode(q) \/ CancelLost(q)
  PROVE  Calling
<1>0. Types /\ Net /\ Fits(q)
  BY DEF Inv, OneCall
<1>1. UNCHANGED <<via, peers, notice, cutOff>>
  BY DEF Ask, Scan, HandleAccepted, HandleRejected, CallFails, Cancel, ShowCode, CancelLost
<1>2. SameUnpairs
  BY CallingAbout
<1>3. \A p \in Request : /\ server'[p] = "stored" <=> server[p] = "stored"
                         /\ server[p] = "shown" => server'[p] = "shown"
  BY <1>0 DEF Types, Ask, Scan, HandleAccepted, HandleRejected, CallFails, Cancel, ShowCode, CancelLost
<1>4. CASE \/ Ask(q) \/ Scan(q) \/ HandleAccepted(q) \/ HandleRejected(q) \/ CallFails(q)
  <2>1. \E to \in {"asked", "confirming", "failed"} : client' = [client EXCEPT ![q] = to]
    BY <1>4 DEF Ask, Scan, HandleAccepted, HandleRejected, CallFails, Return
  <2>2. via[q] # "invite" /\ client[q] \in {"idle", "asked", "confirming"}
    <3>1. CASE HandleAccepted(q) \/ HandleRejected(q)
      BY <1>0, <3>1 DEF HandleAccepted, HandleRejected, Net, True, About, Fits, Waiting, CallTypes
    <3>2. CASE Ask(q) \/ Scan(q)
      BY <3>2 DEF Ask, Scan
    <3>3. CASE CallFails(q)
      BY <3>3 DEF CallFails, Inv, Ends
    <3>. QED
      BY <1>4, <3>1, <3>2, <3>3
  <2>3. cancelled' = cancelled
    BY <1>4 DEF Ask, Scan, HandleAccepted, HandleRejected, CallFails
  <2>4. \A p \in Request : client'[p] = client[p] \/ (p = q /\ client'[p] \in {"asked", "confirming", "failed"})
    BY <1>0, <2>1 DEF Types
  <2>. QED
    BY <1>1, <1>2, <1>3, <2>2, <2>3, <2>4 DEF Calling
<1>5. CASE Cancel(q) \/ ShowCode(q) \/ CancelLost(q)
  <2>1. client' = client
    BY <1>5 DEF Cancel, ShowCode, CancelLost
  <2>2. \A p \in cancelled' : p \in cancelled \/
          (p = q /\ via[q] = "pin" /\ client[q] \in {"asked", "confirming", "closing"})
    BY <1>5 DEF Cancel, ShowCode, CancelLost
  <2>. QED
    BY <1>1, <1>2, <1>3, <2>1, <2>2 DEF Calling
<1>. QED
  BY <1>4, <1>5

\* the responder stores, or leaves everything as it is
LEMMA ResponderStoring ==
  ASSUME Inv, Tables, OneCall, NEW q \in Request, HandleConfirm(q) \/ HandleTap(q) \/ HandleAnswer(q)
  PROVE  Calling \/ ResponderStores(q)
<1>0. Types /\ Net /\ Fits(q)
  BY DEF Inv, OneCall
<1>1. UNCHANGED <<via, notice, client, cancelled, cutOff>>
  BY DEF HandleConfirm, HandleTap, HandleAnswer
<1>2. SameUnpairs
  BY CallingAbout
<1>3. client[q] # "idle"
  <2>1. \/ \E t \in {"confirm", "tap"} : M(t, q) \in net
        \/ M("answer", q) \in net
    BY DEF HandleConfirm, HandleTap, HandleAnswer
  <2>2. M("answer", q) \in net => client[q] = "done"
    BY <1>0 DEF Net, True, About
  <2>3. "confirm" \in CallTypes /\ "tap" \in CallTypes
    BY DEF CallTypes
  <2>. QED
    BY <1>0, <2>1, <2>2, <2>3 DEF Fits
<1>4. CASE UNCHANGED <<server, peers>>
  BY <1>1, <1>2, <1>4 DEF Calling
<1>5. CASE ~UNCHANGED <<server, peers>>
  <2>1. /\ server' = [server EXCEPT ![q] = "stored"] /\ Store(To[q], From[q], q)
        /\ server[q] \in {"staged", "shown"}
    <3>1. CASE HandleConfirm(q)
      BY <1>5, <3>1 DEF HandleConfirm
    <3>2. CASE HandleTap(q)
      <4>1. code[To[q]]["tap"] = q /\ UseCode(q)
        BY <1>5, <3>2 DEF HandleTap
      <4>2. via[q] = "tap"
        BY <1>0, <3>2 DEF Net, True, About, HandleTap
      <4>. QED
        BY <1>1, <4>1, <4>2, UsesCode
    <3>3. CASE HandleAnswer(q)
      <4>1. code[To[q]]["invite"] = q /\ UseCode(q)
        BY <1>5, <3>3 DEF HandleAnswer
      <4>2. via[q] = "invite"
        BY <1>0, <3>3 DEF Net, True, About, HandleAnswer
      <4>. QED
        BY <1>1, <4>1, <4>2, UsesCode
    <3>. QED
      BY <3>1, <3>2, <3>3
  <2>. QED
    BY <1>1, <1>2, <1>3, <2>1 DEF ResponderStores
<1>. QED
  BY <1>4, <1>5

LEMMA RequesterStoring ==
  ASSUME Inv, Tables, OneCall, NEW q \in Request, HandleConfirmed(q) \/ Join(q)
  PROVE  RequesterStores(q)
<1>0. Types /\ Net /\ Fits(q)
  BY DEF Inv, OneCall
<1>1. SameUnpairs
  BY CallingAbout
<1>2. CASE HandleConfirmed(q)
  <2>1. M("confirmed", q) \in net /\ "confirmed" \in CallTypes
    BY <1>2 DEF HandleConfirmed, CallTypes
  <2>2. via[q] # "invite" /\ client[q] \in {"asked", "confirming"}
    BY <1>0, <2>1 DEF Net, True, About, Fits, Waiting
  <2>3. /\ client' = [client EXCEPT ![q] = "closing"] /\ Store(From[q], To[q], q)
        /\ UNCHANGED <<via, notice, server, cancelled, cutOff>>
    BY <1>2 DEF HandleConfirmed
  <2>. QED
    BY <1>1, <2>2, <2>3 DEF RequesterStores
<1>3. CASE Join(q)
  <2>1. /\ client' = [client EXCEPT ![q] = "done"] /\ Store(From[q], To[q], q)
        /\ UNCHANGED <<via, notice, server, cancelled, cutOff>>
        /\ via[q] = "invite" /\ client[q] = "idle" /\ server[q] = "shown"
    BY <1>3 DEF Join
  <2>. QED
    BY <1>1, <2>1 DEF RequesterStores
<1>. QED
  BY <1>2, <1>3

UnpairingStep ==
  \/ \E m \in net : HandleAny(m) \/ UnpairFails(m) \/ NoticeLost(m)
  \/ \E d, e \in Device : Unpair(d, e) \/ Dial(d, e)

LEMMA AllSteps ==
  ASSUME Inv, Tables, OneCall, [Next]_vars
  PROVE  \/ Calling
         \/ \E q \in Request : ResponderStores(q) \/ RequesterStores(q) \/ Finish(q)
         \/ UnpairingStep
         \/ \E d \in Device : Restart(d)
<1>1. ASSUME NEW q \in Request, Handle(q) \/ User(q) \/ Timeout(q) \/ CallFails(q) \/ CancelLost(q)
      PROVE  Calling \/ ResponderStores(q) \/ RequesterStores(q) \/ Finish(q)
  BY <1>1, AnsweringCalls, RequesterCalls, ResponderStoring, RequesterStoring
     DEF Handle, User, Timeout
<1>2. ASSUME (\E d \in Device, way \in {"tap", "invite"} : ForgetCode(d, way)) \/ UNCHANGED vars
      PROVE  Calling
  <2>1. UNCHANGED <<via, peers, notice, client, server, cancelled, cutOff, net>>
    BY <1>2 DEF ForgetCode, vars
  <2>. QED
    BY <2>1 DEF Calling, SameUnpairs
<1>. QED
  BY <1>1, <1>2 DEF Next, UnpairingStep

-----------------------------------------------------------------------------
(***************************************************************************)
(* A pairing that was cancelled: the requester stores only on its way to   *)
(* the end of startPairFlow, which takes a cancelled pairing back, and the *)
(* unpairing that does so lasts until the row is gone.                     *)
(***************************************************************************)
Late ==
  \A q \in Request : via[q] = "pin" /\ peers[From[q]][To[q]] = q =>
    client[q] \in {"closing", "done", "failed"}

Withdrawn ==
  \A q \in cancelled :
    /\ q \in Request /\ via[q] = "pin"
    /\ q \notin cutOff /\ peers[From[q]][To[q]] = q =>
         client[q] = "closing" \/ Unpairing(From[q], To[q]) # {}

LEMMA WipeCells ==
  ASSUME Types, NEW d \in Device, NEW e \in Device,
         \E owe, messages : Wipe(d, e, owe, messages)
  PROVE  \A x, y \in Device : peers'[x][y] = IF x = d /\ y = e THEN None ELSE peers[x][y]
<1>1. peers' = [peers EXCEPT ![d] = [peers[d] EXCEPT ![e] = None]]
  BY DEF Wipe
<1>2. [peers[d] EXCEPT ![e] = None] \in [Device -> Request \cup {None}]
  BY DEF Types
<1>. QED
  BY <1>1, <1>2 DEF Types, Wipe

LEMMA UnpairingLasts ==
  ASSUME Types, Tables, UnpairingStep
  PROVE  /\ UNCHANGED <<via, client, server, cancelled, cutOff>>
         /\ \A x, y \in Device :
              /\ peers'[x][y] \in {peers[x][y], None}
              /\ Unpairing(x, y) # {} => peers'[x][y] = None \/ Unpairing(x, y)' # {}
<1>1. UNCHANGED <<via, client, server, cancelled, cutOff>>
  BY DEF UnpairingStep, HandleAny, HandleUnpair, HandleUnpaired, HandleNotice, UnpairFails, NoticeLost,
     Unpair, Dial
<1>0. Types
  OBVIOUS
<1>. DEFINE Lasts(x, y) == /\ peers'[x][y] \in {peers[x][y], None}
                           /\ Unpairing(x, y) # {} => peers'[x][y] = None \/ Unpairing(x, y)' # {}
<1>2. ASSUME NEW m \in net, m.type \in {"unpair", "unpaired", "notice"}
      PROVE  m.from \in Device /\ m.to \in Device
  BY <1>2, UnpairFields DEF Tables
<1>3. \A d, e, ok : /\ Unpaired(d, e, ok).type = "unpaired"
                    /\ Unpaired(d, e, ok).from = d /\ Unpaired(d, e, ok).to = e
  BY DEF Unpaired
\* an unpairing goes on as long as there is a message of it in place of every one that goes
<1>4. ASSUME NEW x \in Device, NEW y \in Device, peers'[x][y] \in {peers[x][y], None},
             \A m \in net : m \in net' \/ m.type = "notice"
                              \/ Unpaired(m.from, m.to, FALSE) \in net' \/ Unpaired(m.from, m.to, TRUE) \in net'
      PROVE  Lasts(x, y)
  <2>1. ASSUME NEW m \in Unpairing(x, y)
        PROVE  Unpairing(x, y)' # {}
    <3>1. m \in net /\ m.type # "notice" /\ m.from = x /\ m.to = y /\ m.type \in {"unpair", "unpaired"}
      BY DEF Unpairing
    <3>2. m \in net' \/ Unpaired(x, y, FALSE) \in net' \/ Unpaired(x, y, TRUE) \in net'
      BY <1>4, <3>1
    <3>3. \E c \in net' : c.type \in {"unpair", "unpaired"} /\ c.from = x /\ c.to = y
      <4>1. ASSUME NEW ok, Unpaired(x, y, ok) \in net'
            PROVE  \E c \in net' : c.type \in {"unpair", "unpaired"} /\ c.from = x /\ c.to = y
        BY <1>3, <4>1
      <4>. QED
        BY <3>1, <3>2, <4>1
    <3>. QED
      BY <3>3 DEF Unpairing
  <2>. QED
    BY <1>4, <2>1
<1>5. ASSUME NEW m \in net, HandleUnpair(m)
      PROVE  \A x, y \in Device : Lasts(x, y)
  <2>. DEFINE ok == peers[m.to][m.from] = m.t
              answered == (net \ {m}) \cup {Unpaired(m.from, m.to, ok)}
  <2>1. m.from \in Device /\ m.to \in Device
    BY <1>2, <1>5 DEF HandleUnpair
  <2>2. \/ Wipe(m.to, m.from, FALSE, answered)
        \/ net' = answered /\ UNCHANGED peers
    BY <1>5 DEF HandleUnpair
  <2>3. ok \in BOOLEAN
    OBVIOUS
  <2>. HIDE DEF ok
  <2>4. Unpaired(m.from, m.to, ok) \in answered /\ \A x \in net : x \in answered \/ x = m
    OBVIOUS
  <2>5. Unpaired(m.from, m.to, ok).type # "notice"
    BY <1>3
  <2>. HIDE DEF answered
  <2>6. /\ \A x, y \in Device : peers'[x][y] \in {peers[x][y], None}
        /\ \A x \in answered : x \in net' \/ x.type = "notice"
    <3>1. CASE Wipe(m.to, m.from, FALSE, answered)
      <4>1. \A x, y \in Device : peers'[x][y] = IF x = m.to /\ y = m.from THEN None ELSE peers[x][y]
        <5>1. \E owe, messages : Wipe(m.to, m.from, owe, messages)
          BY <3>1
        <5>. QED
          BY <1>0, <2>1, <5>1, WipeCells
      <4>2. net' = {c \in answered : ~(c.type = "notice" /\ c.from = m.from /\ c.to = m.to)}
        BY <3>1 DEF Wipe
      <4>. QED
        BY <4>1, <4>2
    <3>2. CASE net' = answered /\ UNCHANGED peers
      BY <3>2
    <3>. QED
      BY <2>2, <3>1, <3>2
  <2>7. ASSUME NEW x \in net
        PROVE  x \in net' \/ x.type = "notice"
                              \/ Unpaired(x.from, x.to, FALSE) \in net' \/ Unpaired(x.from, x.to, TRUE) \in net'
    <3>1. CASE x = m
      <4>1. Unpaired(m.from, m.to, ok) \in net'
        BY <2>4, <2>5, <2>6
      <4>. QED
        BY <2>3, <3>1, <4>1
    <3>2. CASE x # m
      BY <2>4, <2>6, <3>2
    <3>. QED
      BY <3>1, <3>2
  <2>. QED
    BY <1>4, <2>6, <2>7
<1>6. ASSUME NEW m \in net, HandleUnpaired(m)
      PROVE  \A x, y \in Device : Lasts(x, y)
  <2>1. m.from \in Device /\ m.to \in Device /\ m.type = "unpaired"
    BY <1>2, <1>6 DEF HandleUnpaired
  <2>2. Wipe(m.from, m.to, ~m.ok, net \ {m})
    BY <1>6 DEF HandleUnpaired
  <2>3. /\ \A x, y \in Device : peers'[x][y] = IF x = m.from /\ y = m.to THEN None ELSE peers[x][y]
        /\ \A x \in net : x \in net' \/ x = m \/ x.type = "notice"
    <3>1. \A x, y \in Device : peers'[x][y] = IF x = m.from /\ y = m.to THEN None ELSE peers[x][y]
      BY <1>0, <2>1, <2>2, WipeCells
    <3>. QED
      BY <2>2, <3>1 DEF Wipe
  <2>4. ASSUME NEW x \in Device, NEW y \in Device, ~(x = m.from /\ y = m.to), NEW c \in Unpairing(x, y)
        PROVE  c \in Unpairing(x, y)'
    <3>1. c \in net /\ c.type \in {"unpair", "unpaired"} /\ c.from = x /\ c.to = y
      BY DEF Unpairing
    <3>2. c # m /\ c.type # "notice"
      BY <2>4, <3>1
    <3>3. c \in net'
      BY <2>3, <3>1, <3>2
    <3>. QED
      BY <3>1, <3>3 DEF Unpairing
  <2>. QED
    BY <2>3, <2>4
<1>7. ASSUME NEW m \in net, HandleNotice(m)
      PROVE  \A x, y \in Device : Lasts(x, y)
  <2>1. m.from \in Device /\ m.to \in Device /\ m.type = "notice"
    BY <1>2, <1>7 DEF HandleNotice
  <2>2. Wipe(m.to, m.from, FALSE, net \ {m}) \/ (net' = net \ {m} /\ UNCHANGED peers)
    BY <1>7 DEF HandleNotice
  <2>3. /\ \A x, y \in Device : peers'[x][y] \in {peers[x][y], None}
        /\ \A x \in net : x \in net' \/ x.type = "notice"
    <3>1. CASE Wipe(m.to, m.from, FALSE, net \ {m})
      <4>1. \A x, y \in Device : peers'[x][y] = IF x = m.to /\ y = m.from THEN None ELSE peers[x][y]
        <5>1. \E owe, messages : Wipe(m.to, m.from, owe, messages)
          BY <3>1
        <5>. QED
          BY <1>0, <2>1, <5>1, WipeCells
      <4>2. net' = {c \in net \ {m} : ~(c.type = "notice" /\ c.from = m.from /\ c.to = m.to)}
        BY <3>1 DEF Wipe
      <4>. QED
        BY <4>1, <4>2, <2>1
    <3>2. CASE net' = net \ {m} /\ UNCHANGED peers
      BY <2>1, <3>2
    <3>. QED
      BY <2>2, <3>1, <3>2
  <2>. QED
    BY <1>4, <2>3
<1>8. ASSUME NEW m \in net, UnpairFails(m) \/ NoticeLost(m)
      PROVE  \A x, y \in Device : Lasts(x, y)
  <2>1. /\ peers' = peers
        /\ \A x \in net : x \in net' \/ x.type = "notice" \/ Unpaired(x.from, x.to, FALSE) \in net'
    BY <1>8 DEF UnpairFails, NoticeLost
  <2>. QED
    BY <1>4, <2>1
<1>9. CASE \E d, e \in Device : Unpair(d, e) \/ Dial(d, e)
  <2>1. peers' = peers /\ net \subseteq net'
    BY <1>9 DEF Unpair, Dial
  <2>. QED
    BY <1>1, <1>4, <2>1
<1>. QED
  BY <1>1, <1>5, <1>6, <1>7, <1>8, <1>9 DEF UnpairingStep, HandleAny

\* what storing does to the rows and to the request
LEMMA ResponderCells ==
  ASSUME Types, NEW q \in Request, ResponderStores(q)
  PROVE  /\ \A x, y \in Device : peers'[x][y] = IF x = To[q] /\ y = From[q] THEN q ELSE peers[x][y]
         /\ \A p \in Request : server'[p] = IF p = q THEN "stored" ELSE server[p]
<1>1. peers \in [Device -> [Device -> Request \cup {None}]] /\ From[q] \in Device /\ To[q] \in Device
  BY Two DEF Types
<1>2. Store(To[q], From[q], q) /\ server' = [server EXCEPT ![q] = "stored"]
  BY DEF ResponderStores
<1>3. \A x, y \in Device : peers'[x][y] = IF x = To[q] /\ y = From[q] THEN q ELSE peers[x][y]
  BY <1>1, <1>2, Stores
<1>. QED
  BY <1>2, <1>3 DEF Types

LEMMA RequesterCells ==
  ASSUME Types, NEW q \in Request, RequesterStores(q)
  PROVE  /\ \A x, y \in Device : peers'[x][y] = IF x = From[q] /\ y = To[q] THEN q ELSE peers[x][y]
         /\ \A p \in Request \ {q} : client'[p] = client[p]
         /\ client'[q] \in {"closing", "done"} /\ (via[q] = "pin" => client'[q] = "closing")
<1>0. peers \in [Device -> [Device -> Request \cup {None}]] /\ From[q] \in Device /\ To[q] \in Device
      /\ Store(From[q], To[q], q)
  BY Two DEF Types, RequesterStores
<1>1. \A x, y \in Device : peers'[x][y] = IF x = From[q] /\ y = To[q] THEN q ELSE peers[x][y]
  BY <1>0, Stores
<1>2. \E to \in {"closing", "done"} : /\ client' = [client EXCEPT ![q] = to]
                                      /\ via[q] = "pin" => to = "closing"
  BY DEF RequesterStores
<1>. QED
  BY <1>1, <1>2 DEF Types

LEMMA SameUnpairing ==
  ASSUME SameUnpairs, NEW d, NEW e PROVE Unpairing(d, e)' = Unpairing(d, e)
BY DEF SameUnpairs, Unpairing

LEMMA FinishCells ==
  ASSUME Types, NEW q \in Request, Finish(q)
  PROVE  /\ client[q] = "closing" /\ client'[q] = "done"
         /\ \A p \in Request \ {q} : client'[p] = client[p]
         /\ UNCHANGED <<via, peers, notice, server, cancelled, cutOff>>
         /\ net' = net \cup (IF q \in cancelled THEN UnpairCalls(From[q], To[q]) ELSE {})
<1>1. client' = [client EXCEPT ![q] = "done"]
  BY DEF Finish, Return
<1>. QED
  BY <1>1 DEF Finish, Types

LEMMA LateStep ==
  ASSUME Inv, Tables, OneCall, Late, [Next]_vars PROVE Late'
<1>0. Types
  BY DEF Inv
<1>. SUFFICES ASSUME NEW q \in Request, via'[q] = "pin", peers'[From[q]][To[q]] = q
              PROVE  client'[q] \in {"closing", "done", "failed"}
  BY DEF Late
<1>d. From[q] \in Device /\ To[q] \in Device /\ From[q] # To[q] /\ q # None
  BY Two, PairingAssumption
<1>1. CASE Calling
  BY <1>1 DEF Calling, Late
<1>2. ASSUME NEW p \in Request, ResponderStores(p)
      PROVE  client'[q] \in {"closing", "done", "failed"}
  <2>1. peers[From[q]][To[q]] = q
    BY <1>0, <1>2, <1>d, ResponderCells
  <2>. QED
    BY <1>2, <2>1 DEF ResponderStores, Late
<1>3. ASSUME NEW p \in Request, RequesterStores(p)
      PROVE  client'[q] \in {"closing", "done", "failed"}
  <2>1. p = q \/ peers[From[q]][To[q]] = q
    BY <1>0, <1>3, <1>d, RequesterCells
  <2>2. p # q => via[q] = "pin" /\ client'[q] = client[q]
    BY <1>0, <1>3, RequesterCells DEF RequesterStores
  <2>3. client'[p] \in {"closing", "done"}
    BY <1>0, <1>3, RequesterCells
  <2>. QED
    BY <2>1, <2>2, <2>3 DEF Late
<1>4. ASSUME NEW p \in Request, Finish(p)
      PROVE  client'[q] \in {"closing", "done", "failed"}
  BY <1>0, <1>4, FinishCells DEF Late
<1>5. CASE UnpairingStep
  <2>1. via[q] = "pin" /\ peers[From[q]][To[q]] = q /\ client' = client
    BY <1>0, <1>5, <1>d, UnpairingLasts
  <2>. QED
    BY <2>1 DEF Late
<1>6. ASSUME NEW d \in Device, Restart(d)
      PROVE  client'[q] \in {"closing", "done", "failed"}
  BY <1>6 DEF Restart, Late
<1>. QED
  BY <1>1, <1>2, <1>3, <1>4, <1>5, <1>6, AllSteps

LEMMA WithdrawnStep ==
  ASSUME Inv, Tables, OneCall, Late, Withdrawn, [Next]_vars PROVE Withdrawn'
<1>0. Types /\ cancelled \subseteq Request
  BY DEF Inv, Tables
<1>d. \A q \in Request : From[q] \in Device /\ To[q] \in Device /\ From[q] # To[q] /\ q # None
  BY Two, PairingAssumption
<1>. DEFINE W(q) == /\ q \in Request /\ via[q] = "pin"
                    /\ q \notin cutOff /\ peers[From[q]][To[q]] = q =>
                         client[q] = "closing" \/ Unpairing(From[q], To[q]) # {}
<1>a. \A q \in cancelled : W(q)
  BY DEF Withdrawn
<1>1. ASSUME Calling, NEW q \in cancelled'
      PROVE  W(q)'
  <2>1. q \in Request
    BY TablesStep, <1>0 DEF Inv, Tables
  <2>2. Unpairing(From[q], To[q])' = Unpairing(From[q], To[q])
    BY <1>1, SameUnpairing DEF Calling
  <2>3. CASE q \in cancelled
    BY <1>1, <1>a, <2>1, <2>2, <2>3 DEF Calling
  <2>4. CASE q \notin cancelled
    <3>1. via[q] = "pin" /\ client'[q] = client[q] /\ client[q] \in {"asked", "confirming", "closing"}
      BY <1>1, <2>1, <2>4 DEF Calling
    <3>2. peers[From[q]][To[q]] = q => client[q] = "closing"
      BY <2>1, <3>1 DEF Late
    <3>. QED
      BY <1>1, <2>1, <3>1, <3>2 DEF Calling
  <2>. QED
    BY <2>3, <2>4
<1>2. ASSUME NEW p \in Request, ResponderStores(p), NEW q \in cancelled'
      PROVE  W(q)'
  <2>1. q \in cancelled /\ q \in Request /\ UNCHANGED <<via, client, cutOff>>
    BY <1>0, <1>2 DEF ResponderStores
  <2>2. Unpairing(From[q], To[q])' = Unpairing(From[q], To[q])
    BY <1>2, SameUnpairing DEF ResponderStores
  <2>3. peers'[From[q]][To[q]] = q => peers[From[q]][To[q]] = q
    BY <1>0, <1>2, <1>d, <2>1, ResponderCells
  <2>. QED
    BY <1>a, <2>1, <2>2, <2>3
<1>3. ASSUME NEW p \in Request, RequesterStores(p), NEW q \in cancelled'
      PROVE  W(q)'
  <2>1. q \in cancelled /\ q \in Request /\ UNCHANGED <<via, cutOff>>
    BY <1>0, <1>3 DEF RequesterStores
  <2>2. Unpairing(From[q], To[q])' = Unpairing(From[q], To[q])
    BY <1>3, SameUnpairing DEF RequesterStores
  <2>3. p = q => client'[q] = "closing"
    BY <1>0, <1>3, <1>a, <2>1, RequesterCells
  <2>4. p # q => client'[q] = client[q] /\ (peers'[From[q]][To[q]] = q => peers[From[q]][To[q]] = q)
    BY <1>0, <1>3, <1>d, <2>1, RequesterCells
  <2>. QED
    BY <1>a, <2>1, <2>2, <2>3, <2>4
<1>4. ASSUME NEW p \in Request, Finish(p), NEW q \in cancelled'
      PROVE  W(q)'
  <2>1. q \in cancelled /\ q \in Request /\ UNCHANGED <<via, peers, cutOff>>
    BY <1>0, <1>4, FinishCells
  <2>2. net \subseteq net'
    BY <1>0, <1>4, FinishCells
  <2>3. Unpairing(From[q], To[q]) \subseteq Unpairing(From[q], To[q])'
    BY <2>2 DEF Unpairing
  <2>4. CASE p # q
    BY <1>0, <1>4, <1>a, <2>1, <2>3, <2>4, FinishCells
  <2>5. CASE p = q
    <3>1. ASSUME peers[From[q]][To[q]] = q
          PROVE  UnpairCall(From[q], To[q], q) \in Unpairing(From[q], To[q])'
      <4>1. UnpairCall(From[q], To[q], q) \in net'
        BY <1>0, <1>4, <1>d, <2>1, <2>5, <3>1, FinishCells DEF UnpairCalls
      <4>. QED
        BY <4>1 DEF Unpairing, UnpairCall
    <3>. QED
      BY <1>a, <2>1, <3>1
  <2>. QED
    BY <2>4, <2>5
<1>5. ASSUME UnpairingStep, NEW q \in cancelled'
      PROVE  W(q)'
  <2>1. q \in cancelled /\ q \in Request /\ UNCHANGED <<via, client, cutOff>>
    BY <1>0, <1>5, UnpairingLasts
  <2>2. /\ peers'[From[q]][To[q]] = q => peers[From[q]][To[q]] = q
        /\ Unpairing(From[q], To[q]) # {} =>
             peers'[From[q]][To[q]] # q \/ Unpairing(From[q], To[q])' # {}
    BY <1>0, <1>5, <1>d, <2>1, UnpairingLasts
  <2>. QED
    BY <1>a, <2>1, <2>2
<1>6. ASSUME NEW d \in Device, Restart(d), NEW q \in cancelled'
      PROVE  W(q)'
  <2>. SUFFICES ASSUME q \notin cutOff', peers'[From[q]][To[q]] = q
                PROVE  W(q)'
    BY <1>0, <1>6, <1>a DEF Restart
  <2>1. /\ q \in cancelled /\ q \in Request /\ UNCHANGED <<via, peers>>
        /\ q \notin cutOff /\ From[q] # d
    BY <1>0, <1>6 DEF Restart
  <2>2. client[q] = "closing" => client'[q] = "closing"
    BY <1>6, <2>1 DEF Restart
  <2>3. ASSUME NEW m \in Unpairing(From[q], To[q])
        PROVE  Unpairing(From[q], To[q])' # {}
    <3>1. m \in net /\ m.type \in {"unpair", "unpaired"} /\ m.from = From[q] /\ m.to = To[q]
      BY DEF Unpairing
    <3>2. CASE To[q] # d
      <4>1. m \in net'
        BY <1>6, <2>1, <3>1, <3>2 DEF Restart
      <4>. QED
        BY <3>1, <4>1 DEF Unpairing
    <3>3. CASE To[q] = d
      <4>1. Unpaired(m.from, d, FALSE) \in net'
        BY <1>6, <3>1, <3>3 DEF Restart
      <4>. QED
        BY <3>1, <3>3, <4>1 DEF Unpairing, Unpaired
    <3>. QED
      BY <3>2, <3>3
  <2>. QED
    BY <1>a, <2>1, <2>2, <2>3
<1>. HIDE DEF W
<1>7. \A q \in cancelled' : W(q)'
  BY <1>1, <1>2, <1>3, <1>4, <1>5, <1>6, AllSteps
<1>. QED
  BY <1>7 DEF W, Withdrawn

\* Everything the proofs about a cancelled pairing need.
Calls == Inv /\ Tables /\ OneCall /\ Late /\ Withdrawn

LEMMA InitCalls == Init => Calls
<1>. SUFFICES ASSUME Init PROVE Calls
  OBVIOUS
<1>1. OneCall
  BY DEF Init, OneCall, Fits
<1>2. Late /\ Withdrawn
  BY Two, PairingAssumption DEF Init, Late, Withdrawn
<1>. QED
  BY <1>1, <1>2, InitInv, TablesInit DEF Calls

LEMMA StepCalls == Calls /\ [Next]_vars => Calls'
BY StepInv, TablesStep, OneCallStep, LateStep, WithdrawnStep DEF Calls, Inv

\* Whoever pressed cancel does not end up with the pairing, whatever is lost or restarted
\* meanwhile and whoever else pairs, unless the own process ended between storing it and
\* taking it back.
THEOREM CancelHolds == Spec => []CancelledIsGone
<1>1. ASSUME Calls
      PROVE  CancelledIsGone
  <2>. SUFFICES ASSUME Quiet, NEW q \in cancelled \ cutOff, peers[From[q]][To[q]] = q
                PROVE  FALSE
    BY DEF CancelledIsGone
  <2>1. q \in Request /\ (client[q] = "closing" \/ Unpairing(From[q], To[q]) # {})
    BY <1>1 DEF Calls, Withdrawn
  <2>2. Unpairing(From[q], To[q]) = {}
    BY DEF Quiet, Unpairing
  <2>. QED
    BY <2>1, <2>2 DEF Quiet
<1>2. Calls => CancelledIsGone
  BY <1>1
<1>. QED
  BY InitCalls, StepCalls, <1>2, PTL DEF Spec

-----------------------------------------------------------------------------
(***************************************************************************)
(* Both ends or neither: as long as only q is asked for, and nobody starts *)
(* anew, an end without the row owes the other a notice, or the other's    *)
(* unpairing is about to end, or the other has no row either.              *)
(***************************************************************************)
Placed ==
  \A d, e \in Device : \A q \in Request : peers[d][e] = q =>
    /\ client[q] # "idle"
    /\ \/ d = From[q] /\ e = To[q]
       \/ d = To[q] /\ e = From[q]

Invited ==
  \A q \in Request : via[q] = "invite" /\ client[q] # "idle" => server[q] \in {"shown", "stored"}

Used == {q \in Request : client[q] # "idle"}

Only(q) == "restart" \notin faults /\ \A p \in Request : p # q => client[p] = "idle"

FHas(q)   == peers[From[q]][To[q]] = q
THas(q)   == peers[To[q]][From[q]] = q
Joined(q) == client[q] \in {"closing", "done"}
FGone(q)  == ~FHas(q) /\ client[q] \in {"closing", "done", "failed"}
TGone(q)  == ~THas(q) /\ server[q] = "stored"

Answered(d, e) == \E m \in net : m.type = "unpaired" /\ m.from = d /\ m.to = e

OfRequester(m, q) ==
  m.from = From[q] /\ m.to = To[q] /\ Joined(q) /\ (m.type = "unpaired" /\ m.ok => TGone(q))
OfResponder(m, q) ==
  m.from = To[q] /\ m.to = From[q] /\ server[q] = "stored" /\ (m.type = "unpaired" /\ m.ok => FGone(q))

Rows(q) ==
  /\ FHas(q) => Joined(q)
  /\ Joined(q) /\ ~FHas(q) =>
       <<From[q], To[q], q>> \in notice \/ Answered(To[q], From[q]) \/ TGone(q)
  /\ server[q] = "stored" /\ ~THas(q) =>
       <<To[q], From[q], q>> \in notice \/ Answered(From[q], To[q]) \/ FGone(q)
  /\ \A n \in notice : \/ n = <<From[q], To[q], q>> /\ FGone(q)
                       \/ n = <<To[q], From[q], q>> /\ TGone(q)

Under(q) ==
  \A m \in net : /\ m.type # "notice"
                 /\ m.type \in {"unpair", "unpaired"} => OfRequester(m, q) \/ OfResponder(m, q)

Both(q) == Rows(q) /\ Under(q)

OneAtATime == \A q \in Request : Only(q) => Both(q)

LEMMA CallingBoth ==
  ASSUME NEW q \in Request, Both(q), Calling
  PROVE  Both(q)'
<1>1. /\ UNCHANGED <<via, peers, notice>> /\ SameUnpairs
      /\ server'[q] = "stored" <=> server[q] = "stored"
      /\ \/ client'[q] = client[q]
         \/ /\ client[q] \in {"idle", "asked", "confirming"}
            /\ client'[q] \in {"asked", "confirming", "failed"}
  BY DEF Calling
<1>2. /\ FHas(q)' <=> FHas(q)
      /\ THas(q)' <=> THas(q)
      /\ TGone(q)' <=> TGone(q)
  BY <1>1 DEF FHas, THas, TGone
<1>3. /\ Joined(q)' <=> Joined(q)
      /\ FGone(q) => FGone(q)'
  BY <1>1 DEF Joined, FGone, FHas
<1>4. \A d, e : Answered(d, e)' <=> Answered(d, e)
  BY <1>1 DEF Answered, SameUnpairs
<1>5. Rows(q)'
  BY <1>1, <1>2, <1>3, <1>4 DEF Both, Rows, FGone
<1>6. ASSUME NEW m \in net'
      PROVE  /\ m.type # "notice"
             /\ m.type \in {"unpair", "unpaired"} => OfRequester(m, q)' \/ OfResponder(m, q)'
  <2>1. m.type \in {"unpair", "unpaired", "notice"} => m \in net
    BY <1>1, <1>6 DEF SameUnpairs
  <2>2. m.type # "notice"
    BY <2>1 DEF Both, Under
  <2>3. ASSUME m.type \in {"unpair", "unpaired"}
        PROVE  OfRequester(m, q)' \/ OfResponder(m, q)'
    <3>1. OfRequester(m, q) \/ OfResponder(m, q)
      BY <2>1, <2>3 DEF Both, Under
    <3>. QED
      BY <1>1, <1>2, <1>3, <3>1 DEF OfRequester, OfResponder
  <2>. QED
    BY <2>2, <2>3
<1>. QED
  BY <1>5, <1>6 DEF Both, Under

LEMMA ResponderBoth ==
  ASSUME Inv, NEW q \in Request, Both(q), ResponderStores(q)
  PROVE  Both(q)'
<1>0. Types /\ From[q] \in Device /\ To[q] \in Device /\ From[q] # To[q]
  BY Two DEF Inv
<1>1. /\ UNCHANGED <<via, notice, client>> /\ SameUnpairs /\ server[q] # "stored"
  BY DEF ResponderStores
<1>2. THas(q)' /\ (FHas(q)' <=> FHas(q)) /\ server'[q] = "stored"
  BY <1>0, ResponderCells DEF THas, FHas
<1>3. ~TGone(q) /\ ~TGone(q)' /\ (Joined(q)' <=> Joined(q)) /\ (FGone(q)' <=> FGone(q))
  BY <1>1, <1>2 DEF TGone, Joined, FGone
<1>4. \A d, e : Answered(d, e)' <=> Answered(d, e)
  BY <1>1 DEF Answered, SameUnpairs
<1>5. Rows(q)'
  BY <1>1, <1>2, <1>3, <1>4 DEF Both, Rows
<1>6. ASSUME NEW m \in net'
      PROVE  /\ m.type # "notice"
             /\ m.type \in {"unpair", "unpaired"} => OfRequester(m, q)' \/ OfResponder(m, q)'
  <2>1. m.type \in {"unpair", "unpaired", "notice"} => m \in net
    BY <1>1, <1>6 DEF SameUnpairs
  <2>2. m.type # "notice"
    BY <2>1 DEF Both, Under
  <2>3. ASSUME m.type \in {"unpair", "unpaired"}
        PROVE  OfRequester(m, q)' \/ OfResponder(m, q)'
    <3>1. OfRequester(m, q) \/ OfResponder(m, q)
      BY <2>1, <2>3 DEF Both, Under
    <3>. QED
      BY <1>1, <1>2, <1>3, <3>1 DEF OfRequester, OfResponder
  <2>. QED
    BY <2>2, <2>3
<1>. QED
  BY <1>5, <1>6 DEF Both, Under

LEMMA RequesterBoth ==
  ASSUME Inv, NEW q \in Request, Both(q), RequesterStores(q)
  PROVE  Both(q)'
<1>0. Types /\ From[q] \in Device /\ To[q] \in Device /\ From[q] # To[q]
  BY Two DEF Inv
<1>1. /\ UNCHANGED <<via, notice, server>> /\ SameUnpairs
      /\ client[q] \in {"idle", "asked", "confirming"}
  BY DEF RequesterStores
<1>2. FHas(q)' /\ (THas(q)' <=> THas(q)) /\ Joined(q)'
  BY <1>0, RequesterCells DEF THas, FHas, Joined
<1>3. ~FGone(q) /\ ~FGone(q)' /\ ~Joined(q) /\ (TGone(q)' <=> TGone(q))
  BY <1>1, <1>2 DEF TGone, Joined, FGone
<1>4. \A d, e : Answered(d, e)' <=> Answered(d, e)
  BY <1>1 DEF Answered, SameUnpairs
<1>5. Rows(q)'
  BY <1>1, <1>2, <1>3, <1>4 DEF Both, Rows
<1>6. ASSUME NEW m \in net'
      PROVE  /\ m.type # "notice"
             /\ m.type \in {"unpair", "unpaired"} => OfRequester(m, q)' \/ OfResponder(m, q)'
  <2>1. m.type \in {"unpair", "unpaired", "notice"} => m \in net
    BY <1>1, <1>6 DEF SameUnpairs
  <2>2. m.type # "notice"
    BY <2>1 DEF Both, Under
  <2>3. ASSUME m.type \in {"unpair", "unpaired"}
        PROVE  OfRequester(m, q)' \/ OfResponder(m, q)'
    <3>1. OfRequester(m, q) \/ OfResponder(m, q)
      BY <2>1, <2>3 DEF Both, Under
    <3>. QED
      BY <1>1, <1>2, <1>3, <3>1 DEF OfRequester, OfResponder
  <2>. QED
    BY <2>2, <2>3
<1>. QED
  BY <1>5, <1>6 DEF Both, Under

\* a call that unpairs is sent, or fails: the rows stay
LEMMA SendingBoth ==
  ASSUME Inv, NEW q \in Request, Both(q), UNCHANGED <<peers, notice, server>>,
         client'[q] = client[q] \/ (client[q] = "closing" /\ client'[q] = "done"),
         \A d, e : Answered(d, e) => Answered(d, e)',
         \A m \in net' : m \in net \/ (/\ m.type \in {"unpair", "unpaired"} /\ (m.type = "unpaired" => ~m.ok)
                                       /\ OfRequester(m, q) \/ OfResponder(m, q))
  PROVE  Both(q)'
<1>1. (FHas(q)' <=> FHas(q)) /\ (THas(q)' <=> THas(q)) /\ (TGone(q)' <=> TGone(q))
  BY DEF FHas, THas, TGone
<1>2. (Joined(q)' <=> Joined(q)) /\ (FGone(q)' <=> FGone(q))
  BY <1>1 DEF Joined, FGone
<1>3. Rows(q)'
  BY <1>1, <1>2 DEF Both, Rows
<1>4. ASSUME NEW m \in net'
      PROVE  /\ m.type # "notice"
             /\ m.type \in {"unpair", "unpaired"} => OfRequester(m, q)' \/ OfResponder(m, q)'
  <2>1. m.type # "notice"
    BY DEF Both, Under
  <2>2. m.type \in {"unpair", "unpaired"} => OfRequester(m, q) \/ OfResponder(m, q)
    BY DEF Both, Under
  <2>. QED
    BY <1>1, <1>2, <2>1, <2>2 DEF OfRequester, OfResponder
<1>. QED
  BY <1>3, <1>4 DEF Both, Under

\* only q is asked for: a row is of q, at either end
LEMMA OnlyRow ==
  ASSUME Types, Placed, NEW q \in Request, Only(q), NEW d \in Device, NEW e \in Device,
         peers[d][e] # None
  PROVE  peers[d][e] = q /\ ((d = From[q] /\ e = To[q]) \/ (d = To[q] /\ e = From[q]))
<1>1. peers[d][e] \in Request
  BY DEF Types
<1>. QED
  BY <1>1 DEF Placed, Only

LEMMA UnpairBoth ==
  ASSUME Inv, Placed, NEW q \in Request, Only(q), Both(q), NEW m \in net, m.t \in Request, HandleUnpair(m)
  PROVE  Both(q)'
<1>0. Types /\ Held /\ From[q] \in Device /\ To[q] \in Device /\ From[q] # To[q] /\ q # None
  BY Two, PairingAssumption DEF Inv
<1>. DEFINE d == m.from
            e == m.to
            ok == peers[e][d] = m.t
            answered == (net \ {m}) \cup {Unpaired(d, e, ok)}
<1>1. /\ m.type = "unpair" /\ UNCHANGED <<via, client, server>>
      /\ IF ok THEN Wipe(e, d, FALSE, answered)
               ELSE net' = answered /\ UNCHANGED <<peers, notice>>
  BY DEF HandleUnpair
<1>2. OfRequester(m, q) \/ OfResponder(m, q)
  BY <1>1 DEF Both, Under
<1>3. d \in Device /\ e \in Device
  BY <1>0, <1>2 DEF OfRequester, OfResponder
<1>4. ok => peers[e][d] = q
  BY <1>0, <1>3, OnlyRow, PairingAssumption
<1>5. /\ Unpaired(d, e, ok).type = "unpaired" /\ Unpaired(d, e, ok).from = d /\ Unpaired(d, e, ok).to = e
      /\ Unpaired(d, e, ok).ok = ok
  BY DEF Unpaired
<1>6. notice' = notice
  BY <1>1 DEF Wipe
<1>7. net' \subseteq answered /\ \A x \in answered : x \in net' \/ x.type = "notice"
  BY <1>1 DEF Wipe
<1>8. ok => \A x, y \in Device : peers'[x][y] = IF x = e /\ y = d THEN None ELSE peers[x][y]
  <2>1. ok => \E owe, messages : Wipe(e, d, owe, messages)
    BY <1>1
  <2>. QED
    BY <1>0, <1>3, <2>1, WipeCells
<1>9. ~ok => peers' = peers
  BY <1>1
<1>. HIDE DEF ok
<1>10. Unpaired(d, e, ok) \in net' /\ \A x \in net' : x = Unpaired(d, e, ok) \/ (x \in net /\ x # m)
  BY <1>5, <1>7
<1>11. \A x \in net : x = m \/ x \in net' \/ x.type = "notice"
  BY <1>7
<1>12. \A x, y : Answered(x, y) => Answered(x, y)'
  BY <1>1, <1>11 DEF Answered
<1>13. Answered(d, e)'
  BY <1>5, <1>10 DEF Answered
<1>. HIDE DEF d, e, answered
<1>14. ASSUME d = From[q], e = To[q], Joined(q)
       PROVE  Both(q)'
  <2>1. /\ Joined(q)' /\ (FHas(q)' <=> FHas(q)) /\ (FGone(q)' <=> FGone(q))
        /\ TGone(q) => TGone(q)'
        /\ ok => TGone(q)'
        /\ ~THas(q)' => ok \/ ~THas(q)
    <3>1. CASE ok
      <4>1. THas(q) /\ server'[q] = "stored" /\ ~THas(q)' /\ (FHas(q)' <=> FHas(q))
        BY <1>0, <1>1, <1>4, <1>8, <1>14, <3>1 DEF THas, FHas, Held
      <4>. QED
        BY <1>1, <1>14, <3>1, <4>1 DEF Joined, FGone, TGone
    <3>2. CASE ~ok
      BY <1>1, <1>9, <1>14, <3>2 DEF THas, FHas, Joined, FGone, TGone
    <3>. QED
      BY <3>1, <3>2
  <2>2. Rows(q)'
    BY <1>1, <1>6, <1>12, <1>13, <1>14, <2>1 DEF Both, Rows
  <2>3. ASSUME NEW x \in net'
        PROVE  /\ x.type # "notice"
               /\ x.type \in {"unpair", "unpaired"} => OfRequester(x, q)' \/ OfResponder(x, q)'
    <3>1. CASE x = Unpaired(d, e, ok)
      BY <1>5, <1>14, <2>1, <3>1 DEF OfRequester
    <3>2. CASE x \in net
      BY <1>1, <2>1, <3>2 DEF Both, Under, OfRequester, OfResponder
    <3>. QED
      BY <1>10, <3>1, <3>2
  <2>. QED
    BY <2>2, <2>3 DEF Both, Under
<1>15. ASSUME d = To[q], e = From[q], server[q] = "stored"
       PROVE  Both(q)'
  <2>1. /\ (Joined(q)' <=> Joined(q)) /\ (THas(q)' <=> THas(q)) /\ (TGone(q)' <=> TGone(q))
        /\ FGone(q) => FGone(q)'
        /\ ok => FGone(q)'
        /\ FHas(q)' => FHas(q)
    <3>1. CASE ok
      <4>1. FHas(q) /\ ~FHas(q)' /\ (THas(q)' <=> THas(q))
        BY <1>0, <1>1, <1>4, <1>8, <1>15, <3>1 DEF THas, FHas
      <4>2. Joined(q)
        BY <4>1 DEF Both, Rows
      <4>. QED
        BY <1>1, <1>15, <3>1, <4>1, <4>2 DEF Joined, FGone, TGone
    <3>2. CASE ~ok
      BY <1>1, <1>9, <1>15, <3>2 DEF THas, FHas, Joined, FGone, TGone
    <3>. QED
      BY <3>1, <3>2
  <2>2. Rows(q)'
    BY <1>1, <1>6, <1>12, <1>13, <1>15, <2>1 DEF Both, Rows
  <2>3. ASSUME NEW x \in net'
        PROVE  /\ x.type # "notice"
               /\ x.type \in {"unpair", "unpaired"} => OfRequester(x, q)' \/ OfResponder(x, q)'
    <3>1. CASE x = Unpaired(d, e, ok)
      BY <1>1, <1>5, <1>15, <2>1, <3>1 DEF OfResponder
    <3>2. CASE x \in net
      BY <1>1, <2>1, <3>2 DEF Both, Under, OfRequester, OfResponder
    <3>. QED
      BY <1>10, <3>1, <3>2
  <2>. QED
    BY <2>2, <2>3 DEF Both, Under
<1>. QED
  BY <1>2, <1>14, <1>15 DEF OfRequester, OfResponder, d, e

LEMMA UnpairedBoth ==
  ASSUME Inv, Tables, Placed, NEW q \in Request, Only(q), Both(q), NEW m \in net, HandleUnpaired(m)
  PROVE  Both(q)'
<1>0. Types /\ From[q] \in Device /\ To[q] \in Device /\ From[q] # To[q] /\ q # None
  BY Two, PairingAssumption DEF Inv
<1>. DEFINE d == m.from
            e == m.to
<1>1. m.type = "unpaired" /\ UNCHANGED <<via, client, server>> /\ Wipe(d, e, ~m.ok, net \ {m})
  BY DEF HandleUnpaired
<1>2. OfRequester(m, q) \/ OfResponder(m, q)
  BY <1>1 DEF Both, Under
<1>3. d \in Device /\ e \in Device
  BY <1>0, <1>2 DEF OfRequester, OfResponder
<1>4. peers[d][e] # None => peers[d][e] = q
  BY <1>0, <1>3, OnlyRow
<1>5. \A x, y \in Device : peers'[x][y] = IF x = d /\ y = e THEN None ELSE peers[x][y]
  <2>1. \E owe, messages : Wipe(d, e, owe, messages)
    BY <1>1
  <2>. QED
    BY <1>0, <1>3, <2>1, WipeCells
<1>6. /\ notice' = IF ~m.ok /\ peers[d][e] # None
                     THEN {n \in notice : <<n[1], n[2]>> # <<d, e>>} \cup {<<d, e, peers[d][e]>>}
                     ELSE notice
      /\ net' = {c \in net \ {m} : ~(c.type = "notice" /\ c.from = e /\ c.to = d)}
  BY <1>1 DEF Wipe
<1>7. /\ \A n \in notice' : n \in notice \/ n = <<d, e, q>>
      /\ ~m.ok /\ peers[d][e] = q => <<d, e, q>> \in notice'
      /\ \A n \in notice : n \in notice' \/ <<n[1], n[2]>> = <<d, e>>
      /\ peers[d][e] # q => notice' = notice
  <2>1. CASE ~m.ok /\ peers[d][e] # None
    BY <1>0, <1>4, <1>6, <2>1
  <2>2. CASE ~(~m.ok /\ peers[d][e] # None)
    BY <1>0, <1>4, <1>6, <2>2
  <2>. QED
    BY <2>1, <2>2
<1>8. /\ \A x \in net' : x \in net
      /\ \A x \in net : x = m \/ x \in net' \/ x.type = "notice"
  BY <1>6
<1>9. \A x, y : Answered(x, y) /\ ~(x = d /\ y = e) => Answered(x, y)'
  BY <1>1, <1>8 DEF Answered
<1>10. <<From[q], To[q], q>>[1] = From[q] /\ <<From[q], To[q], q>>[2] = To[q]
       /\ <<To[q], From[q], q>>[1] = To[q] /\ <<To[q], From[q], q>>[2] = From[q]
  OBVIOUS
<1>. HIDE DEF d, e
<1>11. ASSUME d = From[q], e = To[q], Joined(q), m.ok => TGone(q)
       PROVE  Both(q)'
  <2>1. /\ ~FHas(q)' /\ FGone(q)' /\ (THas(q)' <=> THas(q)) /\ (TGone(q)' <=> TGone(q))
        /\ (Joined(q)' <=> Joined(q))
    BY <1>0, <1>1, <1>5, <1>11 DEF FHas, FGone, THas, TGone, Joined
  <2>2. <<From[q], To[q], q>> \in notice' \/ Answered(To[q], From[q])' \/ TGone(q)'
    <3>1. CASE m.ok
      BY <1>11, <2>1, <3>1
    <3>2. CASE ~m.ok /\ FHas(q)
      BY <1>7, <1>11, <3>2 DEF FHas
    <3>3. CASE ~m.ok /\ ~FHas(q)
      <4>1. <<From[q], To[q], q>> \in notice \/ Answered(To[q], From[q]) \/ TGone(q)
        BY <1>11, <3>3 DEF Both, Rows
      <4>2. notice' = notice
        BY <1>7, <1>11, <3>3 DEF FHas
      <4>3. ~(To[q] = d /\ From[q] = e)
        BY <1>0, <1>11
      <4>. QED
        BY <1>9, <2>1, <4>1, <4>2, <4>3
    <3>. QED
      BY <3>1, <3>2, <3>3
  <2>3. \A n \in notice' : \/ n = <<From[q], To[q], q>> /\ FGone(q)'
                           \/ n = <<To[q], From[q], q>> /\ TGone(q)'
    BY <1>7, <1>11, <2>1 DEF Both, Rows
  <2>4. Rows(q)'
    BY <2>1, <2>2, <2>3 DEF Rows
  <2>5. ASSUME NEW x \in net'
        PROVE  /\ x.type # "notice"
               /\ x.type \in {"unpair", "unpaired"} => OfRequester(x, q)' \/ OfResponder(x, q)'
    BY <1>1, <1>8, <2>1 DEF Both, Under, OfRequester, OfResponder
  <2>. QED
    BY <2>4, <2>5 DEF Both, Under
<1>12. ASSUME d = To[q], e = From[q], server[q] = "stored", m.ok => FGone(q)
       PROVE  Both(q)'
  <2>1. /\ ~THas(q)' /\ TGone(q)' /\ (FHas(q)' <=> FHas(q)) /\ (FGone(q)' <=> FGone(q))
        /\ (Joined(q)' <=> Joined(q))
    BY <1>0, <1>1, <1>5, <1>12 DEF FHas, FGone, THas, TGone, Joined
  <2>2. <<To[q], From[q], q>> \in notice' \/ Answered(From[q], To[q])' \/ FGone(q)'
    <3>1. CASE m.ok
      BY <1>12, <2>1, <3>1
    <3>2. CASE ~m.ok /\ THas(q)
      BY <1>7, <1>12, <3>2 DEF THas
    <3>3. CASE ~m.ok /\ ~THas(q)
      <4>1. <<To[q], From[q], q>> \in notice \/ Answered(From[q], To[q]) \/ FGone(q)
        BY <1>12, <3>3 DEF Both, Rows
      <4>2. notice' = notice
        BY <1>7, <1>12, <3>3 DEF THas
      <4>3. ~(From[q] = d /\ To[q] = e)
        BY <1>0, <1>12
      <4>. QED
        BY <1>9, <2>1, <4>1, <4>2, <4>3
    <3>. QED
      BY <3>1, <3>2, <3>3
  <2>3. \A n \in notice' : \/ n = <<From[q], To[q], q>> /\ FGone(q)'
                           \/ n = <<To[q], From[q], q>> /\ TGone(q)'
    BY <1>7, <1>12, <2>1 DEF Both, Rows
  <2>4. Rows(q)'
    BY <1>1, <1>12, <2>1, <2>2, <2>3 DEF Both, Rows
  <2>5. ASSUME NEW x \in net'
        PROVE  /\ x.type # "notice"
               /\ x.type \in {"unpair", "unpaired"} => OfRequester(x, q)' \/ OfResponder(x, q)'
    BY <1>1, <1>8, <2>1 DEF Both, Under, OfRequester, OfResponder
  <2>. QED
    BY <2>4, <2>5 DEF Both, Under
<1>. QED
  BY <1>1, <1>2, <1>11, <1>12 DEF OfRequester, OfResponder, d, e

\* nothing is flushed: the end that owes a notice has no row, and dials nobody
LEMMA NoDial ==
  ASSUME Inv, Placed, NEW q \in Request, Only(q), Both(q), NEW d \in Device, NEW e \in Device, Dial(d, e)
  PROVE  FALSE
<1>0. Types /\ From[q] \in Device /\ To[q] \in Device /\ From[q] # To[q]
  BY Two DEF Inv
<1>. DEFINE same == peers[e][d] = peers[d][e]
<1>1. PICK up \in {FALSE, same} :
        \E n \in notice : <<n[1], n[2]>> = <<d, e>> \/ (up /\ <<n[1], n[2]>> = <<e, d>>)
  BY DEF Dial
<1>2. PICK n \in notice : <<n[1], n[2]>> = <<d, e>> \/ (up /\ <<n[1], n[2]>> = <<e, d>>)
  BY <1>1
<1>a. up = FALSE \/ up = same
  BY <1>1
<1>b. up => same
  BY <1>a
<1>3. peers[d][e] = q /\ (up => peers[e][d] = q)
  BY <1>0, <1>b, OnlyRow DEF Dial
<1>4. \/ n[1] = From[q] /\ n[2] = To[q] /\ FGone(q)
      \/ n[1] = To[q] /\ n[2] = From[q] /\ TGone(q)
  BY DEF Both, Rows
<1>5. \/ n[1] = d /\ n[2] = e
      \/ up /\ n[1] = e /\ n[2] = d
  BY <1>2
<1>. QED
  BY <1>3, <1>4, <1>5 DEF FGone, TGone, FHas, THas

LEMMA UnpairingBoth ==
  ASSUME Inv, Tables, Placed, NEW q \in Request, Only(q), Both(q), UnpairingStep
  PROVE  Both(q)'
<1>0. Types /\ Held /\ From[q] \in Device /\ To[q] \in Device /\ From[q] # To[q] /\ q # None
  BY Two, PairingAssumption DEF Inv
<1>1. ASSUME NEW m \in net, HandleAny(m)
      PROVE  Both(q)'
  <2>1. m.type # "notice"
    BY DEF Both, Under
  <2>2. m.type = "unpair" => m.t \in Request
    BY UnpairFields DEF Tables
  <2>. QED
    BY <1>1, <2>1, <2>2, UnpairBoth, UnpairedBoth DEF HandleAny, HandleNotice, HandleUnpair
<1>2. ASSUME NEW m \in net, UnpairFails(m) \/ NoticeLost(m)
      PROVE  Both(q)'
  <2>1. UnpairFails(m)
    BY <1>2 DEF NoticeLost, Both, Under
  <2>2. /\ m.type \in {"unpair", "unpaired"} /\ UNCHANGED <<peers, notice, client, server>>
        /\ net' = (net \ {m}) \cup {Unpaired(m.from, m.to, FALSE)}
    BY <2>1 DEF UnpairFails
  <2>. DEFINE u == Unpaired(m.from, m.to, FALSE)
  <2>3. u.type = "unpaired" /\ u.from = m.from /\ u.to = m.to /\ ~u.ok
    BY DEF Unpaired
  <2>4. OfRequester(m, q) \/ OfResponder(m, q)
    BY <2>2 DEF Both, Under
  <2>5. u \in net' /\ \A x \in net : x = m \/ x \in net'
    BY <2>2
  <2>6. \A x \in net' : x \in net \/ x = u
    BY <2>2
  <2>. HIDE DEF u
  <2>7. OfRequester(u, q) \/ OfResponder(u, q)
    BY <2>3, <2>4 DEF OfRequester, OfResponder
  <2>8. \A d, e : Answered(d, e) => Answered(d, e)'
    BY <2>3, <2>5 DEF Answered
  <2>9. \A x \in net' : x \in net \/ (/\ x.type \in {"unpair", "unpaired"} /\ (x.type = "unpaired" => ~x.ok)
                                      /\ OfRequester(x, q) \/ OfResponder(x, q))
    BY <2>3, <2>6, <2>7
  <2>. QED
    BY <2>2, <2>8, <2>9, SendingBoth
<1>3. ASSUME NEW d \in Device, NEW e \in Device, Unpair(d, e)
      PROVE  Both(q)'
  <2>1. peers[d][e] # None /\ UNCHANGED <<peers, notice, client, server>>
        /\ net' = net \cup {UnpairCall(d, e, peers[d][e])}
    BY <1>3 DEF Unpair, UnpairCalls
  <2>2. peers[d][e] = q /\ ((d = From[q] /\ e = To[q]) \/ (d = To[q] /\ e = From[q]))
    BY <1>0, <2>1, OnlyRow
  <2>. DEFINE u == UnpairCall(d, e, peers[d][e])
  <2>3. u.type = "unpair" /\ u.from = d /\ u.to = e
    BY DEF UnpairCall
  <2>4. \A x \in net' : x \in net \/ x = u
    BY <2>1
  <2>5. net \subseteq net'
    BY <2>1
  <2>. HIDE DEF u
  <2>6. OfRequester(u, q) \/ OfResponder(u, q)
    <3>1. CASE d = From[q] /\ e = To[q]
      <4>1. Joined(q)
        BY <2>2, <3>1 DEF FHas, Both, Rows
      <4>. QED
        BY <2>3, <3>1, <4>1 DEF OfRequester
    <3>2. CASE d = To[q] /\ e = From[q]
      <4>1. server[q] = "stored"
        BY <1>0, <2>2, <3>2 DEF Held
      <4>. QED
        BY <2>3, <3>2, <4>1 DEF OfResponder
    <3>. QED
      BY <2>2, <3>1, <3>2
  <2>7. \A x, y : Answered(x, y) => Answered(x, y)'
    BY <2>5 DEF Answered
  <2>8. \A x \in net' : x \in net \/ (/\ x.type \in {"unpair", "unpaired"} /\ (x.type = "unpaired" => ~x.ok)
                                      /\ OfRequester(x, q) \/ OfResponder(x, q))
    BY <2>3, <2>4, <2>6
  <2>. QED
    BY <2>1, <2>7, <2>8, SendingBoth
<1>. QED
  BY <1>1, <1>2, <1>3, NoDial DEF UnpairingStep

LEMMA FinishBoth ==
  ASSUME Inv, Placed, NEW q \in Request, Only(q), Both(q), Finish(q)
  PROVE  Both(q)'
<1>0. Types /\ From[q] \in Device /\ To[q] \in Device
  BY Two DEF Inv
<1>1. /\ client[q] = "closing" /\ client'[q] = "done" /\ UNCHANGED <<peers, notice, server>>
      /\ net' = net \cup (IF q \in cancelled THEN UnpairCalls(From[q], To[q]) ELSE {})
  BY <1>0, FinishCells
<1>2. \A x \in net' : x \in net \/ x = UnpairCall(From[q], To[q], peers[From[q]][To[q]])
  BY <1>1 DEF UnpairCalls
<1>. DEFINE u == UnpairCall(From[q], To[q], peers[From[q]][To[q]])
<1>3. u.type = "unpair" /\ u.from = From[q] /\ u.to = To[q]
  BY DEF UnpairCall
<1>4. \A x \in net' : x \in net \/ x = u
  BY <1>2
<1>. HIDE DEF u
<1>5. OfRequester(u, q)
  BY <1>1, <1>3 DEF OfRequester, Joined
<1>6. \A x, y : Answered(x, y) => Answered(x, y)'
  BY <1>1 DEF Answered
<1>7. \A x \in net' : x \in net \/ (/\ x.type \in {"unpair", "unpaired"} /\ (x.type = "unpaired" => ~x.ok)
                                    /\ OfRequester(x, q) \/ OfResponder(x, q))
  BY <1>3, <1>4, <1>5
<1>. QED
  BY <1>1, <1>6, <1>7, SendingBoth

LEMMA PlacedStep ==
  ASSUME Inv, Tables, OneCall, Placed, Invited, [Next]_vars
  PROVE  /\ Placed' /\ Invited'
         /\ \A p \in Request : client[p] # "idle" => client'[p] # "idle"
         /\ \A p, r \in Request \ Used : p \in Used' /\ r \in Used' => p = r
<1>0. Types /\ (\A q \in Request : q # None) /\ (\A q \in Request : From[q] \in Device /\ To[q] \in Device)
  BY Two, PairingAssumption DEF Inv
<1>. DEFINE P == /\ Placed' /\ Invited'
                 /\ \A p \in Request : client[p] # "idle" => client'[p] # "idle"
                 /\ \A p, r \in Request \ Used : p \in Used' /\ r \in Used' => p = r
<1>1. CASE Calling
  <2>1. peers' = peers /\ \A p \in Request : client[p] # "idle" => client'[p] # "idle"
    BY <1>1 DEF Calling
  <2>2. Placed'
    BY <2>1 DEF Placed
  <2>3. Invited'
    BY <1>1 DEF Calling, Invited
  <2>4. \A p, r \in Request \ Used : p \in Used' /\ r \in Used' => p = r
    BY <1>1 DEF Calling, Used
  <2>. QED
    BY <2>1, <2>2, <2>3, <2>4
<1>2. ASSUME NEW q \in Request, ResponderStores(q)
      PROVE  P
  <2>1. UNCHANGED <<via, client>> /\ client[q] # "idle"
    BY <1>2 DEF ResponderStores
  <2>2. /\ \A x, y \in Device : peers'[x][y] = IF x = To[q] /\ y = From[q] THEN q ELSE peers[x][y]
        /\ \A p \in Request : server'[p] = IF p = q THEN "stored" ELSE server[p]
    BY <1>0, <1>2, ResponderCells
  <2>3. Placed'
    BY <2>1, <2>2 DEF Placed
  <2>4. Invited'
    BY <2>1, <2>2 DEF Invited
  <2>. QED
    BY <2>1, <2>3, <2>4 DEF Used
<1>3. ASSUME NEW q \in Request, RequesterStores(q)
      PROVE  P
  <2>1. UNCHANGED <<via, server>> /\ (via[q] = "invite" => server[q] = "shown")
    BY <1>3 DEF RequesterStores
  <2>2. /\ \A x, y \in Device : peers'[x][y] = IF x = From[q] /\ y = To[q] THEN q ELSE peers[x][y]
        /\ \A p \in Request \ {q} : client'[p] = client[p]
        /\ client'[q] \in {"closing", "done"}
    BY <1>0, <1>3, RequesterCells
  <2>3. \A p \in Request : client[p] # "idle" => client'[p] # "idle"
    BY <2>2
  <2>4. Placed'
    BY <2>2, <2>3 DEF Placed
  <2>5. Invited'
    BY <2>1, <2>2 DEF Invited
  <2>6. \A p, r \in Request \ Used : p \in Used' /\ r \in Used' => p = r
    BY <2>2 DEF Used
  <2>. QED
    BY <2>3, <2>4, <2>5, <2>6
<1>4. ASSUME NEW q \in Request, Finish(q)
      PROVE  P
  <2>1. /\ client[q] = "closing" /\ client'[q] = "done" /\ UNCHANGED <<via, peers, server>>
        /\ \A p \in Request \ {q} : client'[p] = client[p]
    BY <1>0, <1>4, FinishCells
  <2>2. \A p \in Request : client'[p] # "idle" <=> client[p] # "idle"
    BY <2>1
  <2>. QED
    BY <2>1, <2>2 DEF Placed, Invited, Used
<1>5. CASE UnpairingStep
  <2>1. /\ UNCHANGED <<via, client, server>>
        /\ \A x, y \in Device : peers'[x][y] \in {peers[x][y], None}
    BY <1>0, <1>5, UnpairingLasts
  <2>2. Placed'
    BY <1>0, <2>1 DEF Placed
  <2>. QED
    BY <2>1, <2>2 DEF Invited, Used
<1>6. ASSUME NEW d \in Device, Restart(d)
      PROVE  P
  <2>1. /\ UNCHANGED <<via, peers>>
        /\ \A p \in Request : client'[p] # "idle" <=> client[p] # "idle"
        /\ \A p \in Request : server[p] \in {"shown", "stored"} => server'[p] = server[p]
    BY <1>6 DEF Restart
  <2>2. Placed'
    BY <2>1 DEF Placed
  <2>3. Invited'
    BY <2>1 DEF Invited
  <2>. QED
    BY <2>1, <2>2, <2>3 DEF Used
<1>. HIDE DEF P
<1>7. P
  BY <1>2, <1>3, <1>4, <1>5, <1>6, <1>1, AllSteps DEF P
<1>. QED
  BY <1>7 DEF P

LEMMA UsedStep ==
  ASSUME Inv, Tables, OneCall, Placed, Invited, IsFiniteSet(Used), [Next]_vars
  PROVE  IsFiniteSet(Used')
<1>1. \A p, r \in Request \ Used : p \in Used' /\ r \in Used' => p = r
  BY PlacedStep
<1>2. Used' \subseteq Request
  BY DEF Used
<1>3. CASE Used' \subseteq Used
  BY <1>3, FS_Subset
<1>4. CASE ~(Used' \subseteq Used)
  <2>1. PICK p \in Used' : p \notin Used
    BY <1>4
  <2>2. Used' \subseteq Used \cup {p}
    BY <1>1, <1>2, <2>1
  <2>3. IsFiniteSet(Used \cup {p})
    BY FS_AddElement
  <2>. QED
    BY <2>2, <2>3, FS_Subset
<1>. QED
  BY <1>3, <1>4

\* A fault that happened is remembered.
LEMMA FaultsStay ==
  ASSUME [Next]_vars PROVE faults \subseteq faults'
<1>1. ASSUME NEW q \in Request, Handle(q) \/ User(q) \/ Timeout(q) \/ CallFails(q) \/ CancelLost(q)
      PROVE  faults \subseteq faults'
  BY <1>1 DEF Handle, User, Timeout, CallFails, CancelLost, Fault, Admit, Refuse, HandleCancel,
     HandleAccepted, HandleRejected, HandleConfirm, HandleConfirmed, Finish, HandleTap, HandleAnswer,
     Ask, Cancel, ShowCode, Scan, Join, Respond
<1>2. ASSUME NEW m \in net, HandleAny(m) \/ UnpairFails(m) \/ NoticeLost(m)
      PROVE  faults \subseteq faults'
  BY <1>2 DEF HandleAny, HandleUnpair, HandleUnpaired, HandleNotice, UnpairFails, NoticeLost, Fault
<1>3. ASSUME NEW d \in Device, Restart(d) \/ (\E way \in {"tap", "invite"} : ForgetCode(d, way))
                                 \/ (\E e \in Device : Unpair(d, e) \/ Dial(d, e))
      PROVE  faults \subseteq faults'
  BY <1>3 DEF Restart, Fault, ForgetCode, Unpair, Dial
<1>4. CASE UNCHANGED vars
  BY <1>4 DEF vars
<1>. QED
  BY <1>1, <1>2, <1>3, <1>4 DEF Next

LEMMA OneAtATimeStep ==
  ASSUME Inv, Tables, OneCall, Placed, Invited, OneAtATime, [Next]_vars
  PROVE  OneAtATime'
<1>. SUFFICES ASSUME NEW q \in Request, Only(q)'
              PROVE  Both(q)'
  BY DEF OneAtATime
<1>1. "restart" \notin faults' /\ \A p \in Request : p # q => client'[p] = "idle"
  BY DEF Only
<1>2. \A p \in Request : client[p] # "idle" => client'[p] # "idle"
  BY PlacedStep
<1>3. Only(q)
  BY <1>1, <1>2, FaultsStay DEF Only
<1>4. Both(q) /\ Types
  BY <1>3 DEF OneAtATime, Inv
<1>5. ASSUME NEW p \in Request, ResponderStores(p)
      PROVE  Both(q)'
  <2>1. p = q
    BY <1>3, <1>5 DEF ResponderStores, Only
  <2>. QED
    BY <1>4, <1>5, <2>1, ResponderBoth
<1>6. ASSUME NEW p \in Request, RequesterStores(p)
      PROVE  Both(q)'
  <2>1. client'[p] # "idle"
    BY <1>4, <1>6, RequesterCells
  <2>2. p = q
    BY <1>1, <2>1
  <2>. QED
    BY <1>4, <1>6, <2>2, RequesterBoth
<1>7. ASSUME NEW p \in Request, Finish(p)
      PROVE  Both(q)'
  <2>1. p = q
    BY <1>3, <1>7 DEF Finish, Only
  <2>. QED
    BY <1>3, <1>4, <1>7, <2>1, FinishBoth
<1>8. ASSUME NEW d \in Device, Restart(d)
      PROVE  FALSE
  BY <1>1, <1>8 DEF Restart, Fault
<1>. QED
  BY <1>3, <1>4, <1>5, <1>6, <1>7, <1>8, CallingBoth, UnpairingBoth, AllSteps

Pairs == Calls /\ Placed /\ Invited /\ IsFiniteSet(Used) /\ OneAtATime

LEMMA InitPairs == Init => Pairs
<1>. SUFFICES ASSUME Init PROVE Pairs
  OBVIOUS
<1>1. Placed /\ Invited
  BY PairingAssumption DEF Init, Placed, Invited
<1>2. Used = {}
  BY DEF Init, Used
<1>3. IsFiniteSet(Used)
  BY <1>2, FS_EmptySet
<1>4. OneAtATime
  BY Two, PairingAssumption DEF Init, OneAtATime, Both, Rows, Under, FHas, Joined
<1>. QED
  BY <1>1, <1>3, <1>4, InitCalls DEF Pairs

LEMMA StepPairs == Pairs /\ [Next]_vars => Pairs'
BY StepCalls, PlacedStep, UsedStep, OneAtATimeStep DEF Pairs, Calls

\* at most one request is used: all others are idle
LEMMA OneUsed ==
  ASSUME IsFiniteSet(Used), Cardinality(Used) <= 1, NEW p \in Used, NEW r \in Used
  PROVE  p = r
<1>. SUFFICES ASSUME p # r
              PROVE  FALSE
  OBVIOUS
<1>1. IsFiniteSet({p}) /\ Cardinality({p}) = 1
  BY FS_Singleton
<1>2. IsFiniteSet({p} \cup {r}) /\ Cardinality({p} \cup {r}) = 2
  <2>. DEFINE S == {p}
  <2>1. IsFiniteSet(S) /\ Cardinality(S) = 1 /\ r \notin S
    BY <1>1
  <2>. HIDE DEF S
  <2>2. IsFiniteSet(S \cup {r}) /\ Cardinality(S \cup {r}) = Cardinality(S) + 1
    BY <2>1, FS_AddElement
  <2>3. IsFiniteSet(S \cup {r}) /\ Cardinality(S \cup {r}) = 2
    BY <2>1, <2>2
  <2>. QED
    BY <2>3 DEF S
<1>3. {p} \cup {r} \subseteq Used
  OBVIOUS
<1>4. Cardinality({p} \cup {r}) <= Cardinality(Used) /\ Cardinality(Used) \in Nat
  BY <1>2, <1>3, FS_Subset, FS_CardinalityType
<1>. QED
  BY <1>2, <1>4

\* When all is quiet after one pairing, however it went, both ends hold it or neither does,
\* with the exceptions that the property names.
THEOREM OnePairingAgrees == Spec => []BothOrNeither
<1>1. ASSUME Pairs
      PROVE  BothOrNeither
  <2>0. Types /\ Held /\ Placed /\ Invited /\ IsFiniteSet(Used) /\ OneAtATime /\ Late
    BY <1>1 DEF Pairs, Calls, Inv
  <2>. DEFINE agree(d, e) ==
         \/ peers[d][e] = peers[e][d]
         \/ peers[d][e] = None /\ <<d, e, peers[e][d]>> \in notice
         \/ peers[e][d] = None /\ <<e, d, peers[d][e]>> \in notice
         \/ \E q \in {peers[d][e], peers[e][d]} \ {None} :
              \/ client[q] = "failed" /\ peers[From[q]][To[q]] = None
              \/ via[q] = "invite" /\ server[q] = "shown"
  <2>. SUFFICES ASSUME Quiet, "restart" \notin faults, Cardinality(Used) <= 1
                PROVE  \A d, e \in Device : agree(d, e)
    BY DEF BothOrNeither, Used
  <2>1. \A p, r \in Request : client[p] # "idle" /\ client[r] # "idle" => p = r
    BY <2>0, OneUsed DEF Used
  <2>2. ASSUME NEW d \in Device, NEW e \in Device, peers[d][e] # None
        PROVE  agree(d, e) /\ agree(e, d)
    <3>. DEFINE q == peers[d][e]
    <3>1. q \in Request /\ client[q] # "idle"
          /\ ((d = From[q] /\ e = To[q]) \/ (d = To[q] /\ e = From[q]))
      BY <2>0, <2>2 DEF Types, Placed
    <3>2. Only(q) /\ Both(q)
      BY <2>0, <2>1, <3>1 DEF Only, OneAtATime
    <3>3. peers[e][d] \in {q, None}
      <4>1. peers[e][d] \in Request => client[peers[e][d]] # "idle"
        BY <2>0 DEF Placed
      <4>. QED
        BY <2>0, <2>1, <3>1, <4>1 DEF Types
    <3>4. CASE peers[e][d] = q
      BY <3>4
    <3>5. CASE peers[e][d] = None
      <4>1. net = {} /\ client[q] \in {"idle", "done", "failed"}
        BY <3>1 DEF Quiet
      <4>2. \A x, y : ~Answered(x, y)
        BY <4>1 DEF Answered
      <4>3. q # None
        BY <2>2
      <4>. HIDE DEF q
      <4>4. peers[d][e] = q
        BY DEF q
      <4>5. CASE d = From[q] /\ e = To[q]
        <5>1. FHas(q) /\ ~THas(q) /\ ~FGone(q)
          BY <3>5, <4>3, <4>4, <4>5 DEF FHas, THas, FGone
        <5>2. via[q] = "invite" \/ server[q] = "stored"
          BY <2>0, <3>1, <5>1 DEF Held, FHas
        <5>3. via[q] = "invite" => server[q] \in {"shown", "stored"}
          BY <2>0, <3>1 DEF Invited
        <5>4. server[q] = "stored" => <<e, d, q>> \in notice
          BY <3>2, <4>2, <4>5, <5>1 DEF Both, Rows
        <5>. QED
          BY <3>5, <4>3, <4>4, <5>2, <5>3, <5>4
      <4>6. CASE d = To[q] /\ e = From[q]
        <5>1. THas(q) /\ ~FHas(q) /\ ~TGone(q)
          BY <3>5, <4>3, <4>4, <4>6 DEF FHas, THas, TGone
        <5>2. client[q] = "done" => <<e, d, q>> \in notice
          BY <3>2, <4>2, <4>6, <5>1 DEF Both, Rows, Joined
        <5>3. client[q] = "failed" => peers[From[q]][To[q]] = None
          BY <3>5, <4>6
        <5>. QED
          BY <3>1, <3>5, <4>1, <4>3, <4>4, <5>2, <5>3
      <4>. QED
        BY <3>1, <4>5, <4>6
    <3>. QED
      BY <3>3, <3>4, <3>5
  <2>3. ASSUME NEW d \in Device, NEW e \in Device
        PROVE  agree(d, e)
    <3>1. CASE peers[d][e] # None
      BY <2>2, <3>1
    <3>2. CASE peers[e][d] # None
      BY <2>2, <3>2
    <3>3. CASE peers[d][e] = None /\ peers[e][d] = None
      BY <3>3
    <3>. QED
      BY <3>1, <3>2, <3>3
  <2>. QED
    BY <2>3
<1>2. Pairs => BothOrNeither
  BY <1>1
<1>. QED
  BY InitPairs, StepPairs, <1>2, PTL DEF Spec

=============================================================================
