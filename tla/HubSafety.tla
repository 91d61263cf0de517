----------------------------- MODULE HubSafety -----------------------------
(***************************************************************************)
(* Proved for any devices, subscriptions, connections, buffers, signals    *)
(* and faults: the tables of the hub agree with each other and with the    *)
(* connections that are served, and what devices hear of each other is     *)
(* true in the end.                                                        *)
(*                                                                         *)
(* For the last, of each device that listens and each device that it       *)
(* watches, unless the news of it raced: what readers still have to tell   *)
(* is true, and if they have nothing to tell, so is what comes last in the *)
(* buffer, or else what the device heard last (Told).  A reader that       *)
(* registers or unregisters a device finds every listener among those whom *)
(* it tells, as the tables agree.                                          *)
(***************************************************************************)
EXTENDS Hub, TLAPS

\* the tables are tables, and a device is registered with one of its own connections
Tables ==
  /\ online \in [Device -> Conn \cup {Nobody}]
  /\ \A d \in Device : online[d] # Nobody => online[d][1] = d
  /\ DOMAIN watchers = Device
  /\ phase \in [Conn -> {"unused", "hello", "greet", "on", "ended"}]
  /\ done \in [Conn -> BOOLEAN]

Inv == Tables /\ ServedIsRegistered /\ RegisteredIsServed /\ IndexExact

\* A connection is one of a device, and it is not the absence of one.
LEMMA ConnIsOfDevice == \A c \in Conn : c[1] \in Device /\ c # Nobody
  BY DEF Conn, Nobody

LEMMA InitInv == Init => Inv
  BY DEF Init, Inv, Tables, ServedIsRegistered, RegisteredIsServed, IndexExact

\* What does not touch the tables, and leaves readers where they are but for those that
\* begin, or are let in while they are registered, keeps the invariant.  Kicks only help.
LEMMA Apart ==
  ASSUME Inv, UNCHANGED <<online, watchers, watchedBy>>,
         phase' \in [Conn -> {"unused", "hello", "greet", "on", "ended"}],
         done' \in [Conn -> BOOLEAN],
         \A c \in Conn : done[c] => done'[c],
         \A c \in Conn : phase'[c] \in {"greet", "on"} <=> phase[c] \in {"greet", "on"}
  PROVE  Inv'
<1>1. Tables'
  BY DEF Inv, Tables
<1>2. ServedIsRegistered'
  BY DEF Inv, Tables, ServedIsRegistered
<1>3. RegisteredIsServed'
  BY DEF Inv, Tables, RegisteredIsServed
<1>4. IndexExact'
  BY DEF Inv, IndexExact
<1>. QED
  BY <1>1, <1>2, <1>3, <1>4 DEF Inv

\* Replacing a subscription keeps the reverse index exact.
LEMMA IndexKept ==
  ASSUME DOMAIN watchers = Device, IndexExact, NEW w \in Device, NEW set, SetWatch(w, set)
  PROVE  DOMAIN watchers' = Device /\ IndexExact'
<1>1. DOMAIN watchers' = Device
  BY DEF SetWatch
<1>2. ASSUME NEW d \in Device, NEW e \in Device
      PROVE  d \in watchedBy'[e] <=> e \in watchers'[d]
  <2>1. CASE d = w
    BY <2>1 DEF SetWatch, IndexExact
  <2>2. CASE d # w
    BY <2>2 DEF SetWatch, IndexExact
  <2>. QED
    BY <2>1, <2>2
<1>. QED
  BY <1>1, <1>2 DEF IndexExact

\* Sending never takes back a kick.
LEMMA SendingKicks ==
  ASSUME done \in [Conn -> BOOLEAN], NEW c, NEW f, Sent(c, f) \/ NotSent(c)
  PROVE  done' \in [Conn -> BOOLEAN] /\ \A x \in Conn : done[x] => done'[x]
  BY DEF Sent, NotSent

LEMMA RegisterKeeps ==
  ASSUME Inv, NEW c \in Conn, Register(c)
  PROVE  Inv'
<1>. c[1] \in Device /\ c # Nobody
  BY ConnIsOfDevice
<1>1. /\ online' = [online EXCEPT ![c[1]] = c]
      /\ phase' = [phase EXCEPT ![c] = "greet"]
      /\ done' = [x \in Conn |-> done[x] \/ x = online[c[1]]]
      /\ UNCHANGED <<watchers, watchedBy>>
  BY DEF Register
<1>2. Tables'
  BY <1>1 DEF Inv, Tables
<1>3. ASSUME NEW x \in Conn, phase'[x] \in {"greet", "on"}, ~done'[x]
      PROVE  online'[x[1]] = x
  <2>1. ~done[x] /\ x # online[c[1]]
    BY <1>1, <1>3, Zenon
  <2>2. CASE x = c
    BY <1>1, <2>2 DEF Inv, Tables
  <2>3. CASE x # c
    <3>1. phase[x] \in {"greet", "on"}
      BY <1>1, <1>3, <2>3 DEF Inv, Tables
    <3>2. online[x[1]] = x
      BY <2>1, <3>1 DEF Inv, ServedIsRegistered
    <3>. QED
      BY <1>1, <2>1, <3>2 DEF Inv, Tables
  <2>. QED
    BY <2>2, <2>3
<1>4. RegisteredIsServed'
  BY <1>1 DEF Inv, Tables, RegisteredIsServed
<1>5. IndexExact'
  BY <1>1 DEF Inv, IndexExact
<1>6. ServedIsRegistered'
  BY <1>3 DEF ServedIsRegistered
<1>. QED
  BY <1>2, <1>4, <1>5, <1>6 DEF Inv

LEMMA ReadKeeps ==
  ASSUME Inv, NEW c \in Conn, Read(c)
  PROVE  Inv'
<1>. c[1] \in Device
  BY ConnIsOfDevice
<1>1. /\ UNCHANGED <<online, phase>>
      /\ done' = done \/ done' = [done EXCEPT ![c] = TRUE]
      /\ UNCHANGED <<watchers, watchedBy>> \/ \E set : SetWatch(c[1], set)
  BY DEF Read
<1>2. DOMAIN watchers' = Device /\ IndexExact'
  BY <1>1, IndexKept DEF Inv, Tables, IndexExact
<1>3. Tables'
  BY <1>1, <1>2 DEF Inv, Tables
<1>4. ServedIsRegistered'
  BY <1>1 DEF Inv, Tables, ServedIsRegistered
<1>5. RegisteredIsServed'
  BY <1>1 DEF Inv, RegisteredIsServed
<1>. QED
  BY <1>2, <1>3, <1>4, <1>5 DEF Inv

LEMMA EndKeeps ==
  ASSUME Inv, NEW c \in Conn, End(c)
  PROVE  Inv'
<1>. c[1] \in Device /\ c # Nobody
  BY ConnIsOfDevice
<1>1. phase' = [phase EXCEPT ![c] = "ended"] /\ done' = done /\ phase[c] \in {"hello", "on"}
  BY DEF End
<1>2. CASE phase[c] = "on" /\ IsRegistered(c)
  <2>1. online' = [online EXCEPT ![c[1]] = Nobody] /\ SetWatch(c[1], {})
    BY <1>2 DEF End
  <2>2. DOMAIN watchers' = Device /\ IndexExact'
    BY <2>1, IndexKept DEF Inv, Tables
  <2>3. Tables'
    BY <1>1, <2>1, <2>2 DEF Inv, Tables
  <2>4. ServedIsRegistered'
    BY <1>1, <1>2, <2>1 DEF Inv, Tables, ServedIsRegistered, IsRegistered
  <2>5. RegisteredIsServed'
    BY <1>1, <1>2, <2>1 DEF Inv, Tables, RegisteredIsServed
  <2>. QED
    BY <2>2, <2>3, <2>4, <2>5 DEF Inv
<1>3. CASE ~(phase[c] = "on" /\ IsRegistered(c))
  <2>1. UNCHANGED hub
    BY <1>3 DEF End
  <2>2. \A d \in Device : online[d] # c
    BY <1>1, <1>3 DEF Inv, Tables, RegisteredIsServed, IsRegistered
  <2>3. Tables'
    BY <1>1, <2>1 DEF Inv, Tables, hub
  <2>4. ServedIsRegistered'
    BY <1>1, <2>1 DEF Inv, Tables, ServedIsRegistered, hub
  <2>5. RegisteredIsServed'
    BY <1>1, <2>1, <2>2 DEF Inv, Tables, RegisteredIsServed, hub
  <2>6. IndexExact'
    BY <2>1 DEF Inv, IndexExact, hub
  <2>. QED
    BY <2>3, <2>4, <2>5, <2>6 DEF Inv
<1>. QED
  BY <1>2, <1>3

LEMMA StepInv == Inv /\ [Next]_vars => Inv'
<1>. SUFFICES ASSUME Inv, [Next]_vars
              PROVE  Inv'
  OBVIOUS
<1>. done \in [Conn -> BOOLEAN] /\ phase \in [Conn -> {"unused", "hello", "greet", "on", "ended"}]
  BY DEF Inv, Tables
<1>1. ASSUME NEW c \in Conn, Register(c) PROVE Inv'
  BY <1>1, RegisterKeeps
<1>2. ASSUME NEW c \in Conn, Read(c) PROVE Inv'
  BY <1>2, ReadKeeps
<1>3. ASSUME NEW c \in Conn, End(c) PROVE Inv'
  BY <1>3, EndKeeps
<1>4. ASSUME NEW c \in Conn, Emit(c) PROVE Inv'
  <2>1. UNCHANGED <<online, watchers, watchedBy, phase>>
    BY <1>4 DEF Emit, hub
  <2>2. \E x, f : Sent(x, f) \/ NotSent(x)
    BY <1>4 DEF Emit
  <2>. QED
    BY <2>1, <2>2, SendingKicks, Apart
<1>5. ASSUME NEW c \in Conn, Greet(c) PROVE Inv'
  <2>1. UNCHANGED <<online, watchers, watchedBy>>
    BY <1>5 DEF Greet, hub
  <2>2. phase[c] = "greet" /\ phase' = [phase EXCEPT ![c] = "on"]
    BY <1>5 DEF Greet
  <2>3. \E x, f : Sent(x, f) \/ NotSent(x)
    BY <1>5 DEF Greet
  <2>. QED
    BY <2>1, <2>2, <2>3, SendingKicks, Apart
<1>6. ASSUME NEW c \in Conn, Writer(c) \/ Lose(c) PROVE Inv'
  <2>1. UNCHANGED <<online, watchers, watchedBy, phase, done>>
    BY <1>6 DEF Writer, Deliver, WriterEnds, Lose, server, hub
  <2>. QED
    BY <2>1, Apart
<1>7. ASSUME NEW d \in Device, ClientClosed(d) \/ ChangePeers(d) PROVE Inv'
  <2>1. UNCHANGED <<online, watchers, watchedBy, phase, done>>
    BY <1>7 DEF ClientClosed, ChangePeers, server, hub
  <2>. QED
    BY <2>1, Apart
<1>8. ASSUME NEW d \in Device, Connect(d) PROVE Inv'
  <2>1. UNCHANGED <<online, watchers, watchedBy, done>>
    BY <1>8 DEF Connect, hub
  <2>2. \E c \in Conn : phase[c] = "unused" /\ phase' = [phase EXCEPT ![c] = "hello"]
    BY <1>8 DEF Connect
  <2>. QED
    BY <2>1, <2>2, Apart
<1>9. ASSUME NEW d \in Device, NEW e \in Device, SendSignal(d, e) PROVE Inv'
  <2>1. UNCHANGED <<online, watchers, watchedBy, phase, done>>
    BY <1>9 DEF SendSignal, server, hub
  <2>. QED
    BY <2>1, Apart
<1>10. CASE UNCHANGED vars
  <2>1. UNCHANGED <<online, watchers, watchedBy, phase, done>>
    BY <1>10 DEF vars, server, hub
  <2>. QED
    BY <2>1, Apart
<1>. QED
  BY <1>1, <1>2, <1>3, <1>4, <1>5, <1>6, <1>7, <1>8, <1>9, <1>10 DEF Next, Reader

\* A connection that was let in and not kicked is the one its device is reached by, in
\* whatever order connections of one device overlap and end.  (register, unregister)
THEOREM ConnectedIsReached == Spec => []ServedIsRegistered
<1>1. Inv => ServedIsRegistered
  BY DEF Inv
<1>. QED
  BY <1>1, InitInv, StepInv, PTL DEF Spec

\* No device stays registered with a connection whose reader has ended.  (unregister in
\* readPump's defer)
THEOREM NobodyStaysOnline == Spec => []RegisteredIsServed
<1>1. Inv => RegisteredIsServed
  BY DEF Inv
<1>. QED
  BY <1>1, InitInv, StepInv, PTL DEF Spec

\* The reverse index that presence is sent along says what the subscriptions say, though
\* kicked connections still change them.  (setWatchLocked)
THEOREM IndexAgrees == Spec => []IndexExact
<1>1. Inv => IndexExact
  BY DEF Inv
<1>. QED
  BY <1>1, InitInv, StepInv, PTL DEF Spec

-----------------------------------------------------------------------------
(* Types. *)

\* what a device asks of the hub
Requests == [type : {"subscribe", "signal"}, ids : SUBSET Device]

Presences == online \in [Device -> Conn \cup {Nobody}] /\ phase \in [Conn -> {"unused", "hello", "greet", "on", "ended"}]
Subscriptions == watchers \in [Device -> SUBSET Device] /\ watchedBy \in [Device -> SUBSET Device]
Jobs == job \in [Conn -> SUBSET (Conn \X Frames)] /\ raced \in [Device -> SUBSET Device]
Sends == send \in [Conn -> Seq(Frames)] /\ (\A c \in Conn : Len(send[c]) <= SendBuffer) /\ done \in [Conn -> BOOLEAN]
Inboxes == inbox \in [Conn -> Seq(Requests)] /\ closed \in [Conn -> BOOLEAN]
Clients ==
  /\ cur \in [Device -> Conn \cup {Nobody}] /\ isUp \in [Device -> BOOLEAN]
  /\ \A d \in Device : cur[d] # Nobody => cur[d][1] = d
  /\ wanted \in [Device -> Nat] /\ \A d \in Device : wanted[d] \in 1 .. Len(Wanted[d])
  /\ view \in [Device -> [Device -> {"on", "off", "none"}]]

Types == Presences /\ Subscriptions /\ Jobs /\ Sends /\ Inboxes /\ Clients

\* There is a set to subscribe to, and it is one of devices.
LEMMA WantedAre ==
  \A d \in Device : /\ Len(Wanted[d]) \in Nat \ {0}
                    /\ \A k \in 1 .. Len(Wanted[d]) : Wanted[d][k] \in SUBSET Device
<1>. SUFFICES ASSUME NEW d \in Device
              PROVE  /\ Len(Wanted[d]) \in Nat \ {0}
                     /\ \A k \in 1 .. Len(Wanted[d]) : Wanted[d][k] \in SUBSET Device
  OBVIOUS
<1>. DEFINE S == SUBSET (Device \ {d})
            w == Wanted[d]
<1>1. w \in Seq(S) /\ w # <<>>
  BY HubAssumption
<1>2. \A x \in S : x \in SUBSET Device
  OBVIOUS
<1>. HIDE DEF S, w
<1>3. Len(w) \in Nat \ {0} /\ \A k \in 1 .. Len(w) : w[k] \in S
  BY <1>1
<1>. QED
  BY <1>2, <1>3 DEF w

LEMMA InitTypes == Init => Types
<1>. SUFFICES ASSUME Init PROVE Types
  OBVIOUS
<1>1. Presences /\ Subscriptions /\ Jobs
  BY DEF Init, Presences, Subscriptions, Jobs
<1>2. Sends
  BY HubAssumption DEF Init, Sends
<1>3. Inboxes
  BY DEF Init, Inboxes
<1>4. Clients
  <2>1. \A d \in Device : 1 \in 1 .. Len(Wanted[d])
    BY WantedAre
  <2>. QED
    BY <2>1 DEF Init, Clients
<1>. QED
  BY <1>1, <1>2, <1>3, <1>4 DEF Types

LEMMA FramesAre ==
  /\ HelloOk \in Frames /\ SignalFrame \in Frames /\ ErrorFrame \in Frames
  /\ \A on, off \in SUBSET Device : News(on, off) \in Frames
  BY DEF HelloOk, SignalFrame, ErrorFrame, News, Frame, Frames

LEMMA RequestsAre ==
  /\ \A d \in Device : wanted[d] \in 1 .. Len(Wanted[d]) => Subscription(Wanted[d][wanted[d]]) \in Requests
  /\ \A e \in Device : Signal(e) \in Requests
<1>1. ASSUME NEW d \in Device, wanted[d] \in 1 .. Len(Wanted[d])
      PROVE  Wanted[d][wanted[d]] \in SUBSET Device
  BY <1>1, WantedAre
<1>. QED
  BY <1>1 DEF Subscription, Signal, Requests

\* What is handed over fits into the buffer.
LEMMA SentTyped ==
  ASSUME Sends, NEW c \in Conn, NEW f \in Frames, Sent(c, f) \/ NotSent(c)
  PROVE  Sends'
<1>1. CASE Sent(c, f)
  <2>1. send' = [send EXCEPT ![c] = Append(send[c], f)] /\ Len(send[c]) < SendBuffer /\ done' = done
    BY <1>1 DEF Sent, Room
  <2>2. send[c] \in Seq(Frames) /\ Len(send[c]) \in Nat
    BY DEF Sends
  <2>3. Append(send[c], f) \in Seq(Frames) /\ Len(Append(send[c], f)) <= SendBuffer
    BY <2>1, <2>2, HubAssumption
  <2>. QED
    BY <2>1, <2>3 DEF Sends
<1>2. CASE NotSent(c)
  BY <1>2 DEF NotSent, Sends
<1>. QED
  BY <1>1, <1>2

\* The devices of which what d is told may not be the latest are devices.
LEMMA TellTyped ==
  ASSUME Jobs, NEW c \in Conn, NEW frames \in SUBSET (Conn \X Frames),
         Tell(c, frames)
  PROVE  Jobs'
<1>1. job' = [job EXCEPT ![c] = frames]
  BY DEF Tell
<1>2. job' \in [Conn -> SUBSET (Conn \X Frames)]
  BY <1>1 DEF Jobs
<1>3. ASSUME NEW d \in Device, NEW e \in UNION {j[2].on \cup j[2].off : j \in {j \in frames : j[1] = cur[d]}}
      PROVE  e \in Device
  <2>1. PICK j \in frames : e \in j[2].on \cup j[2].off
    BY <1>3
  <2>2. j[2] \in Frames
    OBVIOUS
  <2>. QED
    BY <2>1, <2>2 DEF Frames
<1>4. raced' \in [Device -> SUBSET Device]
  BY <1>3 DEF Tell, Jobs
<1>. QED
  BY <1>2, <1>4 DEF Jobs

LEMMA SetWatchTyped ==
  ASSUME Subscriptions, NEW w \in Device, NEW set \in SUBSET Device, SetWatch(w, set)
  PROVE  Subscriptions'
<1>1. watchers' \in [Device -> SUBSET Device]
  BY DEF SetWatch, Subscriptions
<1>2. watchedBy' \in [Device -> SUBSET Device]
  BY DEF SetWatch, Subscriptions
<1>. QED
  BY <1>1, <1>2 DEF Subscriptions

LEMMA WatchersAreConn ==
  ASSUME Presences, Subscriptions, NEW d \in Device
  PROVE  WatchersOf(d) \in SUBSET Conn
  BY DEF WatchersOf, Presences, Subscriptions

LEMMA SnapshotTyped == \A set \in SUBSET Device : Snapshot(set) \in Frames
  BY FramesAre DEF Snapshot

LEMMA RegisterTypes ==
  ASSUME Types, NEW c \in Conn, Register(c)
  PROVE  Types'
<1>. c[1] \in Device
  BY ConnIsOfDevice
<1>1. /\ phase' = [phase EXCEPT ![c] = "greet"]
      /\ online' = [online EXCEPT ![c[1]] = c]
      /\ done' = [x \in Conn |-> done[x] \/ x = online[c[1]]]
      /\ UNCHANGED <<watchers, watchedBy, send, closed, inbox, cur, isUp, wanted, view>>
  BY DEF Register, client
<1>2. Tell(c, {<<t, News({c[1]}, {})>> : t \in WatchersOf(c[1])})
  BY DEF Register
<1>3. Presences'
  BY <1>1 DEF Types, Presences
<1>4. Jobs'
  <2>1. WatchersOf(c[1]) \in SUBSET Conn
    BY WatchersAreConn DEF Types
  <2>2. News({c[1]}, {}) \in Frames
    BY FramesAre
  <2>3. {<<t, News({c[1]}, {})>> : t \in WatchersOf(c[1])} \in SUBSET (Conn \X Frames)
    BY <2>1, <2>2
  <2>. QED
    BY <1>2, <2>3, TellTyped DEF Types
<1>5. Sends'
  BY <1>1 DEF Types, Sends
<1>6. Subscriptions' /\ Inboxes'
  BY <1>1 DEF Types, Subscriptions, Inboxes
<1>7. Clients'
  BY <1>1 DEF Types, Clients
<1>. QED
  BY <1>3, <1>4, <1>5, <1>6, <1>7 DEF Types

LEMMA EmitTypes ==
  ASSUME Types, NEW c \in Conn, Emit(c)
  PROVE  Types'
<1>1. UNCHANGED <<online, watchers, watchedBy, phase, raced, closed, inbox, cur, isUp, wanted, view>>
  BY DEF Emit, hub, client
<1>2. PICK j \in job[c] :
        \/ Sent(j[1], j[2]) /\ job' = [job EXCEPT ![c] = @ \ {j}]
        \/ /\ NotSent(j[1])
           /\ job' = [job EXCEPT ![c] =
                (@ \ {j}) \cup (IF j[2] = SignalFrame THEN {<<c, ErrorFrame>>} ELSE {})]
  BY DEF Emit
<1>3. j[1] \in Conn /\ j[2] \in Frames
  BY DEF Types, Jobs
<1>4. Sends'
  <2>1. Sent(j[1], j[2]) \/ NotSent(j[1])
    BY <1>2
  <2>. QED
    BY <1>3, <2>1, SentTyped DEF Types
<1>5. Jobs'
  BY <1>1, <1>2, FramesAre DEF Types, Jobs
<1>6. Presences' /\ Subscriptions' /\ Inboxes'
  BY <1>1 DEF Types, Presences, Subscriptions, Inboxes
<1>7. Clients'
  BY <1>1 DEF Types, Clients
<1>. QED
  BY <1>4, <1>5, <1>6, <1>7 DEF Types

LEMMA GreetTypes ==
  ASSUME Types, NEW c \in Conn, Greet(c)
  PROVE  Types'
<1>1. UNCHANGED <<online, watchers, watchedBy, job, raced, closed, inbox, cur, isUp, wanted, view>>
  BY DEF Greet, hub, client
<1>2. phase' = [phase EXCEPT ![c] = "on"] /\ (Sent(c, HelloOk) \/ NotSent(c))
  BY DEF Greet
<1>3. Sends'
  BY <1>2, SentTyped, FramesAre DEF Types
<1>4. Presences' /\ Subscriptions' /\ Inboxes'
  BY <1>1, <1>2 DEF Types, Presences, Subscriptions, Inboxes
<1>5. Jobs' /\ Clients'
  BY <1>1 DEF Types, Jobs, Clients
<1>. QED
  BY <1>3, <1>4, <1>5 DEF Types

LEMMA ReadTypes ==
  ASSUME Types, NEW c \in Conn, Read(c)
  PROVE  Types'
<1>. DEFINE f == Head(inbox[c])
<1>. c[1] \in Device
  BY ConnIsOfDevice
<1>1. /\ UNCHANGED <<online, phase, send, closed, cur, isUp, wanted, view>>
      /\ done' = done \/ done' = [done EXCEPT ![c] = TRUE]
      /\ inbox[c] # <<>> /\ inbox' = [inbox EXCEPT ![c] = Tail(@)]
      /\ \/ UNCHANGED <<watchers, watchedBy>>
         \/ SetWatch(c[1], f.ids \ {c[1]})
      /\ \/ TellSubscriber(c, Snapshot(f.ids \ {c[1]}))
         \/ Tell(c, {IF online[e] # Nobody THEN <<online[e], SignalFrame>> ELSE <<c, ErrorFrame>>
                         : e \in f.ids})
         \/ Tell(c, {<<c, ErrorFrame>>})
  BY DEF Read, client
<1>2. inbox[c] \in Seq(Requests)
  BY DEF Types, Inboxes
<1>3. f \in Requests /\ Tail(inbox[c]) \in Seq(Requests)
  BY <1>1, <1>2
<1>4. f.ids \in SUBSET Device
  BY <1>3 DEF Requests
<1>. HIDE DEF f
<1>5. Jobs'
  <2>1. CASE TellSubscriber(c, Snapshot(f.ids \ {c[1]}))
    <3>1. Snapshot(f.ids \ {c[1]}) \in Frames
      BY <1>4, SnapshotTyped
    <3>2. {e \in Device : Pending(c, e)} \in SUBSET Device
      OBVIOUS
    <3>. QED
      BY <2>1, <3>1, <3>2 DEF TellSubscriber, Types, Jobs
  <2>2. CASE Tell(c, {IF online[e] # Nobody THEN <<online[e], SignalFrame>> ELSE <<c, ErrorFrame>>
                         : e \in f.ids})
    <3>1. ASSUME NEW e \in f.ids
          PROVE  (IF online[e] # Nobody THEN <<online[e], SignalFrame>> ELSE <<c, ErrorFrame>>) \in Conn \X Frames
      BY <1>4, FramesAre DEF Types, Presences
    <3>. DEFINE frames == {IF online[e] # Nobody THEN <<online[e], SignalFrame>> ELSE <<c, ErrorFrame>>
                         : e \in f.ids}
    <3>2. frames \in SUBSET (Conn \X Frames)
      BY <3>1
    <3>3. Tell(c, frames)
      BY <2>2
    <3>. HIDE DEF frames
    <3>. QED
      BY <3>2, <3>3, TellTyped DEF Types
  <2>3. CASE Tell(c, {<<c, ErrorFrame>>})
    BY <2>3, TellTyped, FramesAre DEF Types
  <2>. QED
    BY <1>1, <2>1, <2>2, <2>3
<1>6. Subscriptions'
  <2>1. CASE UNCHANGED <<watchers, watchedBy>>
    BY <2>1 DEF Types, Subscriptions
  <2>2. CASE SetWatch(c[1], f.ids \ {c[1]})
    BY <2>2, <1>4, SetWatchTyped DEF Types
  <2>. QED
    BY <1>1, <2>1, <2>2
<1>7. Presences' /\ Clients'
  BY <1>1 DEF Types, Presences, Clients
<1>8. Sends'
  BY <1>1 DEF Types, Sends
<1>9. Inboxes'
  BY <1>1, <1>3 DEF Types, Inboxes
<1>. QED
  BY <1>5, <1>6, <1>7, <1>8, <1>9 DEF Types

LEMMA EndTypes ==
  ASSUME Types, NEW c \in Conn, End(c)
  PROVE  Types'
<1>. c[1] \in Device
  BY ConnIsOfDevice
<1>1. /\ phase' = [phase EXCEPT ![c] = "ended"]
      /\ inbox' = [inbox EXCEPT ![c] = <<>>]
      /\ UNCHANGED <<send, done, closed, cur, isUp, wanted, view>>
  BY DEF End, client
<1>2. \/ UNCHANGED <<online, watchers, watchedBy, job, raced>>
      \/ /\ online' = [online EXCEPT ![c[1]] = Nobody]
         /\ SetWatch(c[1], {})
         /\ Tell(c, {<<t, News({}, {c[1]})>> : t \in WatchersOf(c[1])})
  BY DEF End, hub
<1>3. Presences'
  BY <1>1, <1>2 DEF Types, Presences
<1>4. Subscriptions'
  <2>1. CASE UNCHANGED <<watchers, watchedBy>>
    BY <2>1 DEF Types, Subscriptions
  <2>2. CASE SetWatch(c[1], {})
    BY <2>2, SetWatchTyped DEF Types
  <2>. QED
    BY <1>2, <2>1, <2>2
<1>5. Jobs'
  <2>1. CASE UNCHANGED <<job, raced>>
    BY <2>1 DEF Types, Jobs
  <2>2. CASE Tell(c, {<<t, News({}, {c[1]})>> : t \in WatchersOf(c[1])})
    <3>1. WatchersOf(c[1]) \in SUBSET Conn
      BY WatchersAreConn DEF Types
    <3>2. News({}, {c[1]}) \in Frames
      BY FramesAre
    <3>3. {<<t, News({}, {c[1]})>> : t \in WatchersOf(c[1])} \in SUBSET (Conn \X Frames)
      BY <3>1, <3>2
    <3>. QED
      BY <2>2, <3>3, TellTyped DEF Types
  <2>. QED
    BY <1>2, <2>1, <2>2
<1>6. Sends' /\ Clients'
  BY <1>1 DEF Types, Sends, Clients
<1>7. Inboxes'
  BY <1>1 DEF Types, Inboxes
<1>. QED
  BY <1>3, <1>4, <1>5, <1>6, <1>7 DEF Types

LEMMA DeliverTypes ==
  ASSUME Types, NEW c \in Conn, Deliver(c)
  PROVE  Types'
<1>. DEFINE d == c[1]
            f == Head(send[c])
<1>. d \in Device
  BY ConnIsOfDevice
<1>1. /\ UNCHANGED <<online, watchers, watchedBy, phase, job, raced, done, closed, cur, wanted>>
      /\ send[c] # <<>> /\ send' = [send EXCEPT ![c] = Tail(@)]
      /\ \/ UNCHANGED <<isUp, inbox, view>>
         \/ /\ isUp' = [isUp EXCEPT ![d] = @ \/ f.type = "hello_ok"]
            /\ inbox' = [inbox EXCEPT ![c] =
                  IF f.type = "hello_ok" THEN Append(@, Subscription(Wanted[d][wanted[d]])) ELSE @]
            /\ view' = [view EXCEPT ![d] = [e \in Device |->
                  CASE e \in f.on -> "on" [] e \in f.off -> "off" [] OTHER -> @[e]]]
  BY DEF Deliver, server, hub
<1>. HIDE DEF d, f
<1>2. Sends'
  <2>1. send[c] \in Seq(Frames) /\ Len(send[c]) \in Nat /\ Len(send[c]) <= SendBuffer
    BY DEF Types, Sends
  <2>2. Tail(send[c]) \in Seq(Frames) /\ Len(Tail(send[c])) <= SendBuffer
    BY <1>1, <2>1, HubAssumption
  <2>. QED
    BY <1>1, <2>2 DEF Types, Sends
<1>3. Inboxes'
  <2>1. inbox[c] \in Seq(Requests) /\ Subscription(Wanted[d][wanted[d]]) \in Requests
    BY RequestsAre DEF Types, Inboxes, Clients
  <2>2. Append(inbox[c], Subscription(Wanted[d][wanted[d]])) \in Seq(Requests)
    BY <2>1
  <2>. QED
    BY <1>1, <2>1, <2>2 DEF Types, Inboxes
<1>4. view' \in [Device -> [Device -> {"on", "off", "none"}]]
  <2>1. view \in [Device -> [Device -> {"on", "off", "none"}]]
    BY DEF Types, Clients
  <2>2. [e \in Device |-> CASE e \in f.on -> "on" [] e \in f.off -> "off" [] OTHER -> view[d][e]]
          \in [Device -> {"on", "off", "none"}]
    BY <2>1
  <2>. QED
    BY <1>1, <2>1, <2>2
<1>5. isUp' \in [Device -> BOOLEAN]
  BY <1>1 DEF Types, Clients
<1>6. Clients'
  BY <1>1, <1>4, <1>5 DEF Types, Clients
<1>7. Presences' /\ Subscriptions' /\ Jobs'
  BY <1>1 DEF Types, Presences, Subscriptions, Jobs
<1>. QED
  BY <1>2, <1>3, <1>6, <1>7 DEF Types

LEMMA ClientTypes ==
  ASSUME Types, NEW d \in Device, ClientClosed(d) \/ Connect(d)
  PROVE  Types'
<1>1. UNCHANGED <<online, watchers, watchedBy, job, send, done, closed, inbox, wanted, view>>
  BY DEF ClientClosed, Connect, server, hub
<1>2. Jobs' /\ Presences' /\ isUp' \in [Device -> BOOLEAN]
  BY DEF ClientClosed, Connect, server, hub, Types, Jobs, Presences, Clients
<1>3. /\ cur' \in [Device -> Conn \cup {Nobody}]
      /\ \A x \in Device : cur'[x] # Nobody => cur'[x][1] = x
  BY DEF ClientClosed, Connect, Types, Clients
<1>4. Clients'
  BY <1>1, <1>2, <1>3 DEF Types, Clients
<1>5. Subscriptions' /\ Sends' /\ Inboxes'
  BY <1>1 DEF Types, Subscriptions, Sends, Inboxes
<1>. QED
  BY <1>2, <1>4, <1>5 DEF Types

LEMMA PeersTypes ==
  ASSUME Types, NEW d \in Device, ChangePeers(d)
  PROVE  Types'
<1>1. UNCHANGED <<online, watchers, watchedBy, phase, job, raced, send, done, closed, cur, isUp, view>>
  BY DEF ChangePeers, server, hub
<1>2. wanted[d] < Len(Wanted[d]) /\ wanted' = [wanted EXCEPT ![d] = @ + 1]
  BY DEF ChangePeers
<1>3. \A x \in Device : Len(Wanted[x]) \in Nat
  BY WantedAre
<1>4. wanted' \in [Device -> Nat] /\ \A x \in Device : wanted'[x] \in 1 .. Len(Wanted[x])
  BY <1>2, <1>3 DEF Types, Clients
<1>5. Subscription(Wanted[d][wanted'[d]]) \in Requests
  <2>1. Wanted[d][wanted'[d]] \in SUBSET Device
    BY <1>4, WantedAre
  <2>. QED
    BY <2>1 DEF Subscription, Requests
<1>6. Inboxes'
  <2>1. ASSUME NEW x \in Conn
        PROVE  inbox[x] \in Seq(Requests) /\ Append(inbox[x], Subscription(Wanted[d][wanted'[d]])) \in Seq(Requests)
    BY <1>5 DEF Types, Inboxes
  <2>. QED
    BY <1>1, <2>1 DEF ChangePeers, Types, Inboxes
<1>7. Clients'
  BY <1>1, <1>4 DEF Types, Clients
<1>8. Presences' /\ Subscriptions' /\ Jobs' /\ Sends'
  BY <1>1 DEF Types, Presences, Subscriptions, Jobs, Sends
<1>. QED
  BY <1>6, <1>7, <1>8 DEF Types

LEMMA SignalTypes ==
  ASSUME Types, NEW d \in Device, NEW e \in Device, SendSignal(d, e)
  PROVE  Types'
<1>1. /\ UNCHANGED <<online, watchers, watchedBy, phase, job, raced, send, done, closed, cur, isUp, wanted, view>>
      /\ inbox' = [inbox EXCEPT ![cur[d]] = Append(@, Signal(e))]
  BY DEF SendSignal, server, hub, client
<1>2. Inboxes'
  <2>1. ASSUME NEW x \in Conn
        PROVE  inbox[x] \in Seq(Requests) /\ Append(inbox[x], Signal(e)) \in Seq(Requests)
    BY RequestsAre DEF Types, Inboxes
  <2>. QED
    BY <1>1, <2>1 DEF Types, Inboxes
<1>3. Presences' /\ Subscriptions' /\ Jobs' /\ Sends' /\ Clients'
  BY <1>1 DEF Types, Presences, Subscriptions, Jobs, Sends, Clients
<1>. QED
  BY <1>2, <1>3 DEF Types

LEMMA StepTypes == Types /\ [Next]_vars => Types'
<1>. SUFFICES ASSUME Types, [Next]_vars
              PROVE  Types'
  OBVIOUS
<1>1. ASSUME NEW c \in Conn, Reader(c) PROVE Types'
  BY <1>1, RegisterTypes, EmitTypes, GreetTypes, ReadTypes, EndTypes DEF Reader
<1>2. ASSUME NEW c \in Conn, Deliver(c) PROVE Types'
  BY <1>2, DeliverTypes
<1>3. ASSUME NEW c \in Conn, WriterEnds(c) \/ Lose(c) PROVE Types'
  <2>1. /\ UNCHANGED <<online, watchers, watchedBy, phase, job, raced, send, done, inbox, cur, isUp, wanted, view>>
        /\ closed' = [closed EXCEPT ![c] = TRUE]
    BY <1>3 DEF WriterEnds, Lose, server, hub, client
  <2>2. Inboxes'
    BY <2>1 DEF Types, Inboxes
  <2>. QED
    BY <2>1, <2>2 DEF Types, Presences, Subscriptions, Jobs, Sends, Clients
<1>4. ASSUME NEW d \in Device, ClientClosed(d) \/ Connect(d) \/ ChangePeers(d) PROVE Types'
  BY <1>4, ClientTypes, PeersTypes
<1>5. ASSUME NEW d \in Device, NEW e \in Device, SendSignal(d, e) PROVE Types'
  BY <1>5, SignalTypes
<1>6. CASE UNCHANGED vars
  BY <1>6 DEF vars, server, hub, client, Types, Presences, Subscriptions, Jobs, Sends, Inboxes, Clients
<1>. QED
  BY <1>1, <1>2, <1>3, <1>4, <1>5, <1>6 DEF Next, Writer

\* Everything is of its type, and no buffer of a connection holds more than SendBuffer
\* frames: what does not fit is never queued.  (sendJSON)
THEOREM TypeCorrect == Spec => []TypeOK
<1>1. Types => TypeOK
  BY DEF Types, Presences, Subscriptions, Jobs, Sends, Clients, TypeOK
<1>. QED
  BY <1>1, InitTypes, StepTypes, PTL DEF Spec

-----------------------------------------------------------------------------
(* What a device has been told. *)

Speaks(f, e) == e \in f.on \cup f.off

\* after s, whoever had heard v of e knows whether it is on
Ends(s, v, e, on) ==
  /\ \A i \in 1 .. Len(s) :
       Speaks(s[i], e) /\ (\A k \in 1 .. Len(s) : k > i => ~Speaks(s[k], e)) => (e \in s[i].on <=> on)
  /\ (\A i \in 1 .. Len(s) : ~Speaks(s[i], e)) => (v = "on" <=> on)

On(e) == online[e] # Nobody

\* what readers still have to tell c of e is true
JobsSay(c, e) ==
  \A x \in Conn : \A j \in job[x] : j[1] = c /\ Speaks(j[2], e) => (e \in j[2].on <=> On(e))

\* d will know, or some reader still has to tell it, whether e is on
Told(d, e) ==
  /\ JobsSay(cur[d], e)
  /\ Pending(cur[d], e) \/ Ends(send[cur[d]], view[d][e], e, On(e))

NoSubscription(s) == \A i \in 1 .. Len(s) : s[i].type # "subscribe"

\* the last subscription of d was handled, and its connection still serves
Listening(d) == isUp[d] /\ ~closed[cur[d]] /\ ~done[cur[d]] /\ NoSubscription(inbox[cur[d]])

\* readers tell nothing before they register, and end when the connection is closed
Started ==
  \A c \in Conn :
    /\ phase[c] \in {"unused", "hello"} => job[c] = {}
    /\ phase[c] = "ended" => closed[c]

\* what readers tell is no greeting, and does not say of a device that it is on and off
Plain(j) == j[2].type # "hello_ok" /\ j[2].on \cap j[2].off = {}

JobsPlain == \A c \in Conn : \A j \in job[c] : Plain(j)

\* nobody is greeted before it is registered
SendsOk ==
  \A c \in Conn : \A i \in 1 .. Len(send[c]) :
    /\ send[c][i].on \cap send[c][i].off = {}
    /\ phase[c] \in {"unused", "hello", "greet"} => send[c][i].type # "hello_ok"

\* a client that is up was greeted
Greeted == \A d \in Device : isUp[d] => cur[d] # Nobody /\ phase[cur[d]] \in {"on", "ended"}

\* nobody watches itself
Others == \A d \in Device : d \notin watchers[d]

UpToDate ==
  \A d, e \in Device : Listening(d) /\ e \in watchers[d] /\ e \notin raced[d] => Told(d, e)

Basis   == Inv /\ Types /\ Started /\ JobsPlain /\ SendsOk /\ Greeted /\ Others
Present == Basis /\ UpToDate

LEMMA EndsAppend ==
  ASSUME NEW s \in Seq(Frames), NEW f \in Frames, NEW v, NEW e, NEW on \in BOOLEAN,
         Speaks(f, e) => (e \in f.on <=> on),
         ~Speaks(f, e) => Ends(s, v, e, on)
  PROVE  Ends(Append(s, f), v, e, on)
<1>. DEFINE t == Append(s, f)
<1>1. /\ Len(s) \in Nat /\ Len(t) = Len(s) + 1 /\ t[Len(s) + 1] = f
      /\ \A i \in 1 .. Len(s) : t[i] = s[i]
  OBVIOUS
<1>. HIDE DEF t
<1>2. CASE Speaks(f, e)
  <2>1. ASSUME NEW i \in 1 .. Len(t), \A k \in 1 .. Len(t) : k > i => ~Speaks(t[k], e)
        PROVE  e \in t[i].on <=> on
    <3>1. i = Len(s) + 1
      BY <1>1, <1>2, <2>1
    <3>. QED
      BY <1>1, <1>2, <3>1
  <2>2. Speaks(t[Len(s) + 1], e) /\ Len(s) + 1 \in 1 .. Len(t)
    BY <1>1, <1>2
  <2>. QED
    BY <2>1, <2>2 DEF Ends, t
<1>3. CASE ~Speaks(f, e)
  <2>1. Ends(s, v, e, on)
    BY <1>3
  <2>2. ASSUME NEW i \in 1 .. Len(t), Speaks(t[i], e), \A k \in 1 .. Len(t) : k > i => ~Speaks(t[k], e)
        PROVE  e \in t[i].on <=> on
    <3>1. i \in 1 .. Len(s)
      BY <1>1, <1>3, <2>2
    <3>2. Speaks(s[i], e) /\ \A k \in 1 .. Len(s) : k > i => ~Speaks(s[k], e)
      BY <1>1, <2>2, <3>1
    <3>. QED
      BY <1>1, <2>1, <3>1, <3>2 DEF Ends
  <2>3. ASSUME \A i \in 1 .. Len(t) : ~Speaks(t[i], e)
        PROVE  v = "on" <=> on
    <3>1. \A i \in 1 .. Len(s) : ~Speaks(s[i], e)
      BY <1>1, <2>3
    <3>. QED
      BY <2>1, <3>1 DEF Ends
  <2>. QED
    BY <2>2, <2>3 DEF Ends, t
<1>. QED
  BY <1>2, <1>3

LEMMA EndsTail ==
  ASSUME NEW s \in Seq(Frames), s # <<>>, NEW v, NEW e, NEW on \in BOOLEAN, Ends(s, v, e, on),
         Head(s).on \cap Head(s).off = {}
  PROVE  Ends(Tail(s), CASE e \in Head(s).on -> "on" [] e \in Head(s).off -> "off" [] OTHER -> v, e, on)
<1>. DEFINE t == Tail(s)
            w == CASE e \in Head(s).on -> "on" [] e \in Head(s).off -> "off" [] OTHER -> v
<1>1. /\ Len(s) \in Nat /\ Len(s) >= 1 /\ Len(t) = Len(s) - 1 /\ Head(s) = s[1]
      /\ \A i \in 1 .. Len(t) : t[i] = s[i + 1]
  OBVIOUS
<1>2. (Speaks(s[1], e) => (w = "on" <=> e \in s[1].on)) /\ (~Speaks(s[1], e) => w = v)
  <2>1. CASE e \in s[1].on
    <3>1. e \in Head(s).on /\ e \notin Head(s).off
      BY <1>1, <2>1
    <3>2. w = "on"
      BY <3>1
    <3>. QED
      BY <2>1, <3>2 DEF Speaks
  <2>2. CASE e \notin s[1].on /\ e \in s[1].off
    BY <1>1, <2>2 DEF Speaks
  <2>3. CASE e \notin s[1].on /\ e \notin s[1].off
    BY <1>1, <2>3 DEF Speaks
  <2>. QED
    BY <2>1, <2>2, <2>3
<1>. HIDE DEF t, w
<1>3. ASSUME NEW i \in 1 .. Len(t), Speaks(t[i], e), \A k \in 1 .. Len(t) : k > i => ~Speaks(t[k], e)
      PROVE  e \in t[i].on <=> on
  <2>1. i + 1 \in 1 .. Len(s) /\ Speaks(s[i + 1], e)
    BY <1>1, <1>3
  <2>2. ASSUME NEW k \in 1 .. Len(s), k > i + 1
        PROVE  ~Speaks(s[k], e)
    <3>1. k - 1 \in 1 .. Len(t) /\ k - 1 > i /\ (k - 1) + 1 = k
      BY <1>1, <2>2
    <3>2. t[k - 1] = s[k]
      BY <1>1, <3>1
    <3>. QED
      BY <1>3, <3>1, <3>2
  <2>. QED
    BY <1>1, <2>1, <2>2 DEF Ends
<1>4. ASSUME \A i \in 1 .. Len(t) : ~Speaks(t[i], e)
      PROVE  w = "on" <=> on
  <2>1. ASSUME NEW k \in 1 .. Len(s), k > 1
        PROVE  ~Speaks(s[k], e)
    <3>1. k - 1 \in 1 .. Len(t) /\ (k - 1) + 1 = k
      BY <1>1, <2>1
    <3>2. t[k - 1] = s[k]
      BY <1>1, <3>1
    <3>. QED
      BY <1>4, <3>1, <3>2
  <2>2. 1 \in 1 .. Len(s)
    BY <1>1
  <2>3. CASE Speaks(s[1], e)
    <3>1. e \in s[1].on <=> on
      BY <2>1, <2>2, <2>3 DEF Ends
    <3>. QED
      BY <1>2, <2>3, <3>1
  <2>4. CASE ~Speaks(s[1], e)
    <3>1. \A i \in 1 .. Len(s) : ~Speaks(s[i], e)
      BY <1>1, <2>1, <2>4
    <3>. QED
      BY <1>2, <2>4, <3>1 DEF Ends
  <2>. QED
    BY <2>3, <2>4
<1>. QED
  BY <1>3, <1>4 DEF Ends, t, w

LEMMA InitPresent == Init => Present
<1>. SUFFICES ASSUME Init PROVE Present
  OBVIOUS
<1>1. Inv /\ Types
  BY InitInv, InitTypes
<1>2. Started /\ JobsPlain
  BY DEF Init, Started, JobsPlain
<1>3. SendsOk
  BY DEF Init, SendsOk
<1>4. Greeted /\ Others /\ UpToDate
  BY DEF Init, Greeted, Others, UpToDate, Listening
<1>. QED
  BY <1>1, <1>2, <1>3, <1>4 DEF Present, Basis

\* Handing over adds the frame at the end of the queue, or nothing.
LEMMA HandedOver ==
  ASSUME Types, NEW t \in Conn, NEW f \in Frames, Sent(t, f) \/ NotSent(t)
  PROVE  \A c \in Conn : \A i \in 1 .. Len(send'[c]) :
           (i \in 1 .. Len(send[c]) /\ send'[c][i] = send[c][i]) \/ (c = t /\ send'[c][i] = f)
<1>1. CASE Sent(t, f)
  <2>1. send' = [send EXCEPT ![t] = Append(send[t], f)]
    BY <1>1 DEF Sent
  <2>2. send[t] \in Seq(Frames)
    BY DEF Types, Sends
  <2>3. \A i \in 1 .. Len(Append(send[t], f)) :
          \/ i \in 1 .. Len(send[t]) /\ Append(send[t], f)[i] = send[t][i]
          \/ Append(send[t], f)[i] = f
    BY <2>2
  <2>. QED
    BY <2>1, <2>3 DEF Types, Sends
<1>2. CASE NotSent(t)
  <2>1. send' = send
    BY <1>2 DEF NotSent
  <2>. QED
    BY <2>1
<1>. QED
  BY <1>1, <1>2

LEMMA GivenPlain ==
  ASSUME Types, JobsPlain, NEW c \in Conn, NEW frames, job' = [job EXCEPT ![c] = frames],
         \A j \in frames : Plain(j)
  PROVE  JobsPlain'
  BY DEF JobsPlain, Types, Jobs, Plain

LEMMA NewsPlain ==
  /\ \A t, d : Plain(<<t, News({d}, {})>>) /\ Plain(<<t, News({}, {d})>>)
  /\ \A t : Plain(<<t, SignalFrame>>) /\ Plain(<<t, ErrorFrame>>)
  /\ \A t, set : Plain(<<t, Snapshot(set)>>)
  BY DEF Plain, News, Frame, SignalFrame, ErrorFrame, Snapshot

LEMMA RegisterBasis ==
  ASSUME Basis, NEW c \in Conn, Register(c), Inv', Types'
  PROVE  Basis'
<1>1. /\ phase[c] = "hello" /\ phase' = [phase EXCEPT ![c] = "greet"]
      /\ job' = [job EXCEPT ![c] = {<<t, News({c[1]}, {})>> : t \in WatchersOf(c[1])}]
      /\ UNCHANGED <<watchers, send, closed, cur, isUp>>
  BY DEF Register, Tell, client
<1>2. Started'
  BY <1>1 DEF Basis, Started, Types, Presences, Jobs
<1>3. JobsPlain'
  <2>1. \A j \in {<<t, News({c[1]}, {})>> : t \in WatchersOf(c[1])} : Plain(j)
    BY NewsPlain
  <2>. QED
    BY <1>1, <2>1, GivenPlain DEF Basis
<1>4. SendsOk'
  BY <1>1 DEF Basis, SendsOk, Types, Presences
<1>5. Greeted' /\ Others'
  BY <1>1 DEF Basis, Greeted, Others, Types, Presences, Clients
<1>. QED
  BY <1>2, <1>3, <1>4, <1>5 DEF Basis

LEMMA EmitBasis ==
  ASSUME Basis, NEW c \in Conn, Emit(c), Inv', Types'
  PROVE  Basis'
<1>1. UNCHANGED <<watchers, phase, closed, cur, isUp>>
  BY DEF Emit, hub, client
<1>2. PICK j \in job[c] :
        /\ Sent(j[1], j[2]) \/ NotSent(j[1])
        /\ \/ job' = [job EXCEPT ![c] = @ \ {j}]
           \/ job' = [job EXCEPT ![c] =
                (@ \ {j}) \cup (IF j[2] = SignalFrame THEN {<<c, ErrorFrame>>} ELSE {})]
  BY DEF Emit
<1>3. j[1] \in Conn /\ j[2] \in Frames /\ Plain(j)
  BY DEF Basis, Types, Jobs, JobsPlain
<1>4. Started'
  BY <1>1, <1>2 DEF Basis, Started, Types, Jobs
<1>5. JobsPlain'
  <2>1. PICK frames : job' = [job EXCEPT ![c] = frames] /\ \A k \in frames : k \in job[c] \/ k = <<c, ErrorFrame>>
    BY <1>2
  <2>2. \A k \in frames : Plain(k)
    BY <2>1, NewsPlain DEF Basis, JobsPlain
  <2>. QED
    BY <2>1, <2>2, GivenPlain DEF Basis
<1>6. SendsOk'
  <2>1. \A x \in Conn : \A i \in 1 .. Len(send'[x]) :
          (i \in 1 .. Len(send[x]) /\ send'[x][i] = send[x][i]) \/ (x = j[1] /\ send'[x][i] = j[2])
    BY <1>2, <1>3, HandedOver DEF Basis
  <2>. QED
    BY <1>1, <1>3, <2>1 DEF Basis, SendsOk, Plain
<1>7. Greeted' /\ Others'
  BY <1>1 DEF Basis, Greeted, Others
<1>. QED
  BY <1>4, <1>5, <1>6, <1>7 DEF Basis

LEMMA GreetBasis ==
  ASSUME Basis, NEW c \in Conn, Greet(c), Inv', Types'
  PROVE  Basis'
<1>1. /\ UNCHANGED <<watchers, job, closed, cur, isUp>>
      /\ phase[c] = "greet" /\ phase' = [phase EXCEPT ![c] = "on"]
      /\ Sent(c, HelloOk) \/ NotSent(c)
  BY DEF Greet, hub, client
<1>2. Started'
  BY <1>1 DEF Basis, Started, Types, Presences
<1>3. JobsPlain'
  BY <1>1 DEF Basis, JobsPlain
<1>4. SendsOk'
  <2>1. \A x \in Conn : \A i \in 1 .. Len(send'[x]) :
          (i \in 1 .. Len(send[x]) /\ send'[x][i] = send[x][i]) \/ (x = c /\ send'[x][i] = HelloOk)
    BY <1>1, FramesAre, HandedOver DEF Basis
  <2>2. HelloOk.on \cap HelloOk.off = {}
    BY DEF HelloOk, Frame
  <2>. QED
    BY <1>1, <2>1, <2>2 DEF Basis, SendsOk, Types, Presences
<1>5. Greeted' /\ Others'
  BY <1>1 DEF Basis, Greeted, Others, Types, Presences, Clients
<1>. QED
  BY <1>2, <1>3, <1>4, <1>5 DEF Basis

LEMMA ReadBasis ==
  ASSUME Basis, NEW c \in Conn, Read(c), Inv', Types'
  PROVE  Basis'
<1>. DEFINE f == Head(inbox[c])
<1>. c[1] \in Device
  BY ConnIsOfDevice
<1>1. /\ UNCHANGED <<phase, send, closed, cur, isUp>> /\ phase[c] = "on"
      /\ watchers' = watchers \/ watchers' = [watchers EXCEPT ![c[1]] = f.ids \ {c[1]}]
  BY DEF Read, client, SetWatch
<1>2. PICK frames : job' = [job EXCEPT ![c] = frames] /\ \A j \in frames : Plain(j)
  <2>1. \/ job' = [job EXCEPT ![c] = {<<c, Snapshot(f.ids \ {c[1]})>>}]
        \/ job' = [job EXCEPT ![c] = {IF online[e] # Nobody THEN <<online[e], SignalFrame>> ELSE <<c, ErrorFrame>>
                         : e \in f.ids}]
        \/ job' = [job EXCEPT ![c] = {<<c, ErrorFrame>>}]
    BY DEF Read, Tell, TellSubscriber
  <2>2. \A j \in {<<c, Snapshot(f.ids \ {c[1]})>>} : Plain(j)
    BY NewsPlain
  <2>3. \A j \in {<<c, ErrorFrame>>} : Plain(j)
    BY NewsPlain
  <2>4. \A j \in {IF online[e] # Nobody THEN <<online[e], SignalFrame>> ELSE <<c, ErrorFrame>> : e \in f.ids} : Plain(j)
    BY NewsPlain
  <2>. QED
    BY <2>1, <2>2, <2>3, <2>4
<1>3. Started'
  BY <1>1, <1>2 DEF Basis, Started, Types, Jobs
<1>4. JobsPlain'
  BY <1>2, GivenPlain DEF Basis
<1>5. SendsOk' /\ Greeted'
  BY <1>1 DEF Basis, SendsOk, Greeted
<1>6. Others'
  BY <1>1 DEF Basis, Others, Types, Subscriptions
<1>. QED
  BY <1>3, <1>4, <1>5, <1>6 DEF Basis

LEMMA EndBasis ==
  ASSUME Basis, NEW c \in Conn, End(c), Inv', Types'
  PROVE  Basis'
<1>. c[1] \in Device
  BY ConnIsOfDevice
<1>1. /\ UNCHANGED <<send, closed, cur, isUp>> /\ closed[c] /\ job[c] = {}
      /\ phase[c] \in {"hello", "on"} /\ phase' = [phase EXCEPT ![c] = "ended"]
      /\ watchers' = watchers \/ watchers' = [watchers EXCEPT ![c[1]] = {}]
  BY DEF End, client, SetWatch, hub
<1>2. PICK frames : job' = [job EXCEPT ![c] = frames] /\ \A j \in frames : Plain(j)
  <2>1. CASE job' = job
    <3>1. job' = [job EXCEPT ![c] = job[c]] /\ \A j \in job[c] : Plain(j)
      BY <1>1, <2>1 DEF Basis, Types, Jobs
    <3>. QED
      BY <3>1
  <2>2. CASE job' = [job EXCEPT ![c] = {<<t, News({}, {c[1]})>> : t \in WatchersOf(c[1])}]
    <3>1. \A j \in {<<t, News({}, {c[1]})>> : t \in WatchersOf(c[1])} : Plain(j)
      BY NewsPlain
    <3>. QED
      BY <2>2, <3>1
  <2>. QED
    BY <2>1, <2>2 DEF End, Tell
<1>3. Started'
  BY <1>1, <1>2 DEF Basis, Started, Types, Presences, Jobs
<1>4. JobsPlain'
  BY <1>2, GivenPlain DEF Basis
<1>5. SendsOk'
  BY <1>1 DEF Basis, SendsOk, Types, Presences
<1>6. Greeted'
  BY <1>1 DEF Basis, Greeted, Types, Presences, Clients
<1>7. Others'
  BY <1>1 DEF Basis, Others, Types, Subscriptions
<1>. QED
  BY <1>3, <1>4, <1>5, <1>6, <1>7 DEF Basis

LEMMA DeliverBasis ==
  ASSUME Basis, NEW c \in Conn, Deliver(c), Inv', Types'
  PROVE  Basis'
<1>. c[1] \in Device
  BY ConnIsOfDevice
<1>1. /\ UNCHANGED <<watchers, phase, job, closed, cur>>
      /\ send[c] # <<>> /\ send' = [send EXCEPT ![c] = Tail(@)]
      /\ \/ isUp' = isUp
         \/ cur[c[1]] = c /\ isUp' = [isUp EXCEPT ![c[1]] = @ \/ Head(send[c]).type = "hello_ok"]
  BY DEF Deliver, server, hub
<1>2. Started' /\ JobsPlain' /\ Others'
  BY <1>1 DEF Basis, Started, JobsPlain, Others
<1>3. send[c] \in Seq(Frames)
  BY DEF Basis, Types, Sends
<1>4. 1 \in 1 .. Len(send[c]) /\ Head(send[c]) = send[c][1]
  BY <1>1, <1>3
<1>5. SendsOk'
  <2>1. \A i \in 1 .. Len(Tail(send[c])) : i + 1 \in 1 .. Len(send[c]) /\ Tail(send[c])[i] = send[c][i + 1]
    BY <1>1, <1>3
  <2>2. ASSUME NEW x \in Conn, NEW i \in 1 .. Len(send'[x])
        PROVE  \E k \in 1 .. Len(send[x]) : send'[x][i] = send[x][k]
    BY <1>1, <2>1 DEF Basis, Types, Sends
  <2>. QED
    BY <1>1, <2>2 DEF Basis, SendsOk
<1>6. Greeted'
  <2>1. CASE isUp' = isUp
    BY <1>1, <2>1 DEF Basis, Greeted
  <2>2. CASE cur[c[1]] = c /\ isUp' = [isUp EXCEPT ![c[1]] = @ \/ Head(send[c]).type = "hello_ok"]
    <3>1. Head(send[c]).type = "hello_ok" => phase[c] \in {"on", "ended"}
      BY <1>4 DEF Basis, SendsOk, Types, Presences
    <3>2. c # Nobody
      BY ConnIsOfDevice
    <3>3. isUp[c[1]] => phase[c] \in {"on", "ended"}
      BY <2>2 DEF Basis, Greeted
    <3>4. ASSUME NEW d \in Device, isUp'[d]
          PROVE  cur[d] # Nobody /\ phase[cur[d]] \in {"on", "ended"}
      <4>1. CASE d = c[1]
        BY <2>2, <3>1, <3>2, <3>3, <3>4, <4>1 DEF Basis, Types, Clients
      <4>2. CASE d # c[1]
        BY <2>2, <3>4, <4>2 DEF Basis, Greeted
      <4>. QED
        BY <4>1, <4>2
    <3>. QED
      BY <1>1, <3>4 DEF Greeted
  <2>. QED
    BY <1>1, <2>1, <2>2
<1>. QED
  BY <1>2, <1>5, <1>6 DEF Basis

LEMMA ConnectBasis ==
  ASSUME Basis, NEW d \in Device, Connect(d), Inv', Types'
  PROVE  Basis'
<1>1. /\ UNCHANGED <<watchers, job, send, closed, isUp>> /\ cur[d] = Nobody
  BY DEF Connect, hub
<1>2. PICK c \in Conn : /\ phase[c] = "unused" /\ phase' = [phase EXCEPT ![c] = "hello"]
                        /\ cur' = [cur EXCEPT ![d] = c]
  BY DEF Connect
<1>3. Started'
  BY <1>1, <1>2 DEF Basis, Started, Types, Presences
<1>4. JobsPlain' /\ Others'
  BY <1>1 DEF Basis, JobsPlain, Others
<1>5. SendsOk'
  BY <1>1, <1>2 DEF Basis, SendsOk, Types, Presences
<1>6. Greeted'
  BY <1>1, <1>2 DEF Basis, Greeted, Types, Presences, Clients
<1>. QED
  BY <1>3, <1>4, <1>5, <1>6 DEF Basis

LEMMA StepBasis == Basis /\ [Next]_vars => Basis'
<1>. SUFFICES ASSUME Basis, [Next]_vars
              PROVE  Basis'
  OBVIOUS
<1>. Inv' /\ Types'
  BY StepInv, StepTypes DEF Basis
<1>1. ASSUME NEW c \in Conn, Reader(c) PROVE Basis'
  BY <1>1, RegisterBasis, EmitBasis, GreetBasis, ReadBasis, EndBasis DEF Reader
<1>2. ASSUME NEW c \in Conn, Deliver(c) PROVE Basis'
  BY <1>2, DeliverBasis
<1>3. ASSUME NEW d \in Device, Connect(d) PROVE Basis'
  BY <1>3, ConnectBasis
<1>4. ASSUME UNCHANGED <<watchers, phase, job, send>>, closed' = closed \/ \E c \in Conn : closed' = [closed EXCEPT ![c] = TRUE],
             \A d \in Device : isUp'[d] => isUp[d] /\ cur'[d] = cur[d]
      PROVE Basis'
  <2>1. Started'
    BY <1>4 DEF Basis, Started, Types, Inboxes
  <2>2. JobsPlain' /\ SendsOk' /\ Others'
    BY <1>4 DEF Basis, JobsPlain, SendsOk, Others
  <2>3. Greeted'
    BY <1>4 DEF Basis, Greeted
  <2>. QED
    BY <2>1, <2>2, <2>3 DEF Basis
<1>5. ASSUME NEW c \in Conn, WriterEnds(c) \/ Lose(c) PROVE Basis'
  BY <1>4, <1>5 DEF WriterEnds, Lose, server, hub, client
<1>6. ASSUME NEW d \in Device, ClientClosed(d) PROVE Basis'
  <2>1. \A x \in Device : isUp'[x] => isUp[x] /\ cur'[x] = cur[x]
    BY <1>6 DEF ClientClosed, Basis, Types, Clients
  <2>. QED
    BY <1>4, <1>6, <2>1 DEF ClientClosed, server, hub
<1>7. ASSUME NEW d \in Device, ChangePeers(d) PROVE Basis'
  BY <1>4, <1>7 DEF ChangePeers, server, hub
<1>8. ASSUME NEW d \in Device, NEW e \in Device, SendSignal(d, e) PROVE Basis'
  BY <1>4, <1>8 DEF SendSignal, server, hub, client
<1>9. CASE UNCHANGED vars
  BY <1>4, <1>9 DEF vars, server, hub, client
<1>. QED
  BY <1>1, <1>2, <1>3, <1>5, <1>6, <1>7, <1>8, <1>9 DEF Next, Writer

\* Whose client, connection and readers' news of e are as they were knows as much of e.
LEMMA StillTold ==
  ASSUME NEW d, NEW e, Told(d, e), cur'[d] = cur[d], On(e)' <=> On(e),
         send'[cur[d]] = send[cur[d]], view'[d][e] = view[d][e],
         \A x \in Conn : \A j \in job[x] \cup job'[x] :
           j[1] = cur[d] /\ Speaks(j[2], e) => (j \in job[x] <=> j \in job'[x])
  PROVE  Told(d, e)'
<1>1. JobsSay(cur[d], e) /\ (Pending(cur[d], e) \/ Ends(send[cur[d]], view[d][e], e, On(e)))
  BY DEF Told
<1>2. Pending(cur[d], e)' <=> Pending(cur[d], e)
  BY DEF Pending, Speaks
<1>3. JobsSay(cur[d], e)'
  BY <1>1 DEF JobsSay
<1>4. Ends(send[cur[d]], view[d][e], e, On(e)) => Ends(send'[cur'[d]], view'[d][e], e, On(e)')
  BY DEF On
<1>. QED
  BY <1>1, <1>2, <1>3, <1>4 DEF Told

\* What a reader begins to tell of e, where nothing else is pending, decides.
LEMMA TellRaced ==
  ASSUME Types, NEW c, NEW frames, Tell(c, frames), NEW d \in Device, NEW e \in Device, e \notin raced'[d]
  PROVE  \/ e \notin raced[d] /\ \A j \in frames : j[1] = cur[d] => ~Speaks(j[2], e)
         \/ ~Pending(cur[d], e) /\ \E j \in frames : j[1] = cur[d] /\ Speaks(j[2], e)
<1>. DEFINE about == UNION {j[2].on \cup j[2].off : j \in {j \in frames : j[1] = cur[d]}}
<1>1. raced'[d] = (raced[d] \ about) \cup {x \in about : Pending(cur[d], x)}
  BY DEF Tell
<1>2. e \in about <=> \E j \in frames : j[1] = cur[d] /\ Speaks(j[2], e)
  BY DEF Speaks
<1>. HIDE DEF about
<1>. QED
  BY <1>1, <1>2

\* A client that listens is reached by the connection that it listens on.
LEMMA ListensWhereReached ==
  ASSUME Basis, NEW d \in Device, Listening(d)
  PROVE  cur[d] \in Conn /\ cur[d][1] = d /\ phase[cur[d]] = "on" /\ online[d] = cur[d]
<1>1. cur[d] # Nobody /\ phase[cur[d]] \in {"on", "ended"} /\ ~closed[cur[d]] /\ ~done[cur[d]]
  BY DEF Basis, Greeted, Listening
<1>2. cur[d] \in Conn /\ cur[d][1] = d
  BY <1>1 DEF Basis, Types, Clients
<1>3. phase[cur[d]] = "on"
  BY <1>1, <1>2 DEF Basis, Started
<1>. QED
  BY <1>1, <1>2, <1>3 DEF Basis, Inv, ServedIsRegistered

\* When d0 comes or goes, whoever listens and watches it is told.
LEMMA NewsTold ==
  ASSUME Present, NEW c \in Conn, NEW d0 \in Device, NEW f,
         f.on \cup f.off = {d0}, d0 \in f.on <=> On(d0)',
         \A x \in Device \ {d0} : online'[x] = online[x],
         job[c] = {}, Tell(c, {<<t, f>> : t \in WatchersOf(d0)}), UNCHANGED <<send, cur, view>>,
         NEW d \in Device, NEW e \in Device, Listening(d), e \in watchers[d], e \notin raced'[d]
  PROVE  Told(d, e)'
<1>. DEFINE frames == {<<t, f>> : t \in WatchersOf(d0)}
<1>1. \A j \in frames : j[2] = f
  OBVIOUS
<1>2. Speaks(f, e) <=> e = d0
  BY DEF Speaks
<1>3. job' = [job EXCEPT ![c] = frames] /\ Tell(c, frames)
  BY DEF Tell
<1>4. DOMAIN job = Conn
  BY DEF Present, Basis, Types, Jobs
<1>5. CASE e = d0
  <2>1. cur[d] \in WatchersOf(d0)
    <3>1. d \in watchedBy[d0]
      BY <1>5 DEF Present, Basis, Inv, IndexExact
    <3>2. online[d] = cur[d] /\ cur[d] \in Conn
      BY ListensWhereReached DEF Present
    <3>3. cur[d] # Nobody
      BY <3>2, ConnIsOfDevice
    <3>. QED
      BY <3>1, <3>2, <3>3 DEF WatchersOf
  <2>2. <<cur[d], f>> \in frames
    BY <2>1
  <2>3. ~Pending(cur[d], e)
    <3>1. <<cur[d], f>>[1] = cur[d] /\ <<cur[d], f>>[2] = f
      OBVIOUS
    <3>. HIDE DEF frames
    <3>2. \E j \in frames : j[1] = cur[d] /\ Speaks(j[2], e)
      BY <2>2, <3>1, <1>2, <1>5
    <3>. QED
      BY <3>2, <1>3, TellRaced DEF Present, Basis
  <2>. HIDE DEF frames
  <2>4. JobsSay(cur[d], e)'
    <3>1. ASSUME NEW x \in Conn, NEW j \in job'[x], j[1] = cur[d], Speaks(j[2], e)
          PROVE  e \in j[2].on <=> On(e)'
      <4>1. x = c
        BY <1>3, <1>4, <2>3, <3>1 DEF Pending, Speaks
      <4>2. j[2] = f
        BY <1>1, <1>3, <1>4, <4>1
      <4>. QED
        BY <1>5, <4>2
    <3>. QED
      BY <3>1 DEF JobsSay
  <2>5. Pending(cur[d], e)'
    <3>1. <<cur[d], f>> \in job'[c]
      BY <1>3, <1>4, <2>2
    <3>2. e \in f.on \cup f.off
      BY <1>5
    <3>3. <<cur[d], f>>[1] = cur[d] /\ <<cur[d], f>>[2] = f
      OBVIOUS
    <3>. QED
      BY <3>1, <3>2, <3>3 DEF Pending
  <2>. QED
    BY <2>4, <2>5 DEF Told
<1>6. CASE e # d0
  <2>. HIDE DEF frames
  <2>1. \A j \in frames : ~Speaks(j[2], e)
    BY <1>1, <1>2, <1>6
  <2>2. e \notin raced[d]
    BY <1>3, <2>1, TellRaced DEF Present, Basis
  <2>3. Told(d, e)
    BY <2>2 DEF Present, UpToDate
  <2>4. On(e)' <=> On(e)
    BY <1>6 DEF On
  <2>5. ASSUME NEW x \in Conn, NEW j \in job[x] \cup job'[x], Speaks(j[2], e)
        PROVE  j \in job[x] <=> j \in job'[x]
    <3>1. CASE x = c
      BY <1>3, <1>4, <2>1, <2>5, <3>1
    <3>2. CASE x # c
      BY <1>3, <1>4, <3>2
    <3>. QED
      BY <3>1, <3>2
  <2>. QED
    BY <2>3, <2>4, <2>5, StillTold
<1>. QED
  BY <1>5, <1>6

LEMMA RegisterTells ==
  ASSUME Present, NEW c \in Conn, Register(c)
  PROVE  UpToDate'
<1>. c[1] \in Device
  BY ConnIsOfDevice
<1>. DEFINE f == News({c[1]}, {})
<1>1. /\ phase[c] = "hello" /\ online' = [online EXCEPT ![c[1]] = c]
      /\ done' = [x \in Conn |-> done[x] \/ x = online[c[1]]]
      /\ Tell(c, {<<t, f>> : t \in WatchersOf(c[1])})
      /\ UNCHANGED <<watchers, closed, inbox, send, cur, isUp, view>>
  BY DEF Register, client
<1>2. f.on \cup f.off = {c[1]} /\ c[1] \in f.on
  BY DEF News, Frame
<1>3. On(c[1])' /\ \A x \in Device \ {c[1]} : online'[x] = online[x]
  BY <1>1, ConnIsOfDevice DEF On, Present, Basis, Types, Presences
<1>4. job[c] = {}
  BY <1>1 DEF Present, Basis, Started
<1>. HIDE DEF f
<1>5. ASSUME NEW d \in Device, NEW e \in Device, Listening(d)', e \in watchers'[d], e \notin raced'[d]
      PROVE  Told(d, e)'
  <2>1. cur[d] \in Conn
    BY <1>1, <1>5 DEF Listening, Present, Basis, Greeted, Types, Clients
  <2>2. ~done[cur[d]]
    BY <1>1, <1>5, <2>1, Zenon DEF Listening
  <2>3. Listening(d)
    BY <1>1, <1>5, <2>2 DEF Listening
  <2>. QED
    BY <1>1, <1>2, <1>3, <1>4, <1>5, <2>3, NewsTold
<1>. QED
  BY <1>5 DEF UpToDate

LEMMA EndTells ==
  ASSUME Present, NEW c \in Conn, End(c)
  PROVE  UpToDate'
<1>. c[1] \in Device
  BY ConnIsOfDevice
<1>1. /\ job[c] = {} /\ closed[c] /\ inbox' = [inbox EXCEPT ![c] = <<>>]
      /\ UNCHANGED <<closed, done, send, cur, isUp, view>>
  BY DEF End, client
<1>2. ASSUME NEW d \in Device, Listening(d)'
      PROVE  Listening(d)
  BY <1>1, <1>2 DEF Listening, Present, Basis, Types, Inboxes
<1>3. CASE phase[c] = "on" /\ IsRegistered(c)
  <2>. DEFINE f == News({}, {c[1]})
  <2>1. /\ online' = [online EXCEPT ![c[1]] = Nobody]
        /\ watchers' = [watchers EXCEPT ![c[1]] = {}]
        /\ Tell(c, {<<t, f>> : t \in WatchersOf(c[1])})
    BY <1>3 DEF End, SetWatch
  <2>2. f.on \cup f.off = {c[1]} /\ c[1] \notin f.on
    BY DEF News, Frame
  <2>3. ~On(c[1])' /\ \A x \in Device \ {c[1]} : online'[x] = online[x]
    BY <2>1 DEF On, Present, Basis, Types, Presences
  <2>. HIDE DEF f
  <2>4. ASSUME NEW d \in Device, NEW e \in Device, Listening(d)', e \in watchers'[d], e \notin raced'[d]
        PROVE  Told(d, e)'
    <3>1. e \in watchers[d]
      BY <2>1, <2>4 DEF Present, Basis, Types, Subscriptions
    <3>. QED
      BY <1>1, <1>2, <2>1, <2>2, <2>3, <2>4, <3>1, NewsTold
  <2>. QED
    BY <2>4 DEF UpToDate
<1>4. CASE ~(phase[c] = "on" /\ IsRegistered(c))
  <2>1. UNCHANGED <<online, watchers, job, raced>>
    BY <1>4 DEF End, hub
  <2>2. ASSUME NEW d \in Device, NEW e \in Device, Listening(d)', e \in watchers'[d], e \notin raced'[d]
        PROVE  Told(d, e)'
    <3>1. Told(d, e)
      BY <1>2, <2>1, <2>2 DEF Present, UpToDate
    <3>. QED
      BY <1>1, <2>1, <3>1, StillTold DEF On
  <2>. QED
    BY <2>2 DEF UpToDate
<1>. QED
  BY <1>3, <1>4

\* Handing over news that is true, or no news, to a connection with room.
LEMMA EmitTells ==
  ASSUME Present, NEW c \in Conn, Emit(c)
  PROVE  UpToDate'
<1>1. UNCHANGED <<online, watchers, raced, closed, inbox, cur, isUp, view>>
  BY DEF Emit, hub, client
<1>2. PICK j \in job[c] :
        \/ Sent(j[1], j[2]) /\ job' = [job EXCEPT ![c] = @ \ {j}]
        \/ /\ NotSent(j[1])
           /\ job' = [job EXCEPT ![c] =
                (@ \ {j}) \cup (IF j[2] = SignalFrame THEN {<<c, ErrorFrame>>} ELSE {})]
  BY DEF Emit
<1>3. j[1] \in Conn /\ j[2] \in Frames
  BY DEF Present, Basis, Types, Jobs
<1>4. done \in [Conn -> BOOLEAN] /\ DOMAIN job = Conn /\ send \in [Conn -> Seq(Frames)]
  BY DEF Present, Basis, Types, Sends, Jobs
<1>5. \A x \in Conn : done[x] => done'[x]
  BY <1>2, <1>4, SendingKicks
<1>6. ASSUME NEW d \in Device, NEW e \in Device, Listening(d)', e \in watchers'[d], e \notin raced'[d]
      PROVE  Told(d, e)'
  <2>1. cur[d] \in Conn
    BY <1>1, <1>6 DEF Listening, Present, Basis, Greeted, Types, Clients
  <2>2. Listening(d)
    BY <1>1, <1>5, <1>6, <2>1 DEF Listening
  <2>3. Told(d, e)
    BY <1>1, <1>6, <2>2 DEF Present, UpToDate
  <2>4. CASE Sent(j[1], j[2]) /\ job' = [job EXCEPT ![c] = @ \ {j}]
    <3>1. send' = [send EXCEPT ![j[1]] = Append(@, j[2])]
      BY <2>4 DEF Sent
    <3>2. CASE j[1] = cur[d]
      <4>1. JobsSay(cur[d], e) /\ JobsSay(cur[d], e)'
        BY <1>1, <1>4, <2>3, <2>4 DEF Told, JobsSay, On
      <4>2. Speaks(j[2], e) => (e \in j[2].on <=> On(e))
        BY <3>2, <4>1 DEF JobsSay
      <4>3. ~Speaks(j[2], e) /\ Pending(cur[d], e) => Pending(cur[d], e)'
        BY <1>1, <1>4, <2>4 DEF Pending, Speaks
      <4>4. send'[cur[d]] = Append(send[cur[d]], j[2])
        BY <1>4, <2>1, <3>1, <3>2
      <4>5. ~Pending(cur[d], e)' => Ends(Append(send[cur[d]], j[2]), view[d][e], e, On(e))
        <5>1. send[cur[d]] \in Seq(Frames) /\ On(e) \in BOOLEAN
          BY <1>4, <2>1 DEF On
        <5>2. ~Pending(cur[d], e)' /\ ~Speaks(j[2], e) => Ends(send[cur[d]], view[d][e], e, On(e))
          BY <2>3, <4>3 DEF Told
        <5>. QED
          BY <1>3, <4>2, <5>1, <5>2, EndsAppend
      <4>6. On(e)' <=> On(e)
        BY <1>1 DEF On
      <4>. QED
        BY <1>1, <4>1, <4>4, <4>5, <4>6 DEF Told, On
    <3>3. CASE j[1] # cur[d]
      <4>1. send'[cur[d]] = send[cur[d]]
        BY <1>4, <2>1, <3>1, <3>3
      <4>2. \A x \in Conn : \A k \in job[x] \cup job'[x] : k[1] = cur[d] => (k \in job[x] <=> k \in job'[x])
        BY <1>4, <2>4, <3>3
      <4>. QED
        BY <1>1, <2>3, <4>1, <4>2, StillTold DEF On
    <3>. QED
      BY <3>2, <3>3
  <2>5. CASE /\ NotSent(j[1])
             /\ job' = [job EXCEPT ![c] =
                  (@ \ {j}) \cup (IF j[2] = SignalFrame THEN {<<c, ErrorFrame>>} ELSE {})]
    <3>1. send' = send /\ done'[j[1]]
      BY <1>3, <1>4, <2>5 DEF NotSent
    <3>2. j[1] # cur[d]
      BY <1>1, <1>6, <3>1 DEF Listening
    <3>3. ~Speaks(<<c, ErrorFrame>>[2], e)
      BY DEF Speaks, ErrorFrame, Frame
    <3>. DEFINE extra == IF j[2] = SignalFrame THEN {<<c, ErrorFrame>>} ELSE {}
    <3>4. job' = [job EXCEPT ![c] = (@ \ {j}) \cup extra] /\ \A k \in extra : ~Speaks(k[2], e)
      BY <2>5, <3>3
    <3>. HIDE DEF extra
    <3>5. \A x \in Conn : \A k \in job[x] \cup job'[x] :
             k[1] = cur[d] /\ Speaks(k[2], e) => (k \in job[x] <=> k \in job'[x])
      BY <1>4, <3>2, <3>4
    <3>. QED
      BY <1>1, <2>3, <3>1, <3>5, StillTold DEF On
  <2>. QED
    BY <1>2, <2>4, <2>5
<1>. QED
  BY <1>6 DEF UpToDate

\* Nobody listens on the connection that is greeted.
LEMMA GreetTells ==
  ASSUME Present, NEW c \in Conn, Greet(c)
  PROVE  UpToDate'
<1>1. /\ UNCHANGED <<online, watchers, job, raced, closed, inbox, cur, isUp, view>>
      /\ phase[c] = "greet" /\ (Sent(c, HelloOk) \/ NotSent(c))
  BY DEF Greet, hub, client
<1>2. done \in [Conn -> BOOLEAN]
  BY DEF Present, Basis, Types, Sends
<1>3. \A x \in Conn : done[x] => done'[x]
  BY <1>1, <1>2, SendingKicks
<1>4. \A x \in Conn \ {c} : send'[x] = send[x]
  BY <1>1 DEF Sent, NotSent, Present, Basis, Types, Sends
<1>5. ASSUME NEW d \in Device, NEW e \in Device, Listening(d)', e \in watchers'[d], e \notin raced'[d]
      PROVE  Told(d, e)'
  <2>1. cur[d] \in Conn
    BY <1>1, <1>5 DEF Listening, Present, Basis, Greeted, Types, Clients
  <2>2. Listening(d)
    BY <1>1, <1>3, <1>5, <2>1 DEF Listening
  <2>3. Told(d, e)
    BY <1>1, <1>5, <2>2 DEF Present, UpToDate
  <2>4. cur[d] # c
    BY <1>1, <2>2, ListensWhereReached DEF Present
  <2>. QED
    BY <1>1, <1>4, <2>1, <2>3, <2>4, StillTold DEF On
<1>. QED
  BY <1>5 DEF UpToDate

\* A subscription of the connection that its client listens on is answered with the truth;
\* of another connection of the device, what the client is told counts no longer.
LEMMA ReadTells ==
  ASSUME Present, NEW c \in Conn, Read(c)
  PROVE  UpToDate'
<1>. DEFINE f == Head(inbox[c])
            set == f.ids \ {c[1]}
            frames == {IF online[e] # Nobody THEN <<online[e], SignalFrame>> ELSE <<c, ErrorFrame>> : e \in f.ids}
<1>. c[1] \in Device /\ c # Nobody
  BY ConnIsOfDevice
<1>1. /\ job[c] = {} /\ inbox[c] # <<>> /\ inbox' = [inbox EXCEPT ![c] = Tail(@)]
      /\ UNCHANGED <<online, send, closed, cur, isUp, view>>
  BY DEF Read, client
<1>2. \/ /\ f.type = "subscribe" /\ watchers' = [watchers EXCEPT ![c[1]] = set]
         /\ TellSubscriber(c, Snapshot(set)) /\ done' = done
      \/ f.type = "signal" /\ Tell(c, frames) /\ UNCHANGED <<watchers, done>>
      \/ Tell(c, {<<c, ErrorFrame>>}) /\ done' = [done EXCEPT ![c] = TRUE] /\ UNCHANGED watchers
  BY DEF Read, SetWatch
<1>3. inbox \in [Conn -> Seq(Requests)] /\ DOMAIN job = Conn /\ done \in [Conn -> BOOLEAN]
  BY DEF Present, Basis, Types, Inboxes, Jobs, Sends
<1>4. inbox[c] \in Seq(Requests)
  BY <1>3
<1>5. f \in Requests
  BY <1>1, <1>4
<1>6. ASSUME f.type = "signal", NoSubscription(Tail(inbox[c]))
      PROVE  NoSubscription(inbox[c])
  <2>1. \A i \in 1 .. Len(inbox[c]) : inbox[c][i] = f \/ (i - 1 \in 1 .. Len(Tail(inbox[c])) /\ inbox[c][i] = Tail(inbox[c])[i - 1])
    BY <1>1, <1>4
  <2>. HIDE DEF f
  <2>. QED
    BY <1>6, <2>1 DEF NoSubscription
<1>7. /\ \A j \in frames : \A e : ~Speaks(j[2], e)
      /\ \A j \in {<<c, ErrorFrame>>} : \A e : ~Speaks(j[2], e)
  BY DEF Speaks, SignalFrame, ErrorFrame, Frame
<1>. HIDE DEF f, frames
<1>8. ASSUME NEW d \in Device, NEW e \in Device, Listening(d)', e \in watchers'[d], e \notin raced'[d]
      PROVE  Told(d, e)'
  <2>1. cur[d] \in Conn /\ cur[d][1] = d
    BY <1>1, <1>8 DEF Listening, Present, Basis, Greeted, Types, Clients
  <2>2. \A x \in Conn : done[x] => done'[x]
    BY <1>2, <1>3
  <2>3. cur[d] # c => Listening(d)
    BY <1>1, <1>3, <1>8, <2>1, <2>2 DEF Listening
  <2>4. ASSUME NEW silent, Tell(c, silent), \A j \in silent : \A x : ~Speaks(j[2], x), Listening(d), UNCHANGED watchers
        PROVE  Told(d, e)'
    <3>1. e \notin raced[d]
      BY <1>8, <2>4, TellRaced DEF Present, Basis
    <3>2. Told(d, e)
      BY <1>8, <2>4, <3>1 DEF Present, UpToDate
    <3>3. job' = [job EXCEPT ![c] = silent]
      BY <2>4 DEF Tell
    <3>4. \A x \in Conn : \A j \in job[x] \cup job'[x] :
             j[1] = cur[d] /\ Speaks(j[2], e) => (j \in job[x] <=> j \in job'[x])
      BY <1>1, <1>3, <2>4, <3>3
    <3>. QED
      BY <1>1, <3>2, <3>4, StillTold DEF On
  <2>5. CASE f.type = "signal" /\ Tell(c, frames) /\ UNCHANGED <<watchers, done>>
    <3>1. Listening(d)
      <4>1. CASE cur[d] = c
        BY <1>1, <1>3, <1>6, <1>8, <2>1, <2>5, <4>1 DEF Listening
      <4>. QED
        BY <2>3, <4>1
    <3>. QED
      BY <1>7, <2>4, <2>5, <3>1
  <2>6. CASE Tell(c, {<<c, ErrorFrame>>}) /\ done' = [done EXCEPT ![c] = TRUE] /\ UNCHANGED watchers
    <3>1. cur[d] # c
      BY <1>1, <1>3, <1>8, <2>6 DEF Listening
    <3>. QED
      BY <1>7, <2>3, <2>4, <2>6, <3>1
  <2>7. CASE /\ f.type = "subscribe" /\ watchers' = [watchers EXCEPT ![c[1]] = set]
             /\ TellSubscriber(c, Snapshot(set)) /\ done' = done
    <3>1. /\ job' = [job EXCEPT ![c] = {<<c, Snapshot(set)>>}]
          /\ raced' = [raced EXCEPT ![c[1]] =
               IF cur[c[1]] = c THEN {x \in Device : Pending(c, x)} ELSE Device]
      BY <2>7 DEF TellSubscriber
    <3>2. raced \in [Device -> SUBSET Device] /\ watchers \in [Device -> SUBSET Device]
      BY DEF Present, Basis, Types, Jobs, Subscriptions
    <3>3. CASE cur[d] = c
      <4>1. ~Pending(c, e) /\ e \in set
        BY <1>8, <2>1, <2>7, <3>1, <3>2, <3>3
      <4>2. e \in Snapshot(set).on <=> On(e)
        BY <4>1 DEF Snapshot, News, Frame, On
      <4>3. Speaks(Snapshot(set), e)
        BY <4>1 DEF Snapshot, News, Frame, Speaks
      <4>4. On(e)' <=> On(e)
        BY <1>1 DEF On
      <4>5. job'[c] = {<<c, Snapshot(set)>>} /\ \A x \in Conn \ {c} : job'[x] = job[x]
        BY <1>3, <3>1
      <4>. HIDE DEF set
      <4>6. JobsSay(cur[d], e)'
        <5>1. ASSUME NEW x \in Conn, NEW j \in job'[x], j[1] = c, Speaks(j[2], e)
              PROVE  e \in j[2].on <=> On(e)'
          <6>1. CASE x = c
            BY <4>2, <4>4, <4>5, <5>1, <6>1
          <6>2. CASE x # c
            BY <4>1, <4>5, <5>1, <6>2 DEF Pending, Speaks
          <6>. QED
            BY <6>1, <6>2
        <5>. QED
          BY <1>1, <3>3, <5>1 DEF JobsSay
      <4>7. Pending(cur[d], e)'
        <5>1. <<c, Snapshot(set)>> \in job'[c] /\ <<c, Snapshot(set)>>[1] = c /\ <<c, Snapshot(set)>>[2] = Snapshot(set)
          BY <4>5
        <5>. QED
          BY <1>1, <3>3, <4>3, <5>1 DEF Pending, Speaks
      <4>. QED
        BY <4>6, <4>7 DEF Told
    <3>4. CASE cur[d] # c
      <4>1. d # c[1]
        <5>1. CASE d = c[1]
          BY <1>8, <3>1, <3>2, <3>4, <5>1
        <5>. QED
          BY <5>1
      <4>2. e \in watchers[d] /\ e \notin raced[d]
        BY <1>8, <2>7, <3>1, <3>2, <4>1
      <4>3. Told(d, e)
        BY <2>3, <3>4, <4>2 DEF Present, UpToDate
      <4>4. \A j \in {<<c, Snapshot(set)>>} : j[1] # cur[d]
        BY <3>4
      <4>. HIDE DEF set
      <4>5. \A x \in Conn : \A j \in job[x] \cup job'[x] : j[1] = cur[d] => (j \in job[x] <=> j \in job'[x])
        BY <1>1, <1>3, <3>1, <4>4
      <4>. QED
        BY <1>1, <4>3, <4>5, StillTold DEF On
    <3>. QED
      BY <3>3, <3>4
  <2>. QED
    BY <1>2, <2>5, <2>6, <2>7
<1>. QED
  BY <1>8 DEF UpToDate

LEMMA DeliverTells ==
  ASSUME Present, NEW c \in Conn, Deliver(c)
  PROVE  UpToDate'
<1>. DEFINE f == Head(send[c])
            heard == [e \in Device |-> CASE e \in f.on -> "on" [] e \in f.off -> "off" [] OTHER -> view[c[1]][e]]
<1>. c[1] \in Device
  BY ConnIsOfDevice
<1>1. /\ UNCHANGED <<online, watchers, job, raced, done, closed, cur>>
      /\ send[c] # <<>> /\ send' = [send EXCEPT ![c] = Tail(@)]
  BY DEF Deliver, server, hub
<1>2. \/ cur[c[1]] # c /\ UNCHANGED <<isUp, inbox, view>>
      \/ /\ cur[c[1]] = c
         /\ isUp' = [isUp EXCEPT ![c[1]] = @ \/ f.type = "hello_ok"]
         /\ inbox' = [inbox EXCEPT ![c] =
              IF f.type = "hello_ok" THEN Append(@, Subscription(Wanted[c[1]][wanted[c[1]]])) ELSE @]
         /\ view' = [view EXCEPT ![c[1]] = heard]
  BY DEF Deliver
<1>3. /\ send \in [Conn -> Seq(Frames)] /\ inbox \in [Conn -> Seq(Requests)]
      /\ isUp \in [Device -> BOOLEAN] /\ DOMAIN view = Device
  BY DEF Present, Basis, Types, Sends, Inboxes, Clients
<1>4. send[c] \in Seq(Frames) /\ inbox[c] \in Seq(Requests)
  BY <1>3
<1>5. f.on \cap f.off = {}
  <2>1. 1 \in 1 .. Len(send[c]) /\ f = send[c][1]
    BY <1>1, <1>4
  <2>. QED
    BY <2>1 DEF Present, Basis, SendsOk
<1>. HIDE DEF f
<1>6. ASSUME NEW d \in Device, NEW e \in Device, Listening(d)', e \in watchers'[d], e \notin raced'[d]
      PROVE  Told(d, e)'
  <2>1. CASE cur[d] = c
    <3>1. cur[d] # Nobody
      BY <2>1, ConnIsOfDevice
    <3>2. d = c[1] /\ cur[c[1]] = c
      BY <2>1, <3>1 DEF Present, Basis, Types, Clients
    <3>3. f.type # "hello_ok"
      <4>1. ASSUME f.type = "hello_ok" PROVE FALSE
        <5>. DEFINE s == Subscription(Wanted[c[1]][wanted[c[1]]])
        <5>1. s.type = "subscribe"
          BY DEF Subscription
        <5>2. inbox'[c] = Append(inbox[c], s)
          BY <1>2, <1>3, <3>2, <4>1
        <5>. HIDE DEF s
        <5>3. Len(inbox[c]) + 1 \in 1 .. Len(Append(inbox[c], s)) /\ Append(inbox[c], s)[Len(inbox[c]) + 1] = s
          BY <1>4
        <5>4. ~NoSubscription(inbox'[c])
          BY <5>1, <5>2, <5>3 DEF NoSubscription
        <5>. QED
          BY <1>1, <1>6, <2>1, <5>4 DEF Listening
      <4>. QED
        BY <4>1
    <3>4. inbox' = inbox /\ isUp' = isUp /\ view' = [view EXCEPT ![c[1]] = heard]
      <4>1. inbox' = [inbox EXCEPT ![c] = inbox[c]] /\ view' = [view EXCEPT ![c[1]] = heard]
        BY <1>2, <3>2, <3>3
      <4>2. isUp' = [isUp EXCEPT ![c[1]] = isUp[c[1]] \/ FALSE]
        BY <1>2, <3>2, <3>3
      <4>. QED
        BY <1>3, <4>1, <4>2
    <3>5. Told(d, e)
      BY <1>1, <1>6, <3>4 DEF Listening, Present, UpToDate
    <3>6. view'[d][e] = CASE e \in f.on -> "on" [] e \in f.off -> "off" [] OTHER -> view[d][e]
      BY <1>3, <3>2, <3>4
    <3>7. Ends(send[c], view[d][e], e, On(e)) => Ends(Tail(send[c]), view'[d][e], e, On(e))
      BY <1>1, <1>4, <1>5, <3>6, EndsTail DEF On, f
    <3>8. send'[c] = Tail(send[c])
      BY <1>1, <1>3
    <3>9. JobsSay(cur[d], e)' /\ (Pending(cur[d], e)' <=> Pending(cur[d], e)) /\ (On(e)' <=> On(e))
      BY <1>1, <3>5 DEF Told, JobsSay, Pending, On
    <3>. QED
      BY <1>1, <2>1, <3>5, <3>7, <3>8, <3>9 DEF Told, On
  <2>2. CASE cur[d] # c
    <3>. HIDE DEF heard
    <3>1. view'[d] = view[d] /\ isUp'[d] = isUp[d]
      BY <1>2, <1>3, <2>2
    <3>2. cur[d] \in Conn
      BY <1>1, <1>6, <3>1 DEF Listening, Present, Basis, Greeted, Types, Clients
    <3>3. inbox'[cur[d]] = inbox[cur[d]] /\ send'[cur[d]] = send[cur[d]]
      BY <1>1, <1>2, <1>3, <2>2, <3>2
    <3>4. Told(d, e)
      BY <1>1, <1>6, <3>1, <3>3 DEF Listening, Present, UpToDate
    <3>. QED
      BY <1>1, <3>1, <3>3, <3>4, StillTold DEF On
  <2>. QED
    BY <2>1, <2>2
<1>. QED
  BY <1>6 DEF UpToDate

\* Of what the hub does nothing about, a client that listens knows as much as before.
LEMMA Elsewhere ==
  ASSUME Present, UNCHANGED <<online, watchers, job, send, view>>,
         \A d \in Device : Listening(d)' => Listening(d) /\ cur'[d] = cur[d] /\ raced'[d] = raced[d]
  PROVE  UpToDate'
<1>1. ASSUME NEW d \in Device, NEW e \in Device, Listening(d)', e \in watchers'[d], e \notin raced'[d]
      PROVE  Told(d, e)'
  <2>1. Told(d, e)
    BY <1>1 DEF Present, UpToDate
  <2>. QED
    BY <1>1, <2>1, StillTold DEF On
<1>. QED
  BY <1>1 DEF UpToDate

\* Who asks for other devices has no answer yet.
LEMMA PeersTells ==
  ASSUME Present, NEW d0 \in Device, ChangePeers(d0)
  PROVE  UpToDate'
<1>. DEFINE s == Subscription(Wanted[d0][wanted'[d0]])
<1>1. /\ UNCHANGED <<online, watchers, job, raced, send, done, closed, cur, isUp, view>>
      /\ inbox' = IF isUp[d0] THEN [inbox EXCEPT ![cur[d0]] = Append(@, s)] ELSE inbox
  BY DEF ChangePeers, server, hub
<1>2. s.type = "subscribe"
  BY DEF Subscription
<1>3. inbox \in [Conn -> Seq(Requests)]
  BY DEF Present, Basis, Types, Inboxes
<1>. HIDE DEF s
<1>4. ASSUME NEW d \in Device, Listening(d)'
      PROVE  Listening(d)
  <2>1. isUp[d] /\ cur[d] \in Conn /\ cur[d][1] = d
    BY <1>1, <1>4 DEF Listening, Present, Basis, Greeted, Types, Clients
  <2>2. CASE d = d0
    <3>1. inbox[cur[d]] \in Seq(Requests)
      BY <1>3, <2>1
    <3>2. Len(inbox[cur[d]]) + 1 \in 1 .. Len(Append(inbox[cur[d]], s)) /\ Append(inbox[cur[d]], s)[Len(inbox[cur[d]]) + 1] = s
      BY <3>1
    <3>3. inbox'[cur[d]] = Append(inbox[cur[d]], s)
      BY <1>1, <1>3, <2>1, <2>2
    <3>4. ~NoSubscription(inbox'[cur[d]])
      BY <1>2, <3>2, <3>3 DEF NoSubscription
    <3>. QED
      BY <1>1, <1>4, <3>4 DEF Listening
  <2>3. CASE d # d0
    <3>1. isUp[d0] => cur[d0] # Nobody /\ cur[d0][1] = d0
      BY DEF Present, Basis, Greeted, Types, Clients
    <3>2. inbox'[cur[d]] = inbox[cur[d]]
      BY <1>1, <1>3, <2>1, <2>3, <3>1
    <3>. QED
      BY <1>1, <1>4, <3>2 DEF Listening
  <2>. QED
    BY <2>2, <2>3
<1>. QED
  BY <1>1, <1>4, Elsewhere

LEMMA SignalTells ==
  ASSUME Present, NEW d0 \in Device, NEW e0 \in Device, SendSignal(d0, e0)
  PROVE  UpToDate'
<1>1. /\ UNCHANGED <<online, watchers, job, raced, send, done, closed, cur, isUp, view>>
      /\ inbox' = [inbox EXCEPT ![cur[d0]] = Append(@, Signal(e0))]
  BY DEF SendSignal, server, hub, client
<1>2. inbox \in [Conn -> Seq(Requests)]
  BY DEF Present, Basis, Types, Inboxes
<1>3. ASSUME NEW x \in Conn, NoSubscription(inbox'[x])
      PROVE  NoSubscription(inbox[x])
  <2>1. inbox[x] \in Seq(Requests)
    BY <1>2
  <2>2. \A i \in 1 .. Len(inbox[x]) : i \in 1 .. Len(Append(inbox[x], Signal(e0))) /\ Append(inbox[x], Signal(e0))[i] = inbox[x][i]
    BY <2>1
  <2>3. inbox'[x] = inbox[x] \/ inbox'[x] = Append(inbox[x], Signal(e0))
    BY <1>1, <1>2
  <2>. QED
    BY <1>3, <2>2, <2>3 DEF NoSubscription
<1>4. ASSUME NEW d \in Device, Listening(d)'
      PROVE  Listening(d)
  <2>1. cur[d] \in Conn
    BY <1>1, <1>4 DEF Listening, Present, Basis, Greeted, Types, Clients
  <2>. QED
    BY <1>1, <1>3, <1>4, <2>1 DEF Listening
<1>. QED
  BY <1>1, <1>4, Elsewhere

LEMMA ConnectTells ==
  ASSUME Present, NEW d0 \in Device, Connect(d0)
  PROVE  UpToDate'
<1>1. /\ UNCHANGED <<online, watchers, job, send, done, closed, inbox, isUp, view>>
      /\ cur[d0] = Nobody /\ raced' = [raced EXCEPT ![d0] = {}]
      /\ \E c : cur' = [cur EXCEPT ![d0] = c]
  BY DEF Connect, hub
<1>2. ~isUp[d0]
  BY <1>1 DEF Present, Basis, Greeted
<1>3. ASSUME NEW d \in Device, Listening(d)'
      PROVE  Listening(d) /\ cur'[d] = cur[d] /\ raced'[d] = raced[d]
  <2>1. d # d0
    BY <1>1, <1>2, <1>3 DEF Listening
  <2>2. cur'[d] = cur[d] /\ raced'[d] = raced[d]
    BY <1>1, <2>1
  <2>. QED
    BY <1>1, <1>3, <2>2 DEF Listening
<1>. QED
  BY <1>1, <1>3, Elsewhere

LEMMA ClosedTells ==
  ASSUME Present, NEW d0 \in Device, ClientClosed(d0)
  PROVE  UpToDate'
<1>1. /\ UNCHANGED <<online, watchers, job, raced, send, done, closed, inbox, view>>
      /\ isUp' = [isUp EXCEPT ![d0] = FALSE] /\ cur' = [cur EXCEPT ![d0] = Nobody]
  BY DEF ClientClosed, server, hub
<1>2. DOMAIN isUp = Device
  BY DEF Present, Basis, Types, Clients
<1>3. ASSUME NEW d \in Device, Listening(d)'
      PROVE  Listening(d) /\ cur'[d] = cur[d] /\ raced'[d] = raced[d]
  <2>1. d # d0
    BY <1>1, <1>2, <1>3 DEF Listening
  <2>2. cur'[d] = cur[d] /\ isUp'[d] = isUp[d]
    BY <1>1, <2>1
  <2>. QED
    BY <1>1, <1>3, <2>2 DEF Listening
<1>. QED
  BY <1>1, <1>3, Elsewhere

LEMMA StepPresent == Present /\ [Next]_vars => Present'
<1>. SUFFICES ASSUME Present, [Next]_vars
              PROVE  UpToDate'
  BY StepBasis DEF Present
<1>1. ASSUME NEW c \in Conn, Reader(c) PROVE UpToDate'
  BY <1>1, RegisterTells, EmitTells, GreetTells, ReadTells, EndTells DEF Reader
<1>2. ASSUME NEW c \in Conn, Deliver(c) PROVE UpToDate'
  BY <1>2, DeliverTells
<1>3. ASSUME NEW c \in Conn, WriterEnds(c) \/ Lose(c) PROVE UpToDate'
  <2>1. /\ UNCHANGED <<online, watchers, job, raced, send, done, inbox, cur, isUp, view>>
        /\ closed' = [closed EXCEPT ![c] = TRUE]
    BY <1>3 DEF WriterEnds, Lose, server, hub, client
  <2>2. \A d \in Device : Listening(d)' => Listening(d)
    BY <2>1 DEF Listening, Present, Basis, Types, Inboxes
  <2>. QED
    BY <2>1, <2>2, Elsewhere
<1>4. ASSUME NEW d \in Device, ClientClosed(d) \/ Connect(d) \/ ChangePeers(d) PROVE UpToDate'
  BY <1>4, ClosedTells, ConnectTells, PeersTells
<1>5. ASSUME NEW d \in Device, NEW e \in Device, SendSignal(d, e) PROVE UpToDate'
  BY <1>5, SignalTells
<1>6. CASE UNCHANGED vars
  <2>1. UNCHANGED <<online, watchers, job, raced, send, done, closed, inbox, cur, isUp, view>>
    BY <1>6 DEF vars, server, hub, client
  <2>2. \A d \in Device : Listening(d)' => Listening(d)
    BY <2>1 DEF Listening
  <2>. QED
    BY <2>1, <2>2, Elsewhere
<1>. QED
  BY <1>1, <1>2, <1>3, <1>4, <1>5, <1>6 DEF Next, Writer

\* A device that has heard all there is for it knows who of those it asked for is online,
\* whoever comes and goes meanwhile, but for news that raced.  (handleHello, subscribe,
\* unregister, sendJSON)
THEOREM ViewsAreTrue == Spec => []ViewTrue
<1>1. Present => ViewTrue
  <2>. SUFFICES ASSUME Present, NEW d \in Device, NEW e \in Device,
                       isUp[d], ~closed[cur[d]], ~done[cur[d]], inbox[cur[d]] = <<>>, send[cur[d]] = <<>>,
                       e \in watchers[d], ~Pending(cur[d], e), e \notin raced[d]
                PROVE  view[d][e] = "on" <=> online[e] # Nobody
    BY DEF ViewTrue
  <2>1. Listening(d)
    BY DEF Listening, NoSubscription
  <2>2. Told(d, e)
    BY <2>1 DEF Present, UpToDate
  <2>. QED
    BY <2>2 DEF Told, Ends, On
<1>. QED
  BY <1>1, InitPresent, StepPresent, PTL DEF Spec
=============================================================================
