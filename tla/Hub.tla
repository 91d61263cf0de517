-------------------------------- MODULE Hub --------------------------------
(***************************************************************************)
(* Presence: server/hub.go, the connections of server/client.go, and the   *)
(* part of core/lib/src/rendezvous/rendezvous.dart that subscribes and     *)
(* listens.                                                                *)
(*                                                                         *)
(* Each connection has a goroutine that reads and one that writes.  The    *)
(* reader changes the tables of the hub under its lock and decides there   *)
(* whom to tell; it tells them one after the other when the lock is free   *)
(* again, while other readers do the same.  Telling never waits: a         *)
(* connection whose buffer is full is kicked.  A kicked connection is      *)
(* closed by its writer; its reader may still handle frames until then.    *)
(***************************************************************************)
EXTENDS Integers, FiniteSets, SequencesExt

CONSTANTS
  Device,     \* the devices
  Wanted,     \* Wanted[d]: what d subscribes to, one set after the other
  MaxConns,   \* bound: d connects MaxConns[d] times
  SendBuffer, \* capacity of Client.send
  MaxSignals, \* bound: so many signals are sent
  MaxFaults   \* bound: so many connections are lost or over their limit

ASSUME HubAssumption ==
  /\ \A d \in Device : Wanted[d] \in Seq(SUBSET (Device \ {d})) /\ Wanted[d] # <<>>
  /\ MaxConns \in [Device -> Nat] /\ SendBuffer \in Nat \ {0}
  /\ MaxSignals \in Nat /\ MaxFaults \in Nat

\* connections: the device and a number
Conn   == UNION {{d} \X (1 .. MaxConns[d]) : d \in Device}
Nobody == <<>>

VARIABLES
  online,    \* Hub.online, Nobody where there is no entry
  watchers,  \* Hub.watchers
  watchedBy, \* Hub.watchedBy
  phase,     \* phase[c]: where the reader of c is
  job,       \* job[c]: what it still has to tell, pairs of a connection and a frame
  send,      \* send[c]: Client.send and what is on the wire
  done,      \* done[c]: c is kicked
  closed,    \* closed[c]: the socket of c is closed at either end
  inbox,     \* inbox[c]: frames of the device that were not read
  cur,       \* cur[d]: _channel of the client on d
  isUp,      \* isUp[d]: _up
  wanted,    \* wanted[d]: number of the set that d subscribes to at present
  view,      \* view[d][e]: what d heard of e last
  raced,     \* raced[d]: the devices of which what d is told may not be the latest (see Tell)
  signals, faults

hub    == <<online, watchers, watchedBy>>
server == <<hub, phase, job, raced>>
client == <<cur, isUp, wanted, view>>
vars   == <<server, send, done, closed, inbox, client, signals, faults>>

Fault == faults < MaxFaults /\ faults' = faults + 1

-----------------------------------------------------------------------------
(* Frames. *)

Frame(type, on, off) == [type |-> type, on |-> on, off |-> off]

News(on, off) == Frame("news", on, off)  \* PresenceFrame, PeerEventFrame
HelloOk       == Frame("hello_ok", {}, {})
SignalFrame   == Frame("signal", {}, {})
ErrorFrame    == Frame("error", {}, {})

Subscription(ids) == [type |-> "subscribe", ids |-> ids]
Signal(e)         == [type |-> "signal", ids |-> {e}]

\* Mutant: one frame more than there is room for
RoomForMore(c) == Len(send[c]) <= SendBuffer

Room(c) == Len(send[c]) < SendBuffer

\* sendJSON, TRUE and FALSE: of a kicked connection select takes either branch
Sent(c, f) == Room(c) /\ send' = [send EXCEPT ![c] = Append(@, f)] /\ UNCHANGED done
NotSent(c) ==
  \/ done[c] /\ UNCHANGED <<send, done>>
  \/ ~Room(c) /\ done' = [done EXCEPT ![c] = TRUE] /\ UNCHANGED send

-----------------------------------------------------------------------------
(* The reader. *)

\* watchersOfLocked
WatchersOf(d) == {online[w] : w \in watchedBy[d]} \ {Nobody}

\* some reader has news of e for c
Pending(c, e) == \E x \in Conn : \E j \in job[x] : j[1] = c /\ e \in j[2].on \cup j[2].off

\* the reader of c has frames to send from now on
Tell(c, frames) ==
  /\ job' = [job EXCEPT ![c] = frames]
  /\ raced' = [d \in Device |->
       LET about == UNION {j[2].on \cup j[2].off : j \in {j \in frames : j[1] = cur[d]}}
       IN (raced[d] \ about) \cup {e \in about : Pending(cur[d], e)}]

\* likewise; what another connection of the device was told is not of this subscription
TellSubscriber(c, frame) ==
  /\ job' = [job EXCEPT ![c] = {<<c, frame>>}]
  /\ raced' = [raced EXCEPT ![c[1]] =
       IF cur[c[1]] = c THEN {e \in Device : Pending(c, e)} ELSE Device]

\* Mutant: a device that is no longer watched keeps its watcher in the index
SetWatchOnly(w, set) ==
  /\ watchers' = [watchers EXCEPT ![w] = set]
  /\ watchedBy' = [e \in Device |-> watchedBy[e] \cup (IF e \in set THEN {w} ELSE {})]

\* setWatchLocked
SetWatch(w, set) ==
  /\ watchers' = [watchers EXCEPT ![w] = set]
  /\ watchedBy' = [e \in Device |->
       (watchedBy[e] \ (IF e \in watchers[w] THEN {w} ELSE {}))
         \cup (IF e \in set THEN {w} ELSE {})]

\* handleHello, register: a connection of the same device is kicked
Register(c) ==
  LET d == c[1]
  IN /\ phase[c] = "hello"
     /\ phase' = [phase EXCEPT ![c] = "greet"]
     /\ online' = [online EXCEPT ![d] = c]
     /\ done' = [x \in Conn |-> done[x] \/ x = online[d]]
     /\ Tell(c, {<<t, News({d}, {})>> : t \in WatchersOf(d)})
     /\ UNCHANGED <<watchers, watchedBy, send, closed, inbox, client, signals, faults>>

\* one of the frames outside the lock, in the order of a Go map; a signal that cannot be
\* handed over is answered with an error
Emit(c) ==
  /\ \E j \in job[c] :
       \/ Sent(j[1], j[2]) /\ job' = [job EXCEPT ![c] = @ \ {j}]
       \/ /\ NotSent(j[1])
          /\ job' = [job EXCEPT ![c] =
               (@ \ {j}) \cup (IF j[2] = SignalFrame THEN {<<c, ErrorFrame>>} ELSE {})]
  /\ UNCHANGED <<hub, phase, raced, closed, inbox, client, signals, faults>>

\* the end of handleHello
Greet(c) ==
  /\ phase[c] = "greet" /\ job[c] = {}
  /\ phase' = [phase EXCEPT ![c] = "on"]
  /\ Sent(c, HelloOk) \/ NotSent(c)
  /\ UNCHANGED <<hub, job, raced, closed, inbox, client, signals, faults>>

\* Mutant: the snapshot says who is online only
SnapshotOnline(set) == News({e \in set : online[e] # Nobody}, {})

\* subscribe's answer
Snapshot(set) == News({e \in set : online[e] # Nobody}, {e \in set : online[e] = Nobody})

\* handleFrame, also of a connection that is kicked or closed
Read(c) ==
  LET f == Head(inbox[c])
  IN /\ phase[c] = "on" /\ job[c] = {} /\ inbox[c] # <<>>
     /\ inbox' = [inbox EXCEPT ![c] = Tail(@)]
     /\ \/ /\ f.type = "subscribe"
           /\ SetWatch(c[1], f.ids \ {c[1]})
           /\ TellSubscriber(c, Snapshot(f.ids \ {c[1]}))
           /\ UNCHANGED <<done, faults>>
        \/ /\ f.type = "signal"
           /\ Tell(c, {IF online[e] # Nobody THEN <<online[e], SignalFrame>> ELSE <<c, ErrorFrame>>
                         : e \in f.ids})
           /\ UNCHANGED <<watchers, watchedBy, done, faults>>
        \/ /\ Fault \* over the rate limit
           /\ Tell(c, {<<c, ErrorFrame>>})
           /\ done' = [done EXCEPT ![c] = TRUE]
           /\ UNCHANGED <<watchers, watchedBy>>
     /\ UNCHANGED <<online, phase, send, closed, client, signals>>

\* Mutants: whoever leaves takes the device offline; a kicked connection does not
AnyIsRegistered(c) == online[c[1]] # Nobody
IsRegisteredUnkicked(c) == online[c[1]] = c /\ ~done[c]

\* cur == c
IsRegistered(c) == online[c[1]] = c

\* ReadMessage fails, be it before or after what was sent is read: unregister
End(c) ==
  LET d == c[1]
  IN /\ phase[c] \in {"hello", "on"} /\ job[c] = {} /\ closed[c]
     /\ phase' = [phase EXCEPT ![c] = "ended"]
     /\ inbox' = [inbox EXCEPT ![c] = <<>>]
     /\ IF phase[c] = "on" /\ IsRegistered(c)
        THEN /\ online' = [online EXCEPT ![d] = Nobody]
             /\ SetWatch(d, {})
             /\ Tell(c, {<<t, News({}, {d})>> : t \in WatchersOf(d)})
        ELSE UNCHANGED <<hub, job, raced>>
     /\ UNCHANGED <<send, done, closed, client, signals, faults>>

-----------------------------------------------------------------------------
(* The writer, and the client at the other end. *)

\* writePump: a frame goes out.  The client listens to its present channel only.
Deliver(c) ==
  LET d == c[1]
      f == Head(send[c])
  IN /\ ~closed[c] /\ send[c] # <<>>
     /\ send' = [send EXCEPT ![c] = Tail(@)]
     /\ IF cur[d] = c
        THEN /\ isUp' = [isUp EXCEPT ![d] = @ \/ f.type = "hello_ok"]
             /\ inbox' = [inbox EXCEPT ![c] =
                  IF f.type = "hello_ok" THEN Append(@, Subscription(Wanted[d][wanted[d]])) ELSE @]
             /\ view' = [view EXCEPT ![d] = [e \in Device |->
                  CASE e \in f.on -> "on" [] e \in f.off -> "off" [] OTHER -> @[e]]]
        ELSE UNCHANGED <<isUp, inbox, view>>
     /\ UNCHANGED <<server, done, closed, cur, wanted, signals, faults>>

\* writePump: done
WriterEnds(c) ==
  /\ done[c] /\ ~closed[c]
  /\ closed' = [closed EXCEPT ![c] = TRUE]
  /\ UNCHANGED <<server, send, done, inbox, client, signals, faults>>

\* _onClosed
ClientClosed(d) ==
  /\ cur[d] # Nobody /\ closed[cur[d]]
  /\ cur' = [cur EXCEPT ![d] = Nobody]
  /\ isUp' = [isUp EXCEPT ![d] = FALSE]
  /\ UNCHANGED <<server, send, done, closed, inbox, wanted, view, signals, faults>>

\* _connect, and the answer to the challenge
Connect(d) ==
  /\ cur[d] = Nobody
  /\ \E c \in Conn : /\ c[1] = d /\ phase[c] = "unused"
                     /\ \A x \in Conn : x[1] = d /\ phase[x] = "unused" => c[2] <= x[2]
                     /\ cur' = [cur EXCEPT ![d] = c]
                     /\ phase' = [phase EXCEPT ![c] = "hello"]
  /\ raced' = [raced EXCEPT ![d] = {}]
  /\ UNCHANGED <<hub, job, send, done, closed, inbox, isUp, wanted, view, signals, faults>>

\* onPeersChanged: subscribePeers
ChangePeers(d) ==
  /\ wanted[d] < Len(Wanted[d])
  /\ wanted' = [wanted EXCEPT ![d] = @ + 1]
  /\ inbox' = IF isUp[d] THEN [inbox EXCEPT ![cur[d]] = Append(@, Subscription(Wanted[d][wanted'[d]]))]
                         ELSE inbox
  /\ UNCHANGED <<server, send, done, closed, cur, isUp, view, signals, faults>>

\* sendSignal, to a paired device
SendSignal(d, e) ==
  /\ isUp[d] /\ e \in Wanted[d][wanted[d]] /\ signals < MaxSignals
  /\ signals' = signals + 1
  /\ inbox' = [inbox EXCEPT ![cur[d]] = Append(@, Signal(e))]
  /\ UNCHANGED <<server, send, done, closed, client, faults>>

\* a connection is lost; each end learns of it in its own time
Lose(c) ==
  /\ phase[c] \notin {"unused", "ended"} /\ ~closed[c]
  /\ Fault
  /\ closed' = [closed EXCEPT ![c] = TRUE]
  /\ UNCHANGED <<server, send, done, inbox, client, signals>>

-----------------------------------------------------------------------------
Init ==
  /\ online = [d \in Device |-> Nobody]
  /\ watchers = [d \in Device |-> {}] /\ watchedBy = [d \in Device |-> {}]
  /\ phase = [c \in Conn |-> "unused"] /\ job = [c \in Conn |-> {}]
  /\ send = [c \in Conn |-> <<>>] /\ inbox = [c \in Conn |-> <<>>]
  /\ done = [c \in Conn |-> FALSE] /\ closed = [c \in Conn |-> FALSE]
  /\ cur = [d \in Device |-> Nobody] /\ isUp = [d \in Device |-> FALSE]
  /\ wanted = [d \in Device |-> 1]
  /\ view = [d \in Device |-> [e \in Device |-> "none"]]
  /\ raced = [d \in Device |-> {}]
  /\ signals = 0 /\ faults = 0

Reader(c) == Register(c) \/ Emit(c) \/ Greet(c) \/ Read(c) \/ End(c)
Writer(c) == Deliver(c) \/ WriterEnds(c)

Next == \/ \E c \in Conn : Reader(c) \/ Writer(c) \/ Lose(c)
        \/ \E d \in Device : ClientClosed(d) \/ Connect(d) \/ ChangePeers(d)
        \/ \E d, e \in Device : SendSignal(d, e)

Spec == Init /\ [][Next]_vars

-----------------------------------------------------------------------------
Frames == [type : {"news", "hello_ok", "signal", "error"}, on : SUBSET Device, off : SUBSET Device]

TypeOK ==
  /\ online \in [Device -> Conn \cup {Nobody}]
  /\ watchers \in [Device -> SUBSET Device] /\ watchedBy \in [Device -> SUBSET Device]
  /\ phase \in [Conn -> {"unused", "hello", "greet", "on", "ended"}]
  /\ job \in [Conn -> SUBSET (Conn \X Frames)]
  /\ \A c \in Conn : send[c] \in Seq(Frames) /\ Len(send[c]) <= SendBuffer
  /\ cur \in [Device -> Conn \cup {Nobody}]

\* Who is connected is registered: a connection that was not kicked is the one its device
\* is reached by, also when connections of one device overlap and end in any order.
\* (register's kick, unregister's comparison)
ServedIsRegistered ==
  \A c \in Conn : phase[c] \in {"greet", "on"} /\ ~done[c] => online[c[1]] = c

\* Nobody is registered whose reader has ended: it would be online for good.
RegisteredIsServed ==
  \A d \in Device : online[d] # Nobody => phase[online[d]] \in {"greet", "on"}

\* The reverse index says what the subscriptions say.  (setWatchLocked)
IndexExact == \A d, e \in Device : d \in watchedBy[e] <=> e \in watchers[d]

\* A device that has heard all there is for it knows who is online, with two exceptions:
\* two readers had news of the same device for it at the same time (they send outside the
\* lock, and the older news may come last), or the reader of another of its connections
\* handled a subscription that was still under way.
ViewTrue ==
  \A d, e \in Device :
    LET c == cur[d]
    IN /\ isUp[d] /\ ~closed[c] /\ ~done[c] /\ inbox[c] = <<>> /\ send[c] = <<>>
       /\ e \in watchers[d] \cap Wanted[d][wanted[d]]
       /\ ~Pending(c, e) /\ e \notin raced[d]
       => (view[d][e] = "on" <=> online[e] # Nobody)
=============================================================================
