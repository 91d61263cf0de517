------------------------------ MODULE Transfer ------------------------------
(***************************************************************************)
(* The pull of one file (core/lib/src/transfer/transfer.dart).             *)
(*                                                                         *)
(* The sender announces a file in a message with its SHA-256; whoever      *)
(* receives the message pulls the file, from the length of its .part file  *)
(* on: over gRPC if it knows an address of the source (FetchFile), else,   *)
(* or when that fails, over a live link in envelopes.  Over a link the     *)
(* source runs a loop for every request, which waits when it is a window   *)
(* ahead of the last acknowledgement; a request carries an attempt number  *)
(* that its frames repeat, and a new request is to end the loop of the     *)
(* last.  Members of a group try each member that is online in turn.       *)
(*                                                                         *)
(* The file is Chunks chunks long and offsets count chunks.  A chunk is    *)
(* its place and the version of the file it was read from: the source file *)
(* belongs to the user, who may overwrite or delete it.                    *)
(***************************************************************************)
EXTENDS Integers, FiniteSetsExt, SequencesExt, Functions

CONSTANTS
  Device,     \* the devices, all of them paired and in the conversation of the message
  Sender,     \* the one that announces the file
  Members,    \* the members of the group in their order, <<>> if the message is of no group
  GroupId,    \* the id of that group
  Address,    \* pairs <<d, e>>: d knows lastHost and lastPort of e from the start
  Learnable,  \* those it may come to know
  Answers,    \* those at which e answers there
  Chunks,     \* length of the file
  Window,     \* _ackWindowBytes
  MaxCalls,   \* bound: receiveFile is called so often
  MaxLinks,   \* bound: so many links are opened
  Faults,     \* the kinds of faults that happen
  MaxFaults   \* bound: and how many of them

ASSUME TransferAssumption ==
  /\ Sender \in Device /\ Members \in Seq(Device) /\ GroupId \notin Device
  /\ Address \cup Learnable \subseteq Device \X Device
  /\ Answers \subseteq Address \cup Learnable
  /\ Faults \subseteq {"slow", "break", "restart", "cancel", "change"}
  /\ Chunks \in Nat /\ Window \in Nat \ {0}
  /\ MaxCalls \in Nat /\ MaxLinks \in Nat /\ MaxFaults \in Nat

VARIABLES
  version,   \* the file at the sender's path: 1 as announced, 2 overwritten, 0 deleted
  state,     \* state[d]: fileState of the message at d
  file,      \* file[d]: content of the file d has received
  part,      \* part[d]: content of the .part file
  todo,      \* todo[d]: the sources left to try, the one being tried first
  stage,     \* stage[d]: where the running receive is; "idle": _receiving has none
  attempt,   \* attempt[d]: _attempts, 0 for none
  cancelled, \* cancelled[d]: _cancelled
  loops,     \* loops[d]: running calls of _serveEnvelopeFetch, by a number of the model
  gen,       \* gen[d]: _serveGen, 0 for none
  lastAck,   \* lastAck[d]: _lastAck, None for none
  notifier,  \* notifier[d]: the loop that waits on _ackNotifiers, 0 for none
  address,   \* address[d]: the devices of which d knows lastHost and lastPort
  links,     \* links[d][e] = links[e][d]: the live links, the newest has the highest number
  wire,      \* wire[d][e][n]: envelopes on link n from d to e
  opened, calls, faults

serving == <<loops, gen, lastAck, notifier>>
pulling == <<state, file, part, todo, stage, attempt>>
bounds  == <<opened, calls, faults>>
vars == <<version, pulling, cancelled, serving, address, links, wire, bounds>>

Group == Members # <<>>

None == -1

Chunk(i, v) == <<i, v>>
Content(v)  == [i \in 1 .. Chunks |-> Chunk(i, v)]

\* _findSentFile: the sender has the path it sent, a member of the group what it received
Holds(d) == d = Sender \/ (Group /\ state[d] = "done")

\* what a source reads at an offset: of a file deleted while it is open, the old content
ReadAt(d, off) == IF d = Sender THEN Chunk(off + 1, IF version = 2 THEN 2 ELSE 1)
                                ELSE file[d][off + 1]

\* File.exists on the source's side
Exists(d) == d # Sender \/ version # 0

-----------------------------------------------------------------------------
(* Links. *)

FetchEnv(off, a)         == [type |-> "fetch", offset |-> off, attempt |-> a]
DataEnv(off, data, l, a) ==
  [type |-> "data", offset |-> off, data |-> data, last |-> l, attempt |-> a]
AckEnv(off)              == [type |-> "ack", offset |-> off]

Link == 0 .. MaxLinks
Online(d, e) == links[d][e] # {}

\* SyncEngine.sendEnvelope: onto the newest link; lost when there is none
Put(d, e, env, w) ==
  IF Online(d, e) THEN [w EXCEPT ![d][e][Max(links[d][e])] = Append(@, env)] ELSE w

Fault(kind) == kind \in Faults /\ faults < MaxFaults /\ faults' = faults + 1
Quiet(d, e) == \A n \in Link : wire[d][e][n] = <<>> /\ wire[e][d][n] = <<>>

-----------------------------------------------------------------------------
(* The source's side of an envelope pull: _serveEnvelopeFetch. *)

Full(off, ack) == ack # None /\ off - ack >= Window

\* Mutant: a loop never finds itself replaced
AlwaysCurrent(l, g) == TRUE

\* (_serveGen[fileId] ?? gen) == gen
IsCurrent(l, g) == g \in {0, l.gen}

\* Loop k, with the other loops ls, at the head of its while: it stops, reads the next
\* chunk or waits for an acknowledgement.  g, ack and n are _serveGen, _lastAck and
\* _ackNotifiers as it finds them.
Continue(d, ls, k, g, ack, n) ==
  LET l     == ls[k]
      stops == l.off >= Chunks \/ ~IsCurrent(l, g) \/ cancelled[d]
      full  == Full(l.off, ack)
      clear == stops /\ IsCurrent(l, g)
  IN /\ loops' = [loops EXCEPT ![d] =
           IF stops THEN Restrict(ls, DOMAIN ls \ {k})
                    ELSE [ls EXCEPT ![k].at = IF full THEN "wait" ELSE "read"]]
     /\ gen' = [gen EXCEPT ![d] = IF clear THEN 0 ELSE g]
     /\ lastAck' = [lastAck EXCEPT ![d] = IF clear THEN None ELSE ack]
     /\ notifier' = [notifier EXCEPT ![d] =
           IF clear THEN 0 ELSE IF ~stops /\ full THEN k ELSE n]

\* completing the notifier: the loop that waits on it goes on before the next event
Wake(d, ls, g, ack) ==
  IF notifier[d] \in DOMAIN ls
  THEN Continue(d, ls, notifier[d], g, ack, 0)
  ELSE /\ loops' = [loops EXCEPT ![d] = ls]
       /\ gen' = [gen EXCEPT ![d] = g]
       /\ lastAck' = [lastAck EXCEPT ![d] = ack]
       /\ notifier' = [notifier EXCEPT ![d] = 0]

FreeNumber(ls) == Min((1 .. Cardinality(DOMAIN ls) + 1) \ DOMAIN ls)

\* FileFetchRequested
TakeFetch(d, e, env) ==
  LET next == gen[d] + 1
      l    == [peer |-> e, gen |-> next, attempt |-> env.attempt, from |-> env.offset,
               off |-> env.offset, at |-> "open"]
      k    == FreeNumber(loops[d])
      ls   == [j \in DOMAIN loops[d] \cup {k} |-> IF j = k THEN l ELSE loops[d][j]]
  IN Wake(d, IF Holds(d) THEN ls ELSE loops[d], next, env.offset)

\* Mutant: acknowledgements are counted but nobody is woken
WakeNobody(d, ack) ==
  lastAck' = [lastAck EXCEPT ![d] = ack] /\ UNCHANGED <<loops, gen, notifier>>

WakeForAck(d, ack) == Wake(d, loops[d], gen[d], ack)

\* FileDataAcked: of any receiver of the file
TakeAck(d, env) ==
  WakeForAck(d, IF env.offset > (IF lastAck[d] = None THEN 0 ELSE lastAck[d])
                THEN env.offset ELSE lastAck[d])

\* A pull that starts at the end of the file is answered with an empty last frame
EmptyLast(d, k, w) ==
  LET l == loops[d][k]
  IN IF l.off < Chunks THEN w
     ELSE Put(d, l.peer, DataEnv(l.off, <<>>, TRUE, l.attempt), w)

\* the file is decrypted, if need be, and opened
Open(d, k) ==
  /\ loops[d][k].at = "open"
  /\ IF Exists(d)
     THEN /\ Continue(d, loops[d], k, gen[d], lastAck[d], notifier[d])
          /\ wire' = EmptyLast(d, k, wire)
     ELSE /\ loops' = [loops EXCEPT ![d] = Restrict(@, DOMAIN @ \ {k})]
          /\ UNCHANGED <<gen, lastAck, notifier, wire>>
  /\ UNCHANGED <<version, pulling, cancelled, address, links, bounds>>

\* the chunk is read: it is sent without looking at _serveGen again
SendChunk(d, k) ==
  LET l == loops[d][k]
  IN /\ l.at = "read"
     /\ wire' = Put(d, l.peer, DataEnv(l.off, <<ReadAt(d, l.off)>>, l.off + 1 >= Chunks,
                                       l.attempt), wire)
     /\ Continue(d, [loops[d] EXCEPT ![k].off = @ + 1], k, gen[d], lastAck[d], notifier[d])
     /\ UNCHANGED <<version, pulling, cancelled, address, links, bounds>>

\* 30 s without an acknowledgement
GiveUp(d, k) ==
  LET l == loops[d][k]
  IN /\ l.at = "wait"
     /\ Fault("slow") \/ (Quiet(d, l.peer) /\ UNCHANGED faults)
     /\ loops' = [loops EXCEPT ![d] = Restrict(@, DOMAIN @ \ {k})]
     /\ IF IsCurrent(l, gen[d])
        THEN /\ gen' = [gen EXCEPT ![d] = 0] /\ lastAck' = [lastAck EXCEPT ![d] = None]
             /\ notifier' = [notifier EXCEPT ![d] = 0]
        ELSE /\ notifier' = [notifier EXCEPT ![d] = IF @ = k THEN 0 ELSE @]
             /\ UNCHANGED <<gen, lastAck>>
     /\ UNCHANGED <<version, pulling, cancelled, address, links, wire, opened, calls>>

-----------------------------------------------------------------------------
(* The receiver. *)

\* Mutant: a file that is there is pulled again
MayStartAlways(d) == stage[d] = "idle"

\* receiveFile and _guardReceiving
MayStart(d) == state[d] # "done" /\ stage[d] = "idle"

\* the other members that are online, in their order
OtherSources(d, first) ==
  LET upTo[i \in 0 .. Len(Members)] ==
        IF i = 0 THEN <<>>
        ELSE IF Members[i] \in {d, first} \/ ~Online(d, Members[i]) THEN upTo[i - 1]
        ELSE Append(upTo[i - 1], Members[i])
  IN upTo[Len(Members)]

\* receiveFile: for a message that arrives (over each way once more), or on demand, when the
\* sender of a group's message is taken to be the group (resendMessage)
Receive(d) ==
  /\ d # Sender /\ calls < MaxCalls /\ calls' = calls + 1
  /\ MayStart(d)
  /\ stage' = [stage EXCEPT ![d] = "next"]
  /\ \E first \in IF Group THEN {Sender, GroupId} ELSE {Sender} :
       todo' = [todo EXCEPT ![d] = <<first>> \o OtherSources(d, first)]
  /\ UNCHANGED <<version, state, file, part, attempt, cancelled, serving, address, links, wire,
                 opened, faults>>

\* The way a try of a source ends.  One more is tried if the message is of a group, and
\* then the failure is taken back (_receiveGroupFileMulti); a cancel is used up.
Ends(d, st) ==
  LET more == Group /\ st # "done" /\ Len(todo[d]) > 1
  IN /\ state' = [state EXCEPT ![d] = IF Group /\ st = "failed" THEN "pending" ELSE st]
     /\ todo' = [todo EXCEPT ![d] = IF more THEN Tail(@) ELSE <<>>]
     /\ stage' = [stage EXCEPT ![d] = IF more THEN "next" ELSE "idle"]
     /\ cancelled' = [cancelled EXCEPT ![d] = FALSE]

\* _doReceiveViaEnvelope, up to its request: the numbers of attempts grow
AskOver(d, e) ==
  LET number == attempt[d] + 1
  IN /\ state' = [state EXCEPT ![d] = "transferring"]
     /\ stage' = [stage EXCEPT ![d] = "envelope"]
     /\ attempt' = [attempt EXCEPT ![d] = number]
     /\ wire' = Put(d, e, FetchEnv(Len(part[d]), number), wire)
     /\ UNCHANGED <<file, part, todo, cancelled>>

\* _doReceive of a device without an address
Ask(d) ==
  LET e == Head(todo[d])
  IN /\ stage[d] = "next"
     /\ e \in Device \ address[d]
     /\ AskOver(d, e)
     /\ UNCHANGED <<version, serving, address, links, bounds>>

\* _doReceive of a device with an address, up to its call
Dial(d) ==
  /\ stage[d] = "next"
  /\ Head(todo[d]) \in address[d]
  /\ state' = [state EXCEPT ![d] = "transferring"]
  /\ stage' = [stage EXCEPT ![d] = "direct"]
  /\ attempt' = [attempt EXCEPT ![d] = @ + 1]
  /\ UNCHANGED <<version, file, part, todo, cancelled, serving, address, links, wire, bounds>>

\* _doReceive of what is not a peer: it returns, and what the message says stays
Skip(d) ==
  /\ stage[d] = "next"
  /\ Head(todo[d]) \notin Device
  /\ LET more == Len(todo[d]) > 1
     IN /\ todo' = [todo EXCEPT ![d] = Tail(@)]
        /\ stage' = [stage EXCEPT ![d] = IF more THEN "next" ELSE "idle"]
  /\ UNCHANGED <<version, state, file, part, attempt, cancelled, serving, address, links, wire, bounds>>

\* fetchFile and the chunks of its stream
TakeDirect(d) ==
  LET e == Head(todo[d])
  IN /\ stage[d] = "direct" /\ <<d, e>> \in Answers
     /\ Holds(e) /\ Exists(e) /\ Len(part[d]) < Chunks
     /\ IF cancelled[d]
        THEN Ends(d, "pending") /\ UNCHANGED part
        ELSE /\ part' = [part EXCEPT ![d] = Append(@, ReadAt(e, Len(@)))]
             /\ UNCHANGED <<state, todo, stage, cancelled>>
     /\ UNCHANGED <<version, file, attempt, serving, address, links, wire, bounds>>

\* the stream ends
DirectEnds(d) ==
  LET e == Head(todo[d])
  IN /\ stage[d] = "direct" /\ <<d, e>> \in Answers
     /\ Holds(e) /\ Exists(e) /\ Len(part[d]) >= Chunks
     /\ stage' = [stage EXCEPT ![d] = "check"]
     /\ attempt' = [attempt EXCEPT ![d] = 0]
     /\ UNCHANGED <<version, state, file, part, todo, cancelled, serving, address, links, wire, bounds>>

\* NOT_FOUND, FAILED_PRECONDITION
DirectRefused(d) ==
  LET e == Head(todo[d])
  IN /\ stage[d] = "direct" /\ <<d, e>> \in Answers
     /\ ~(Holds(e) /\ Exists(e))
     /\ Ends(d, "failed")
     /\ UNCHANGED <<version, file, part, attempt, serving, address, links, wire, bounds>>

\* Nobody answers there, or the stream stalls or breaks: _fallbackToEnvelope
FallBack(d) ==
  LET e == Head(todo[d])
  IN /\ stage[d] = "direct"
     /\ Fault("slow") \/ (<<d, e>> \notin Answers /\ UNCHANGED faults)
     /\ IF Online(d, e) THEN AskOver(d, e)
                        ELSE Ends(d, "failed") /\ UNCHANGED <<file, part, attempt, wire>>
     /\ UNCHANGED <<version, serving, address, links, opened, calls>>

\* Mutant: the place of a frame is not checked
AnyPlace(d, env) == TRUE

\* frame.offset == received
Fits(d, env) == env.offset = Len(part[d])

\* A frame, of whatever device: the loop that waits for frames takes it if its attempt and
\* its place are right, and acknowledges it to the source it is trying.  w: the wire
\* without the frame.
TakeData(d, env, w) ==
  \/ /\ stage[d] # "envelope" \/ (~cancelled[d] /\ env.attempt # attempt[d])
     /\ wire' = w
     /\ UNCHANGED <<pulling, cancelled>>
  \/ /\ stage[d] = "envelope" /\ cancelled[d]
     /\ Ends(d, "pending")
     /\ wire' = w
     /\ UNCHANGED <<file, part, attempt>>
  \/ /\ stage[d] = "envelope" /\ ~cancelled[d] /\ env.attempt = attempt[d]
     /\ ~Fits(d, env)
     /\ Ends(d, "failed")
     /\ wire' = w
     /\ UNCHANGED <<file, part, attempt>>
  \/ /\ stage[d] = "envelope" /\ ~cancelled[d] /\ env.attempt = attempt[d]
     /\ Fits(d, env)
     /\ part' = [part EXCEPT ![d] = @ \o env.data]
     /\ wire' = Put(d, Head(todo[d]), AckEnv(Len(part[d]) + Len(env.data)), w)
     /\ stage' = [stage EXCEPT ![d] = IF env.last THEN "check" ELSE @]
     /\ attempt' = [attempt EXCEPT ![d] = IF env.last THEN 0 ELSE @]
     /\ UNCHANGED <<state, file, todo, cancelled>>

\* SyncEngine._handleEnvelope of the envelopes of a transfer
Deliver(d, e) ==
  \E n \in Link :
    LET env == Head(wire[e][d][n])
        w   == [wire EXCEPT ![e][d][n] = Tail(@)]
    IN /\ wire[e][d][n] # <<>>
       /\ CASE env.type = "fetch" ->
                 /\ TakeFetch(d, e, env)
                 /\ wire' = w /\ UNCHANGED <<pulling, cancelled>>
            [] env.type = "ack" ->
                 /\ TakeAck(d, env)
                 /\ wire' = w /\ UNCHANGED <<pulling, cancelled>>
            [] env.type = "data" -> TakeData(d, env, w) /\ UNCHANGED serving
       /\ UNCHANGED <<version, address, links, bounds>>

\* Mutant: a stalled pull is given up only if it is cancelled
StalledIfCancelled(d) == cancelled[d]

Stalled(d) == TRUE

\* 30 s without a frame, the source being silent or its loop having ended
Stall(d) ==
  LET e == Head(todo[d])
  IN /\ stage[d] = "envelope" /\ Stalled(d)
     /\ \/ /\ Quiet(d, e)
           /\ \A k \in DOMAIN loops[e] : loops[e][k].peer # d
           /\ UNCHANGED faults
        \/ Fault("slow")
     /\ Ends(d, "failed")
     /\ UNCHANGED <<version, file, part, attempt, serving, address, links, wire, opened, calls>>

\* Mutant: the hash is not compared
AnyContent(c) == TRUE

\* _sha256OfFile gives what the message said
Announced(c) == c = Content(1)

\* the end of a pull: the hash, then _finishReceive
Check(d) ==
  /\ stage[d] = "check"
  /\ part' = [part EXCEPT ![d] = <<>>]
  /\ IF Announced(part[d])
     THEN file' = [file EXCEPT ![d] = part[d]] /\ Ends(d, "done")
     ELSE Ends(d, "failed") /\ UNCHANGED file
  /\ UNCHANGED <<version, attempt, serving, address, links, wire, bounds>>

\* cancelReceive, also when nothing is being received
Cancel(d) ==
  /\ Fault("cancel")
  /\ d # Sender /\ ~cancelled[d] /\ state[d] # "done"
  /\ cancelled' = [cancelled EXCEPT ![d] = TRUE]
  /\ UNCHANGED <<version, pulling, serving, address, links, wire, opened, calls>>

-----------------------------------------------------------------------------
(* What the devices are exposed to. *)

\* the user changes or deletes the file
ChangeFile ==
  /\ Fault("change")
  /\ version = 1 /\ version' \in {0, 2}
  /\ UNCHANGED <<pulling, cancelled, serving, address, links, wire, opened, calls>>

\* both ends dial: a link may be opened next to one that lives
Connect(d, e) ==
  /\ d # e
  /\ opened < MaxLinks /\ opened' = opened + 1
  /\ links' = [links EXCEPT ![d][e] = @ \cup {opened'}, ![e][d] = @ \cup {opened'}]
  /\ UNCHANGED <<version, pulling, cancelled, serving, address, wire, calls, faults>>

\* Store.updatePeerAddress, of a device that was discovered; it may be gone from there
NoteAddress(d, e) ==
  /\ <<d, e>> \in Learnable /\ e \notin address[d]
  /\ address' = [address EXCEPT ![d] = @ \cup {e}]
  /\ UNCHANGED <<version, pulling, cancelled, serving, links, wire, bounds>>

\* a link breaks, with what is on it
Break(d, e) ==
  /\ Fault("break")
  /\ \E n \in links[d][e] :
       /\ links' = [links EXCEPT ![d][e] = @ \ {n}, ![e][d] = @ \ {n}]
       /\ wire' = [wire EXCEPT ![d][e][n] = <<>>, ![e][d][n] = <<>>]
  /\ UNCHANGED <<version, pulling, cancelled, serving, address, opened, calls>>

\* A device stops and starts again: its database stays, of the .part file at least what
\* was written to disk.
Restart(d) ==
  /\ Fault("restart")
  /\ \E n \in 0 .. Len(part[d]) : part' = [part EXCEPT ![d] = SubSeq(@, 1, n)]
  /\ todo' = [todo EXCEPT ![d] = <<>>] /\ stage' = [stage EXCEPT ![d] = "idle"]
  /\ attempt' = [attempt EXCEPT ![d] = 0] /\ cancelled' = [cancelled EXCEPT ![d] = FALSE]
  /\ loops' = [loops EXCEPT ![d] = <<>>] /\ gen' = [gen EXCEPT ![d] = 0]
  /\ lastAck' = [lastAck EXCEPT ![d] = None] /\ notifier' = [notifier EXCEPT ![d] = 0]
  /\ links' = [x \in Device |-> [y \in Device |-> IF d \in {x, y} THEN {} ELSE links[x][y]]]
  /\ wire' = [x \in Device |-> [y \in Device |-> [n \in Link |->
                 IF d \in {x, y} THEN <<>> ELSE wire[x][y][n]]]]
  /\ UNCHANGED <<version, state, file, address, opened, calls>>

-----------------------------------------------------------------------------
Init ==
  /\ version = 1
  /\ state = [d \in Device |-> IF d = Sender THEN "done" ELSE "pending"]
  /\ file = [d \in Device |-> <<>>] /\ part = [d \in Device |-> <<>>]
  /\ todo = [d \in Device |-> <<>>] /\ stage = [d \in Device |-> "idle"]
  /\ attempt = [d \in Device |-> 0] /\ cancelled = [d \in Device |-> FALSE]
  /\ loops = [d \in Device |-> <<>>] /\ gen = [d \in Device |-> 0]
  /\ lastAck = [d \in Device |-> None] /\ notifier = [d \in Device |-> 0]
  /\ links = [d \in Device |-> [e \in Device |->
                 IF d # e THEN {0} ELSE {}]]
  /\ wire = [d \in Device |-> [e \in Device |-> [n \in Link |-> <<>>]]]
  /\ address = [d \in Device |-> {e \in Device : <<d, e>> \in Address}]
  /\ opened = 0 /\ calls = 0 /\ faults = 0

SourceStep(d)  == \E k \in DOMAIN loops[d] : Open(d, k) \/ SendChunk(d, k) \/ GiveUp(d, k)
Pull(d)        == Ask(d) \/ Dial(d) \/ Skip(d) \/ TakeDirect(d) \/ DirectEnds(d)
                  \/ DirectRefused(d) \/ FallBack(d) \/ Stall(d) \/ Check(d)

Next == \/ \E d \in Device : SourceStep(d) \/ Receive(d) \/ Pull(d) \/ Cancel(d) \/ Restart(d)
        \/ \E d, e \in Device : Deliver(d, e) \/ Connect(d, e) \/ Break(d, e) \/ NoteAddress(d, e)
        \/ ChangeFile

Spec == Init /\ [][Next]_vars

\* Timers fire, and the event loop of a device comes to what has arrived or been read.
Fairness == \A d \in Device : /\ WF_vars(SourceStep(d)) /\ WF_vars(Pull(d))
                              /\ \A e \in Device \ {d} : WF_vars(Deliver(d, e))

FairSpec == Spec /\ Fairness

-----------------------------------------------------------------------------
States == {"pending", "transferring", "failed", "done"}
Stages == {"idle", "next", "direct", "envelope", "check"}

TypeOK ==
  /\ version \in 0 .. 2
  /\ state \in [Device -> States] /\ stage \in [Device -> Stages]
  /\ \A d \in Device : /\ part[d] \in Seq((1 .. Chunks) \X {1, 2})
                       /\ file[d] \in {<<>>, Content(1)}
                       /\ todo[d] \in Seq(Device \cup {GroupId}) /\ (todo[d] = <<>> <=> stage[d] = "idle")
                       /\ notifier[d] \in {0} \cup DOMAIN loops[d]
  /\ attempt \in [Device -> Nat] /\ cancelled \in [Device -> BOOLEAN]
  /\ gen \in [Device -> Nat] /\ lastAck \in [Device -> {None} \cup 0 .. Chunks]
  /\ links \in [Device -> [Device -> SUBSET (0 .. MaxLinks)]]

\* A .part file is a beginning of the file, whatever was sent twice, late, over another
\* link or by another member: resuming at its length leaves no gap.  (frame.offset and
\* attempt in _doReceiveViaEnvelope, offset in fetchFile)
PartIsBeginning ==
  \A d \in Device : \A i \in DOMAIN part[d] : part[d][i][1] = i

\* What is shown as received is the file that was announced, also if the source changed
\* between two tries and the .part file mixes the two.  (_sha256OfFile)
DoneIsAnnounced ==
  \A d \in Device \ {Sender} : state[d] = "done" => file[d] = Content(1)

\* A file that is there is not pulled again, and stays.  (receiveFile's check of the state)
DoneIsFinal ==
  [][\A d \in Device : state[d] = "done" => state'[d] = "done" /\ file'[d] = file[d]]_vars

\* no more than a window is under way to d of what it has asked for last
WindowKept(s, d) ==
  LET Counts(n, i) == /\ i \in DOMAIN wire[s][d][n]
                      /\ wire[s][d][n][i].type = "data"
                      /\ wire[s][d][n][i].attempt = attempt[d]
  IN Cardinality({p \in Link \X (1 .. Chunks + 1) : Counts(p[1], p[2])}) <= Window

\* only one loop goes on for d
OneLoop(s, d) ==
  Cardinality({k \in DOMAIN loops[s] : /\ loops[s][k].peer = d /\ loops[s][k].at # "open"
                                       /\ IsCurrent(loops[s][k], gen[s])}) <= 1

\* the other receivers have an address that answers of everybody: they pull over a link
\* only after a fault
Alone(d) ==
  \A e \in Device \ {d, Sender} : {e} \X (Device \ {e}) \subseteq Address \cap Answers

\* The only receiver over links is sent one stream, within its window, also if a link is
\* opened or, after one fault, it asks again: a request ends the loop of the one before.
\* No more can be said.  _serveGen is removed while an old loop may still read, which then
\* takes itself for the current one, beside that of the next request; and a second receiver
\* shares _serveGen and _lastAck with the first.  (_serveEnvelopeFetch)
OneStream == \A s, d \in Device : Alone(d) =>
  /\ faults = 0 /\ opened <= 1 => WindowKept(s, d)
  /\ faults + opened <= 1 => OneLoop(s, d)

\* receiveFile comes to an end whatever breaks, so that the next call is not held back.
\* (_guardReceiving and the two timeouts)
ReceiveEnds == \A d \in Device \ {Sender} : stage[d] # "idle" ~> stage[d] = "idle"

\* As long as nothing goes wrong, and the link stays the same, it ends with the file.
Delivered ==
  \A d \in Device \ {Sender} : stage[d] # "idle" ~> state[d] = "done" \/ faults > 0 \/ opened > 0

\* Each member that pulls a file of a group gets it.
EveryMemberGetsIt == \A d \in Device \ {Sender} : stage[d] # "idle" ~> state[d] = "done"
=============================================================================
