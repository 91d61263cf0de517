--------------------------- MODULE TransferSafety ---------------------------
(***************************************************************************)
(* What a device receives is what was announced, for any number of devices *)
(* and links, any file and window, and any faults.                         *)
(*                                                                         *)
(* A .part file is kept a beginning of the file by two facts: a frame that *)
(* is under way carries the chunks of the place it names (Wires), and a    *)
(* loop that reads holds the file and is not past its end (Serves).  The   *)
(* numbers of attempts and of requests, which keep old and new frames      *)
(* apart, are not needed for it.  The rest of the types need two facts     *)
(* more: a loop that is to be woken waits, so that no step ends it while   *)
(* its number stays behind (Notified), and a pull that runs has a source   *)
(* to try (Sources); the sources of a group are devices by an induction    *)
(* over its members.                                                       *)
(***************************************************************************)
EXTENDS Transfer, SequenceTheorems, WellFoundedInduction, TLAPS

Piece  == (1 .. Chunks) \X {1, 2}
Prefix == {s \in Seq(Piece) : \A i \in DOMAIN s : s[i][1] = i}

Fetches == [type : {"fetch"}, offset : 0 .. Chunks, attempt : Nat]
Acks    == [type : {"ack"}, offset : 0 .. Chunks]
Frames  == {env \in [type : {"data"}, offset : Nat, data : Seq(Piece), last : BOOLEAN,
                     attempt : Nat] :
              \A i \in DOMAIN env.data : env.data[i][1] = env.offset + i}

Envelope == Fetches \cup Acks \cup Frames
Wires    == [Device -> [Device -> [Link -> Seq(Envelope)]]]

Loop  == [peer : Device, gen : Nat, attempt : Nat, from : Nat, off : Nat,
          at : {"open", "read", "wait"}]
Loops == {l \in Loop : l.at = "read" => l.off < Chunks}

Types ==
  /\ state \in [Device -> States] /\ stage \in [Device -> Stages]
  /\ file \in [Device -> {<<>>, Content(1)}] /\ part \in [Device -> Prefix]
  /\ attempt \in [Device -> Nat] /\ gen \in [Device -> Nat]
  /\ wire \in Wires

\* A device that has the file is not receiving it.
DoneIsIdle ==
  \A d \in Device : state[d] = "done" => /\ stage[d] = "idle"
                                         /\ d # Sender => file[d] = Content(1)

\* The loops of a device serve a file it holds.
Serves ==
  /\ DOMAIN loops = Device
  /\ \A d \in Device : \A k \in DOMAIN loops[d] : Holds(d) /\ loops[d][k] \in Loops

Inv == Types /\ DoneIsIdle /\ Serves

-----------------------------------------------------------------------------
(* Building blocks. *)

\* A source that holds the file reads the chunk of the place it is at.
LEMMA ReadsThePlace ==
  ASSUME Inv, NEW d \in Device, Holds(d), NEW off \in Nat, off < Chunks
  PROVE  ReadAt(d, off) \in Piece /\ ReadAt(d, off)[1] = off + 1
<1>0. off + 1 \in 1 .. Chunks
  BY TransferAssumption
<1>1. CASE d = Sender
  BY <1>0, <1>1 DEF ReadAt, Chunk, Piece
<1>2. CASE d # Sender
  <2>1. file[d] = Content(1)
    BY <1>2 DEF Inv, DoneIsIdle, Holds
  <2>2. file[d][off + 1] = Chunk(off + 1, 1)
    BY <2>1, TransferAssumption DEF Content
  <2> QED BY <1>0, <1>2, <2>2 DEF ReadAt, Chunk, Piece
<1> QED BY <1>1, <1>2

LEMMA Replaced ==
  ASSUME NEW S, NEW T, NEW f \in [S -> T], NEW x, NEW v, x \in S => v \in T
  PROVE  [f EXCEPT ![x] = v] \in [S -> T]
OBVIOUS

\* Sending keeps the types of what is under way.
LEMMA PutKeepsWires ==
  ASSUME NEW w \in Wires, NEW d, NEW e, NEW env \in Envelope
  PROVE  Put(d, e, env, w) \in Wires
<1> DEFINE n == Max(links[d][e])
<1>1. CASE Online(d, e)
  <2> DEFINE over == [w[d][e] EXCEPT ![n] = Append(@, env)]
             from == [w[d] EXCEPT ![e] = over]
  <2>1. [w EXCEPT ![d][e][n] = Append(@, env)] = [w EXCEPT ![d] = from]
    OBVIOUS
  <2>2. ASSUME d \in Device, e \in Device, n \in Link
        PROVE  Append(w[d][e][n], env) \in Seq(Envelope)
    BY <2>2, AppendProperties DEF Wires
  <2>3. d \in Device /\ e \in Device => over \in [Link -> Seq(Envelope)]
    BY <2>2, Replaced DEF Wires
  <2> HIDE DEF over
  <2>4. d \in Device => from \in [Device -> [Link -> Seq(Envelope)]]
    BY <2>3, Replaced DEF Wires
  <2> HIDE DEF from
  <2>5. [w EXCEPT ![d] = from] \in Wires
    BY <2>4, Replaced DEF Wires
  <2> QED BY <1>1, <2>1, <2>5 DEF Put
<1>2. CASE ~Online(d, e)
  BY <1>2 DEF Put
<1> QED BY <1>1, <1>2

\* A frame with one chunk of its place, or none, is a frame.
LEMMA Made ==
  /\ \A o \in 0 .. Chunks, a \in Nat : FetchEnv(o, a) \in Envelope
  /\ \A o \in 0 .. Chunks : AckEnv(o) \in Envelope
  /\ \A o, a \in Nat : \A l \in BOOLEAN : DataEnv(o, <<>>, l, a) \in Envelope
  /\ \A o, a \in Nat : \A l \in BOOLEAN : \A c \in Piece :
       c[1] = o + 1 => DataEnv(o, <<c>>, l, a) \in Envelope
<1>1. \A o \in 0 .. Chunks, a \in Nat : FetchEnv(o, a) \in Envelope
  BY DEF FetchEnv, Envelope, Fetches
<1>2. \A o \in 0 .. Chunks : AckEnv(o) \in Envelope
  BY DEF AckEnv, Envelope, Acks
<1>3. \A o, a \in Nat : \A l \in BOOLEAN : DataEnv(o, <<>>, l, a) \in Envelope
  BY EmptySeq DEF DataEnv, Envelope, Frames
<1>4. ASSUME NEW o \in Nat, NEW a \in Nat, NEW l \in BOOLEAN, NEW c \in Piece, c[1] = o + 1
      PROVE  DataEnv(o, <<c>>, l, a) \in Envelope
  <2>1. <<c>> \in Seq(Piece) /\ DOMAIN <<c>> = {1} /\ <<c>>[1] = c
    OBVIOUS
  <2> QED BY <1>4, <2>1 DEF DataEnv, Envelope, Frames
<1> QED BY <1>1, <1>2, <1>3, <1>4

\* The loops d may have, with a number for _serveGen.
Kept(d, ls) == \A k \in DOMAIN ls : Holds(d) /\ ls[k] \in Loops

\* The loops after a step of d in which only its own change.
Advanced(d) ==
  /\ DOMAIN loops' = Device
  /\ \A e \in Device \ {d} : loops'[e] = loops[e]
  /\ Kept(d, loops'[d])
  /\ gen' \in [Device -> Nat]

LEMMA ContinueKeeps ==
  ASSUME Inv, NEW d \in Device, NEW ls, NEW k \in DOMAIN ls,
         Holds(d), \A j \in DOMAIN ls \ {k} : ls[j] \in Loops, ls[k] \in Loop,
         NEW g \in Nat, NEW ack, NEW n, Continue(d, ls, k, g, ack, n)
  PROVE  Advanced(d)
<1> DEFINE stops == ls[k].off >= Chunks \/ ~IsCurrent(ls[k], g) \/ cancelled[d]
           full  == Full(ls[k].off, ack)
           next  == IF stops THEN Restrict(ls, DOMAIN ls \ {k})
                             ELSE [ls EXCEPT ![k].at = IF full THEN "wait" ELSE "read"]
<1>1. loops' = [loops EXCEPT ![d] = next]
  BY DEF Continue
<1>2. gen' \in [Device -> Nat]
  BY DEF Continue, Inv, Types
<1>3. Kept(d, next)
  <2>1. CASE stops
    BY <2>1 DEF Restrict, Kept
  <2>2. CASE ~stops
    <3>1. ls[k].off < Chunks
      BY <2>2, TransferAssumption DEF Loop
    <3>2. [ls[k] EXCEPT !.at = IF full THEN "wait" ELSE "read"] \in Loops
      BY <3>1 DEF Loop, Loops
    <3> QED BY <2>2, <3>2 DEF Kept
  <2> QED BY <2>1, <2>2
<1> HIDE DEF next
<1> QED BY <1>1, <1>2, <1>3 DEF Advanced, Inv, Serves

LEMMA WakeKeeps ==
  ASSUME Inv, NEW d \in Device, NEW ls, Kept(d, ls), NEW g \in Nat, NEW ack,
         Wake(d, ls, g, ack)
  PROVE  Advanced(d)
<1>1. CASE notifier[d] \in DOMAIN ls
  BY <1>1, ContinueKeeps DEF Wake, Kept, Loops
<1>2. CASE notifier[d] \notin DOMAIN ls
  BY <1>2 DEF Wake, Advanced, Inv, Types, Serves
<1> QED BY <1>1, <1>2

\* A step of a source: the receivers' state stays.
LEMMA SourceKeeps ==
  ASSUME Inv, NEW d \in Device, Advanced(d), wire' \in Wires, UNCHANGED pulling
  PROVE  Inv'
<1>1. Types' /\ DoneIsIdle'
  BY DEF Inv, Types, DoneIsIdle, Advanced, pulling
<1>2. Serves'
  BY DEF Inv, Serves, Advanced, Kept, Holds, pulling
<1> QED BY <1>1, <1>2 DEF Inv

\* A step of a receiver: what serves stays, for who has the file keeps it.
LEMMA PullKeeps ==
  ASSUME Inv, Types', DoneIsIdle', UNCHANGED serving,
         \A e \in Device : state[e] = "done" => state'[e] = "done"
  PROVE  Inv'
BY DEF Inv, Serves, Holds, serving

\* The end of a try: it counts as received only with the announced content.
LEMMA EndsKeeps ==
  ASSUME Inv, NEW d \in Device, stage[d] # "idle", NEW st \in States, Ends(d, st),
         file' \in [Device -> {<<>>, Content(1)}],
         \A e \in Device \ {d} : file'[e] = file[e],
         st = "done" => file'[d] = Content(1)
  PROVE  /\ state' \in [Device -> States] /\ stage' \in [Device -> Stages]
         /\ DoneIsIdle'
         /\ \A e \in Device : state[e] = "done" => state'[e] = "done"
<1>1. state[d] # "done"
  BY DEF Inv, DoneIsIdle
<1>2. state' \in [Device -> States] /\ stage' \in [Device -> Stages]
  BY DEF Ends, Inv, Types, States, Stages
<1>3. DoneIsIdle'
  <2> SUFFICES ASSUME NEW e \in Device, state'[e] = "done"
               PROVE  stage'[e] = "idle" /\ (e # Sender => file'[e] = Content(1))
    BY DEF DoneIsIdle
  <2>1. CASE e = d
    BY <2>1 DEF Ends, Inv, Types, States
  <2>2. CASE e # d
    BY <2>2 DEF Ends, Inv, Types, DoneIsIdle
  <2> QED BY <2>1, <2>2
<1>4. \A e \in Device : state[e] = "done" => state'[e] = "done"
  BY <1>1 DEF Ends, Inv, Types
<1> QED BY <1>2, <1>3, <1>4

\* A beginning of the file is not longer than the file.
LEMMA PrefixLength == \A s \in Prefix : Len(s) \in 0 .. Chunks
<1> SUFFICES ASSUME NEW s \in Prefix PROVE Len(s) \in 0 .. Chunks
  OBVIOUS
<1>1. Len(s) \in Nat /\ Chunks \in Nat /\ s \in Seq(Piece)
  BY TransferAssumption DEF Prefix
<1>2. ASSUME Len(s) > 0 PROVE Len(s) <= Chunks
  <2>1. Len(s) \in DOMAIN s
    BY <1>1, <1>2
  <2>2. s[Len(s)] \in Piece /\ s[Len(s)][1] = Len(s)
    BY <1>1, <2>1 DEF Prefix
  <2> QED BY <2>2 DEF Piece
<1> QED BY <1>1, <1>2

\* Appending what fits keeps the .part file a beginning.
LEMMA PrefixGrows ==
  ASSUME NEW s \in Prefix, NEW t \in Seq(Piece),
         \A i \in DOMAIN t : t[i][1] = Len(s) + i
  PROVE  s \o t \in Prefix
<1>1. s \in Seq(Piece)
  BY DEF Prefix
<1>2. s \o t \in Seq(Piece) /\ Len(s \o t) = Len(s) + Len(t)
  BY <1>1, ConcatProperties
<1>3. ASSUME NEW i \in DOMAIN (s \o t) PROVE (s \o t)[i][1] = i
  <2>1. i \in 1 .. Len(s) + Len(t) /\ Len(s) \in Nat /\ Len(t) \in Nat
    BY <1>1, <1>2, <1>3, LenProperties
  <2>2. CASE i <= Len(s)
    <3>1. (s \o t)[i] = s[i] /\ i \in DOMAIN s
      BY <1>1, <2>1, <2>2, ConcatProperties, LenProperties
    <3> QED BY <3>1 DEF Prefix
  <2>3. CASE i > Len(s)
    <3>1. (s \o t)[i] = t[i - Len(s)] /\ i - Len(s) \in DOMAIN t
      BY <1>1, <2>1, <2>3, ConcatProperties, LenProperties
    <3> QED BY <2>1, <3>1
  <2> QED BY <2>1, <2>2, <2>3
<1> QED BY <1>2, <1>3 DEF Prefix

\* What was written is still a beginning if less of it reached the disk.
LEMMA PrefixShrinks ==
  ASSUME NEW s \in Prefix, NEW n \in 0 .. Len(s)
  PROVE  SubSeq(s, 1, n) \in Prefix
<1>1. s \in Seq(Piece) /\ Len(s) \in Nat /\ DOMAIN s = 1 .. Len(s)
  BY LenProperties DEF Prefix
<1>2. \A i \in 1 .. n : s[i] \in Piece /\ s[i][1] = i
  BY <1>1, ElementOfSeq DEF Prefix
<1>3. /\ SubSeq(s, 1, n) \in Seq(Piece)
      /\ Len(SubSeq(s, 1, n)) = n
      /\ \A i \in 1 .. n : SubSeq(s, 1, n)[i] = s[i]
  <2>1. /\ SubSeq(s, 1, n) \in Seq(Piece)
        /\ Len(SubSeq(s, 1, n)) = IF 1 <= n THEN n - 1 + 1 ELSE 0
        /\ \A i \in 1 .. n - 1 + 1 : SubSeq(s, 1, n)[i] = s[1 + i - 1]
    BY <1>1, <1>2, SubSeqProperties
  <2> QED BY <1>1, <2>1
<1>4. DOMAIN SubSeq(s, 1, n) = 1 .. n
  BY <1>3, LenProperties
<1> QED BY <1>2, <1>3, <1>4 DEF Prefix

-----------------------------------------------------------------------------
(* The actions of a source. *)

LEMMA OpenKeeps ==
  ASSUME Inv, NEW d \in Device, NEW k \in DOMAIN loops[d], Open(d, k) PROVE Inv'
<1>1. /\ gen[d] \in Nat /\ Holds(d) /\ loops[d][k] \in Loop
      /\ \A j \in DOMAIN loops[d] : loops[d][j] \in Loops
  BY DEF Inv, Serves, Types, Loops
<1>2. CASE Exists(d)
  <2>1. Advanced(d)
    BY <1>1, <1>2, ContinueKeeps DEF Open
  <2>2. EmptyLast(d, k, wire) \in Wires
    BY <1>1, Made, PutKeepsWires DEF EmptyLast, Loop, Inv, Types
  <2> QED BY <1>2, <2>1, <2>2, SourceKeeps DEF Open
<1>3. CASE ~Exists(d)
  <2>1. Advanced(d)
    BY <1>1, <1>3 DEF Open, Advanced, Kept, Restrict, Inv, Types, Serves
  <2> QED BY <1>3, <2>1, SourceKeeps DEF Open, Inv, Types
<1> QED BY <1>2, <1>3

LEMMA SendChunkKeeps ==
  ASSUME Inv, NEW d \in Device, NEW k \in DOMAIN loops[d], SendChunk(d, k) PROVE Inv'
<1> DEFINE l    == loops[d][k]
           env  == DataEnv(l.off, <<ReadAt(d, l.off)>>, l.off + 1 >= Chunks, l.attempt)
           sent == [loops[d] EXCEPT ![k].off = @ + 1]
<1>1. l \in Loop /\ Holds(d) /\ l.at = "read" /\ l.off < Chunks
  BY DEF Inv, Serves, SendChunk, Loops
<1>2. env \in Envelope
  <2>1. l.off \in Nat /\ l.attempt \in Nat /\ (l.off + 1 >= Chunks) \in BOOLEAN
    BY <1>1 DEF Loop
  <2>2. ReadAt(d, l.off) \in Piece /\ ReadAt(d, l.off)[1] = l.off + 1
    BY <1>1, <2>1, ReadsThePlace
  <2> QED BY <2>1, <2>2, Made
<1>3. wire' \in Wires
  BY <1>2, PutKeepsWires DEF SendChunk, Inv, Types
<1>4. sent[k] \in Loop /\ \A j \in DOMAIN sent \ {k} : sent[j] \in Loops
  BY <1>1 DEF Loop, Inv, Serves
<1>5. k \in DOMAIN sent /\ gen[d] \in Nat
  BY DEF Inv, Types
<1> HIDE DEF sent
<1>6. Continue(d, sent, k, gen[d], lastAck[d], notifier[d])
  BY DEF SendChunk, sent
<1>7. Advanced(d)
  BY <1>1, <1>4, <1>5, <1>6, ContinueKeeps
<1> QED BY <1>3, <1>7, SourceKeeps DEF SendChunk

LEMMA GiveUpKeeps ==
  ASSUME Inv, NEW d \in Device, NEW k \in DOMAIN loops[d], GiveUp(d, k) PROVE Inv'
<1>1. loops' = [loops EXCEPT ![d] = Restrict(@, DOMAIN @ \ {k})]
  BY DEF GiveUp
<1>2. gen' \in [Device -> Nat]
  BY DEF GiveUp, Inv, Types
<1>3. Advanced(d)
  BY <1>1, <1>2 DEF Advanced, Kept, Restrict, Inv, Serves
<1> QED BY <1>3, SourceKeeps DEF GiveUp, Inv, Types

-----------------------------------------------------------------------------
(* The actions of a receiver. *)

LEMMA ReceiveKeeps == ASSUME Inv, NEW d \in Device, Receive(d) PROVE Inv'
BY PullKeeps DEF Receive, MayStart, Inv, Types, DoneIsIdle, Stages, serving

\* _doReceiveViaEnvelope begins
LEMMA AskOverKeeps ==
  ASSUME Inv, NEW d \in Device, stage[d] # "idle", NEW e, AskOver(d, e), UNCHANGED serving
  PROVE  Inv'
<1>1. Len(part[d]) \in 0 .. Chunks /\ attempt[d] + 1 \in Nat
  BY PrefixLength DEF Inv, Types
<1>2. wire' \in Wires
  BY <1>1, Made, PutKeepsWires DEF AskOver, Inv, Types
<1>3. Types'
  BY <1>1, <1>2 DEF AskOver, Inv, Types, States, Stages, serving
<1>4. DoneIsIdle' /\ \A x \in Device : state[x] = "done" => state'[x] = "done"
  BY DEF AskOver, Inv, Types, DoneIsIdle
<1> QED BY <1>3, <1>4, PullKeeps

LEMMA AskKeeps == ASSUME Inv, NEW d \in Device, Ask(d) PROVE Inv'
BY AskOverKeeps DEF Ask

LEMMA DialKeeps == ASSUME Inv, NEW d \in Device, Dial(d) PROVE Inv'
<1>1. Types'
  BY DEF Dial, Inv, Types, States, Stages, serving
<1>2. DoneIsIdle' /\ \A x \in Device : state[x] = "done" => state'[x] = "done"
  BY DEF Dial, Inv, Types, DoneIsIdle
<1> QED BY <1>1, <1>2, PullKeeps DEF Dial

LEMMA SkipKeeps == ASSUME Inv, NEW d \in Device, Skip(d) PROVE Inv'
<1>1. Types'
  BY DEF Skip, Inv, Types, Stages, serving
<1>2. DoneIsIdle' /\ \A x \in Device : state[x] = "done" => state'[x] = "done"
  BY DEF Skip, Inv, Types, DoneIsIdle
<1> QED BY <1>1, <1>2, PullKeeps DEF Skip

\* a chunk of a stream is the one of the place the .part file has come to
LEMMA TakeDirectKeeps == ASSUME Inv, NEW d \in Device, TakeDirect(d) PROVE Inv'
<1> DEFINE e == Head(todo[d])
<1>1. stage[d] # "idle" /\ e \in Device /\ Holds(e) /\ UNCHANGED <<file, wire, attempt, serving>>
  BY TransferAssumption DEF TakeDirect
<1>2. CASE cancelled[d]
  <2>1. "pending" \in States /\ Ends(d, "pending") /\ UNCHANGED part
    BY <1>2 DEF TakeDirect, States
  <2>2. /\ state' \in [Device -> States] /\ stage' \in [Device -> Stages] /\ DoneIsIdle'
        /\ \A x \in Device : state[x] = "done" => state'[x] = "done"
    BY <1>1, <2>1, EndsKeeps DEF Inv, Types
  <2> QED BY <1>1, <2>1, <2>2, PullKeeps DEF Inv, Types, serving
<1>3. CASE ~cancelled[d]
  <2>1. part[d] \in Prefix /\ part[d] \in Seq(Piece) /\ Len(part[d]) \in Nat
        /\ Len(part[d]) < Chunks
    BY LenProperties DEF TakeDirect, Inv, Types, Prefix
  <2>2. /\ ReadAt(e, Len(part[d])) \in Piece
        /\ ReadAt(e, Len(part[d]))[1] = Len(part[d]) + 1
    BY <1>1, <2>1, ReadsThePlace
  <2> DEFINE c == ReadAt(e, Len(part[d]))
  <2> HIDE DEF c
  <2>3. /\ <<c>> \in Seq(Piece) /\ Append(part[d], c) = part[d] \o <<c>>
        /\ \A i \in DOMAIN <<c>> : <<c>>[i][1] = Len(part[d]) + i
    BY <2>1, <2>2, AppendIsConcat DEF c
  <2>4. Append(part[d], c) \in Prefix
    BY <2>1, <2>3, PrefixGrows
  <2>5. part' = [part EXCEPT ![d] = Append(@, c)] /\ UNCHANGED <<state, stage>>
    BY <1>3 DEF TakeDirect, c
  <2>6. part' \in [Device -> Prefix]
    BY <2>4, <2>5 DEF Inv, Types
  <2> QED BY <1>1, <2>5, <2>6, PullKeeps DEF Inv, Types, DoneIsIdle, serving
<1> QED BY <1>2, <1>3

LEMMA DirectEndsKeeps == ASSUME Inv, NEW d \in Device, DirectEnds(d) PROVE Inv'
<1>1. Types'
  BY DEF DirectEnds, Inv, Types, Stages, serving
<1>2. DoneIsIdle' /\ \A x \in Device : state[x] = "done" => state'[x] = "done"
  BY DEF DirectEnds, Inv, Types, DoneIsIdle
<1> QED BY <1>1, <1>2, PullKeeps DEF DirectEnds

\* the ends of a try that leave the file alone
LEMMA FailureKeeps ==
  ASSUME Inv, NEW d \in Device, stage[d] # "idle", NEW st \in States \ {"done"}, Ends(d, st),
         UNCHANGED <<file, attempt, wire, serving>>, part' \in [Device -> Prefix]
  PROVE  Inv'
<1>1. /\ state' \in [Device -> States] /\ stage' \in [Device -> Stages] /\ DoneIsIdle'
      /\ \A x \in Device : state[x] = "done" => state'[x] = "done"
  BY EndsKeeps DEF Inv, Types
<1> QED BY <1>1, PullKeeps DEF Inv, Types, serving

LEMMA DirectRefusedKeeps == ASSUME Inv, NEW d \in Device, DirectRefused(d) PROVE Inv'
BY FailureKeeps DEF DirectRefused, States, Inv, Types

LEMMA FallBackKeeps == ASSUME Inv, NEW d \in Device, FallBack(d) PROVE Inv'
<1>1. CASE Online(d, Head(todo[d]))
  BY <1>1, AskOverKeeps DEF FallBack
<1>2. CASE ~Online(d, Head(todo[d]))
  BY <1>2, FailureKeeps DEF FallBack, States, Inv, Types
<1> QED BY <1>1, <1>2

LEMMA StallKeeps == ASSUME Inv, NEW d \in Device, Stall(d) PROVE Inv'
BY FailureKeeps DEF Stall, States, Inv, Types

\* only the announced content is received
LEMMA CheckKeeps == ASSUME Inv, NEW d \in Device, Check(d) PROVE Inv'
<1>1. <<>> \in Prefix
  BY EmptySeq DEF Prefix
<1>2. part' \in [Device -> Prefix]
  BY <1>1 DEF Check, Inv, Types
<1>3. CASE Announced(part[d])
  <2>1. file' = [file EXCEPT ![d] = Content(1)] /\ Ends(d, "done")
    BY <1>3 DEF Check, Announced
  <2>2. /\ file' \in [Device -> {<<>>, Content(1)}]
        /\ \A e \in Device \ {d} : file'[e] = file[e]
        /\ file'[d] = Content(1)
    BY <2>1 DEF Inv, Types
  <2>3. /\ state' \in [Device -> States] /\ stage' \in [Device -> Stages] /\ DoneIsIdle'
        /\ \A x \in Device : state[x] = "done" => state'[x] = "done"
    BY <2>1, <2>2, EndsKeeps DEF Check, States
  <2> QED BY <1>2, <2>2, <2>3, PullKeeps DEF Check, Inv, Types, serving
<1>4. CASE ~Announced(part[d])
  BY <1>2, <1>4, FailureKeeps DEF Check, States
<1> QED BY <1>3, <1>4

LEMMA CancelKeeps == ASSUME Inv, NEW d \in Device, Cancel(d) PROVE Inv'
BY PullKeeps DEF Cancel, Inv, Types, DoneIsIdle, pulling, serving

-----------------------------------------------------------------------------
(* What arrives over a link. *)

\* Taking the first envelope off a link keeps what is under way.
LEMMA TakenOff ==
  ASSUME Inv, NEW d \in Device, NEW e \in Device, NEW n \in Link, wire[e][d][n] # <<>>
  PROVE  /\ Head(wire[e][d][n]) \in Envelope
         /\ [wire EXCEPT ![e][d][n] = Tail(@)] \in Wires
<1>1. wire[e][d][n] \in Seq(Envelope)
  BY DEF Inv, Types, Wires
<1>2. Head(wire[e][d][n]) \in Envelope /\ Tail(wire[e][d][n]) \in Seq(Envelope)
  BY <1>1, HeadTailProperties
<1> QED BY <1>2 DEF Inv, Types, Wires

LEMMA TakeFetchKeeps ==
  ASSUME Inv, NEW d \in Device, NEW e \in Device, NEW env \in Fetches,
         TakeFetch(d, e, env), wire' \in Wires, UNCHANGED pulling
  PROVE  Inv'
<1> DEFINE next == gen[d] + 1
           l    == [peer |-> e, gen |-> next, attempt |-> env.attempt, from |-> env.offset,
                    off |-> env.offset, at |-> "open"]
           k    == FreeNumber(loops[d])
           ls   == [j \in DOMAIN loops[d] \cup {k} |-> IF j = k THEN l ELSE loops[d][j]]
<1>1. next \in Nat
  BY DEF Inv, Types
<1>2. l \in Loops
  BY <1>1 DEF Loops, Loop, Fetches
<1>3. Kept(d, IF Holds(d) THEN ls ELSE loops[d])
  BY <1>2 DEF Kept, Inv, Serves
<1>4. Wake(d, IF Holds(d) THEN ls ELSE loops[d], next, env.offset)
  BY DEF TakeFetch
<1> HIDE DEF next, ls
<1> QED BY <1>1, <1>3, <1>4, WakeKeeps, SourceKeeps

LEMMA TakeAckKeeps ==
  ASSUME Inv, NEW d \in Device, NEW env \in Acks, TakeAck(d, env), wire' \in Wires,
         UNCHANGED pulling
  PROVE  Inv'
<1>1. Kept(d, loops[d]) /\ gen[d] \in Nat
  BY DEF Kept, Inv, Types, Serves
<1> QED BY <1>1, WakeKeeps, SourceKeeps DEF TakeAck, WakeForAck

\* the frame that fits is the next chunk
LEMMA TakeDataKeeps ==
  ASSUME Inv, NEW d \in Device, NEW env \in Frames, NEW w \in Wires, TakeData(d, env, w),
         UNCHANGED serving
  PROVE  Inv'
<1>1. CASE wire' = w /\ UNCHANGED <<pulling, cancelled>>
  BY <1>1, PullKeeps DEF Inv, Types, DoneIsIdle, pulling, serving
<1>2. ASSUME NEW st \in {"pending", "failed"}, stage[d] = "envelope", Ends(d, st), wire' = w,
             UNCHANGED <<file, part, attempt>>
      PROVE  Inv'
  <2>1. /\ state' \in [Device -> States] /\ stage' \in [Device -> Stages] /\ DoneIsIdle'
        /\ \A x \in Device : state[x] = "done" => state'[x] = "done"
    BY <1>2, EndsKeeps DEF Inv, Types, States
  <2> QED BY <1>2, <2>1, PullKeeps DEF Inv, Types, serving
<1>3. CASE /\ stage[d] = "envelope" /\ Fits(d, env)
           /\ part' = [part EXCEPT ![d] = @ \o env.data]
           /\ wire' = Put(d, Head(todo[d]), AckEnv(Len(part[d]) + Len(env.data)), w)
           /\ stage' = [stage EXCEPT ![d] = IF env.last THEN "check" ELSE @]
           /\ attempt' = [attempt EXCEPT ![d] = IF env.last THEN 0 ELSE @]
           /\ UNCHANGED <<state, file, todo, cancelled>>
  <2>1. /\ part[d] \in Prefix /\ part[d] \in Seq(Piece) /\ Len(part[d]) \in Nat
        /\ env.data \in Seq(Piece) /\ Len(env.data) \in Nat
        /\ \A i \in DOMAIN env.data : env.data[i][1] = Len(part[d]) + i
    BY <1>3, LenProperties DEF Inv, Types, Prefix, Frames, Fits
  <2>2. part[d] \o env.data \in Prefix
    BY <2>1, PrefixGrows
  <2>3. part' \in [Device -> Prefix]
    BY <1>3, <2>2 DEF Inv, Types
  <2>4. wire' \in Wires
    <3> DEFINE upto == Len(part[d]) + Len(env.data)
               ack  == AckEnv(upto)
    <3>1. upto \in 0 .. Chunks
      <4>1. Len(part[d] \o env.data) = upto
        BY <2>1, ConcatProperties
      <4> QED BY <2>2, <4>1, PrefixLength
    <3> HIDE DEF upto
    <3>2. ack \in Envelope
      BY <3>1, Made
    <3> HIDE DEF ack
    <3>3. Put(d, Head(todo[d]), ack, w) \in Wires
      BY <3>2, PutKeepsWires
    <3> QED BY <1>3, <3>3 DEF ack, upto
  <2>5. Types'
    BY <1>3, <2>3, <2>4 DEF Inv, Types, Stages, serving
  <2>6. DoneIsIdle' /\ \A x \in Device : state[x] = "done" => state'[x] = "done"
    BY <1>3 DEF Inv, Types, DoneIsIdle
  <2> QED BY <2>5, <2>6, PullKeeps
<1> QED BY <1>1, <1>2, <1>3 DEF TakeData

LEMMA DeliverKeeps ==
  ASSUME Inv, NEW d \in Device, NEW e \in Device, Deliver(d, e) PROVE Inv'
<1>1. PICK n \in Link :
        LET env == Head(wire[e][d][n])
            w   == [wire EXCEPT ![e][d][n] = Tail(@)]
        IN /\ wire[e][d][n] # <<>>
           /\ CASE env.type = "fetch" ->
                     /\ TakeFetch(d, e, env)
                     /\ wire' = w /\ UNCHANGED <<pulling, cancelled>>
                [] env.type = "ack" ->
                     /\ TakeAck(d, env)
                     /\ wire' = w /\ UNCHANGED <<pulling, cancelled>>
                [] env.type = "data" -> TakeData(d, env, w) /\ UNCHANGED serving
  BY DEF Deliver
<1> DEFINE env == Head(wire[e][d][n])
           w   == [wire EXCEPT ![e][d][n] = Tail(@)]
<1>2. env \in Envelope /\ w \in Wires
  BY <1>1, TakenOff
<1>3. CASE env.type = "fetch"
  <2>1. env \in Fetches
    BY <1>2, <1>3 DEF Envelope, Fetches, Acks, Frames
  <2>2. TakeFetch(d, e, env) /\ wire' = w /\ UNCHANGED pulling
    BY <1>1, <1>3
  <2> HIDE DEF env, w
  <2> QED BY <1>2, <2>1, <2>2, TakeFetchKeeps
<1>4. CASE env.type = "ack"
  <2>1. env \in Acks
    BY <1>2, <1>4 DEF Envelope, Fetches, Acks, Frames
  <2>2. TakeAck(d, env) /\ wire' = w /\ UNCHANGED pulling
    BY <1>1, <1>4
  <2> HIDE DEF env, w
  <2> QED BY <1>2, <2>1, <2>2, TakeAckKeeps
<1>5. CASE env.type = "data"
  <2>1. env \in Frames
    BY <1>2, <1>5 DEF Envelope, Fetches, Acks, Frames
  <2>2. TakeData(d, env, w) /\ UNCHANGED serving
    BY <1>1, <1>5
  <2> HIDE DEF env, w
  <2> QED BY <1>2, <2>1, <2>2, TakeDataKeeps
<1>6. env.type \in {"fetch", "ack", "data"}
  BY <1>2 DEF Envelope, Fetches, Acks, Frames
<1> QED BY <1>3, <1>4, <1>5, <1>6

-----------------------------------------------------------------------------
(* What the devices are exposed to. *)

LEMMA BreakKeeps ==
  ASSUME Inv, NEW d \in Device, NEW e \in Device, Break(d, e) PROVE Inv'
<1>1. PICK n : wire' = [wire EXCEPT ![d][e][n] = <<>>, ![e][d][n] = <<>>]
  BY DEF Break
<1>2. <<>> \in Seq(Envelope)
  BY EmptySeq
<1> DEFINE w == [wire EXCEPT ![d][e][n] = <<>>]
<1>3. w \in Wires
  BY <1>2 DEF Inv, Types, Wires
<1>4. wire' = [w EXCEPT ![e][d][n] = <<>>]
  BY <1>1
<1> HIDE DEF w
<1>5. wire' \in Wires
  BY <1>2, <1>3, <1>4 DEF Wires
<1> QED BY <1>5, PullKeeps DEF Break, Inv, Types, DoneIsIdle, pulling, serving

LEMMA RestartKeeps == ASSUME Inv, NEW d \in Device, Restart(d) PROVE Inv'
<1>1. PICK n \in 0 .. Len(part[d]) : part' = [part EXCEPT ![d] = SubSeq(@, 1, n)]
  BY DEF Restart
<1>2. part' \in [Device -> Prefix]
  BY <1>1, PrefixShrinks DEF Inv, Types
<1>3. wire' \in Wires
  BY EmptySeq DEF Restart, Inv, Types, Wires
<1>4. Types' /\ DoneIsIdle'
  BY <1>2, <1>3 DEF Restart, Inv, Types, DoneIsIdle, Stages
<1>5. Serves'
  BY DEF Restart, Inv, Serves, Holds
<1> QED BY <1>4, <1>5 DEF Inv

\* links, addresses and the file at the source's path are not part of the invariant
LEMMA EnvironmentKeeps ==
  ASSUME Inv, \/ ChangeFile
              \/ \E d, e \in Device : Connect(d, e) \/ NoteAddress(d, e)
              \/ UNCHANGED vars
  PROVE  Inv'
<1>1. UNCHANGED <<pulling, serving, wire>>
  BY DEF ChangeFile, Connect, NoteAddress, vars, pulling, serving
<1> QED BY <1>1, PullKeeps DEF Inv, Types, DoneIsIdle, pulling, serving

-----------------------------------------------------------------------------
(* The theorems. *)

LEMMA InitInv == Init => Inv
<1> SUFFICES ASSUME Init PROVE Inv
  OBVIOUS
<1>1. <<>> \in Prefix /\ <<>> \in Seq(Envelope) /\ DOMAIN <<>> = {}
  BY EmptySeq DEF Prefix
<1>2. Types
  BY <1>1 DEF Init, Types, States, Stages, Wires
<1>3. DoneIsIdle
  BY DEF Init, DoneIsIdle
<1>4. Serves
  BY <1>1 DEF Init, Serves
<1> QED BY <1>2, <1>3, <1>4 DEF Inv

LEMMA NextInv == Inv /\ [Next]_vars => Inv'
<1> SUFFICES ASSUME Inv, [Next]_vars PROVE Inv'
  OBVIOUS
<1>1. ASSUME NEW d \in Device, SourceStep(d) PROVE Inv'
  BY <1>1, OpenKeeps, SendChunkKeeps, GiveUpKeeps DEF SourceStep
<1>2. ASSUME NEW d \in Device, Pull(d) PROVE Inv'
  BY <1>2, AskKeeps, DialKeeps, SkipKeeps, TakeDirectKeeps, DirectEndsKeeps,
     DirectRefusedKeeps, FallBackKeeps, StallKeeps, CheckKeeps DEF Pull
<1>3. ASSUME NEW d \in Device, Receive(d) \/ Cancel(d) \/ Restart(d) PROVE Inv'
  BY <1>3, ReceiveKeeps, CancelKeeps, RestartKeeps
<1>4. ASSUME NEW d \in Device, NEW e \in Device, Deliver(d, e) \/ Break(d, e) PROVE Inv'
  BY <1>4, DeliverKeeps, BreakKeeps
<1>5. CASE \/ ChangeFile
           \/ \E d, e \in Device : Connect(d, e) \/ NoteAddress(d, e)
           \/ UNCHANGED vars
  BY <1>5, EnvironmentKeeps
<1> QED BY <1>1, <1>2, <1>3, <1>4, <1>5 DEF Next

LEMMA Invariant == Spec => []Inv
BY InitInv, NextInv, PTL DEF Spec

\* Whatever is sent twice, late, over another link or by another member, and whatever
\* breaks, a .part file is a beginning of the file.
THEOREM PartSafe == Spec => []PartIsBeginning
<1>1. Inv => PartIsBeginning
  BY DEF Inv, Types, Prefix, PartIsBeginning
<1> QED BY <1>1, Invariant, PTL

\* What is shown as received is the announced file, also if the source changed between two
\* tries.
THEOREM ReceivedIsAnnounced == Spec => []DoneIsAnnounced
<1>1. Inv => DoneIsAnnounced
  BY DEF Inv, DoneIsIdle, DoneIsAnnounced
<1> QED BY <1>1, Invariant, PTL

\* The actions of a receiver change its own state, and none that is done.
OnlyOf(d) == \A e \in Device \ {d} : state'[e] = state[e] /\ file'[e] = file[e]

LEMMA PullIsOwn == ASSUME Inv, NEW d \in Device, Pull(d) PROVE OnlyOf(d) /\ stage[d] # "idle"
BY DEF Pull, Ask, AskOver, Dial, Skip, TakeDirect, DirectEnds, DirectRefused, FallBack, Stall,
       Check, Ends, OnlyOf, Inv, Types

LEMMA DeliverIsOwn ==
  ASSUME Inv, NEW d \in Device, NEW e \in Device, Deliver(d, e)
  PROVE  UNCHANGED <<state, file>> \/ (OnlyOf(d) /\ stage[d] # "idle")
<1>1. PICK n \in Link :
        LET env == Head(wire[e][d][n])
            w   == [wire EXCEPT ![e][d][n] = Tail(@)]
        IN /\ wire[e][d][n] # <<>>
           /\ CASE env.type = "fetch" ->
                     /\ TakeFetch(d, e, env)
                     /\ wire' = w /\ UNCHANGED <<pulling, cancelled>>
                [] env.type = "ack" ->
                     /\ TakeAck(d, env)
                     /\ wire' = w /\ UNCHANGED <<pulling, cancelled>>
                [] env.type = "data" -> TakeData(d, env, w) /\ UNCHANGED serving
  BY DEF Deliver
<1>2. ASSUME NEW env, NEW w, TakeData(d, env, w)
      PROVE  UNCHANGED <<state, file>> \/ (OnlyOf(d) /\ stage[d] # "idle")
  BY <1>2 DEF TakeData, Ends, OnlyOf, Inv, Types, pulling
<1> DEFINE env == Head(wire[e][d][n])
           w   == [wire EXCEPT ![e][d][n] = Tail(@)]
<1>3. env.type \in {"fetch", "ack", "data"}
  BY <1>1, TakenOff DEF Envelope, Fetches, Acks, Frames
<1>4. UNCHANGED pulling \/ TakeData(d, env, w)
  BY <1>1, <1>3
<1> HIDE DEF env, w
<1> QED BY <1>2, <1>4 DEF pulling

\* A file that is there is not pulled again, and stays.
THEOREM ReceivedStays == Spec => DoneIsFinal
<1> DEFINE Stays == \A d \in Device : state[d] = "done" => state'[d] = "done" /\ file'[d] = file[d]
<1>1. Inv /\ [Next]_vars => Stays
  <2> SUFFICES ASSUME Inv, [Next]_vars PROVE Stays
    OBVIOUS
  <2>1. \A d \in Device : stage[d] # "idle" => state[d] # "done"
    BY DEF Inv, DoneIsIdle
  <2>2. ASSUME NEW d \in Device, Pull(d) PROVE Stays
    BY <2>1, <2>2, PullIsOwn DEF OnlyOf
  <2>3. ASSUME NEW d \in Device, NEW e \in Device, Deliver(d, e) PROVE Stays
    BY <2>1, <2>3, DeliverIsOwn DEF OnlyOf
  <2>4. ASSUME NEW d \in Device, SourceStep(d) \/ Receive(d) \/ Cancel(d) \/ Restart(d)
        PROVE  Stays
    BY <2>4 DEF SourceStep, Open, SendChunk, GiveUp, Receive, Cancel, Restart, pulling
  <2>5. CASE \/ ChangeFile
             \/ \E d, e \in Device : Connect(d, e) \/ Break(d, e) \/ NoteAddress(d, e)
             \/ UNCHANGED vars
    BY <2>5 DEF ChangeFile, Connect, Break, NoteAddress, vars, pulling
  <2> QED BY <2>2, <2>3, <2>4, <2>5 DEF Next
<1> QED BY <1>1, Invariant, PTL DEF Spec, DoneIsFinal

-----------------------------------------------------------------------------
(* The sources of a file of a group. *)

\* An induction over the natural numbers: of those not in Q, one would be minimal.
LEMMA Counting ==
  ASSUME NEW Q, 0 \in Q, \A n \in Nat : n \in Q => n + 1 \in Q
  PROVE  Nat \subseteq Q
<1> DEFINE bad  == Nat \ Q
           less == OpToRel(<, Nat)
<1>1. \A n \in Nat : n # 0 => n - 1 \in Nat /\ <<n - 1, n>> \in less /\ (n - 1) + 1 = n
  BY DEF OpToRel
<1>2. IsWellFoundedOn(less, Nat)
  BY NatLessThanWellFounded
<1> HIDE DEF less
<1>3. ASSUME bad # {} PROVE FALSE
  <2>1. bad \subseteq Nat
    OBVIOUS
  <2>2. PICK n \in bad : \A m \in bad : <<m, n>> \notin less
    <3> HIDE DEF bad
    <3> QED BY <1>2, <1>3, <2>1, WFMin
  <2>3. n \in Nat /\ n \notin Q /\ n # 0
    BY <2>1
  <2>4. n - 1 \in Nat /\ n - 1 \notin bad /\ (n - 1) + 1 = n
    <3> HIDE DEF bad
    <3> QED BY <1>1, <2>2, <2>3
  <2> QED BY <2>3, <2>4
<1> QED BY <1>3

\* One turn of the recursion in OtherSources, and the recursion up to the n-th member.
Turn(d, first, f, i) ==
  IF i = 0 THEN <<>>
  ELSE IF Members[i] \in {d, first} \/ ~Online(d, Members[i]) THEN f[i - 1]
  ELSE Append(f[i - 1], Members[i])

Upto(d, first, n, f) == f = [i \in 0 .. n |-> Turn(d, first, f, i)]

LEMMA OthersAre ==
  \A d, first : OtherSources(d, first) =
    (CHOOSE f : Upto(d, first, Len(Members), f))[Len(Members)]
BY DEF OtherSources, Upto, Turn

LEMMA UptoIs ==
  ASSUME NEW d, NEW first, NEW n, NEW f, Upto(d, first, n, f)
  PROVE  \A i \in 0 .. n : f[i] = Turn(d, first, f, i)
<1> DEFINE h == [i \in 0 .. n |-> Turn(d, first, f, i)]
<1>1. f = h
  BY DEF Upto
<1>2. \A i \in 0 .. n : h[i] = Turn(d, first, f, i)
  OBVIOUS
<1> HIDE DEF h
<1> QED BY <1>1, <1>2

LEMMA UptoExists ==
  ASSUME NEW d, NEW first
  PROVE  \A n \in Nat : \E f : Upto(d, first, n, f)
<1> DEFINE Q == {n \in Nat : \E f : Upto(d, first, n, f)}
<1>1. 0 \in Q
  <2> DEFINE f == [i \in 0 .. 0 |-> <<>>]
  <2>1. Upto(d, first, 0, f)
    BY DEF Upto, Turn
  <2> QED BY <2>1
<1>2. ASSUME NEW n \in Nat, n \in Q PROVE n + 1 \in Q
  <2>1. PICK f : Upto(d, first, n, f)
    BY <1>2
  <2> DEFINE g == [i \in 0 .. n + 1 |-> Turn(d, first, f, i)]
  <2>2. \A i \in 0 .. n : g[i] = f[i]
    BY <2>1, UptoIs
  <2>3. \A i \in 0 .. n + 1 : Turn(d, first, f, i) = Turn(d, first, g, i)
    <3>1. \A i \in 0 .. n + 1 : i # 0 => i - 1 \in 0 .. n
      OBVIOUS
    <3>2. \A i \in 0 .. n + 1 : i # 0 => g[i - 1] = f[i - 1]
      BY <2>2, <3>1
    <3> HIDE DEF g
    <3> QED BY <3>2 DEF Turn
  <2>4. Upto(d, first, n + 1, g)
    BY <2>3 DEF Upto
  <2> HIDE DEF g
  <2> QED BY <2>4
<1>3. Nat \subseteq Q
  <2> HIDE DEF Q
  <2> QED BY <1>1, <1>2, Counting
<1> QED BY <1>3

LEMMA OthersAreDevices ==
  ASSUME NEW d, NEW first
  PROVE  OtherSources(d, first) \in Seq(Device)
<1> DEFINE n == Len(Members)
           f == CHOOSE h : Upto(d, first, n, h)
           Q == {i \in Nat : i <= n => f[i] \in Seq(Device)}
<1>1. n \in Nat /\ \A i \in 1 .. n : Members[i] \in Device
  BY TransferAssumption
<1>2. Upto(d, first, n, f)
  BY <1>1, UptoExists
<1> HIDE DEF f, n
<1>3. \A i \in 0 .. n : f[i] = Turn(d, first, f, i)
  BY <1>2, UptoIs
<1>4. 0 \in Q
  <2>1. 0 \in 0 .. n
    BY <1>1
  <2>2. f[0] = <<>>
    BY <1>3, <2>1 DEF Turn
  <2>3. f[0] \in Seq(Device)
    BY <2>2
  <2> QED BY <2>3
<1>5. ASSUME NEW i \in Nat, i \in Q PROVE i + 1 \in Q
  <2> SUFFICES ASSUME i + 1 <= n PROVE f[i + 1] \in Seq(Device)
    OBVIOUS
  <2>1. f[i] \in Seq(Device) /\ i + 1 \in 0 .. n /\ i + 1 \in 1 .. n /\ (i + 1) - 1 = i /\ i + 1 # 0
    BY <1>1, <1>5
  <2>2. f[i + 1] = f[i] \/ f[i + 1] = Append(f[i], Members[i + 1])
    BY <1>3, <2>1 DEF Turn
  <2> QED BY <1>1, <2>1, <2>2
<1>6. Nat \subseteq Q
  <2> HIDE DEF Q
  <2> QED BY <1>4, <1>5, Counting
<1>7. f[n] \in Seq(Device)
  BY <1>1, <1>6
<1> QED BY <1>7, OthersAre DEF f, n

-----------------------------------------------------------------------------
(* The other types. *)

Queue == Seq(Device \cup {GroupId})
Mark  == {None} \cup 0 .. Chunks

\* A loop that is to be woken waits.
Notified ==
  \A d \in Device : notifier[d] # 0 =>
    notifier[d] \in DOMAIN loops[d] /\ loops[d][notifier[d]].at = "wait"

\* A pull has sources left to try.
Sources ==
  /\ todo \in [Device -> Queue] /\ cancelled \in [Device -> BOOLEAN]
  /\ \A d \in Device : todo[d] = <<>> <=> stage[d] = "idle"

Marks == lastAck \in [Device -> Mark] /\ DOMAIN notifier = Device /\ Notified

Bonds == links \in [Device -> [Device -> SUBSET Link]] /\ opened \in Nat /\ version \in 0 .. 2

Rest == Sources /\ Marks /\ Bonds

\* What is woken or goes on leaves a mark, and waits itself if it is to be woken again.
LEMMA ContinueMarks ==
  ASSUME Inv, Marks, NEW d \in Device, NEW ls, NEW k \in DOMAIN ls, ls[k] \in Loop,
         NEW g, NEW ack \in Mark, NEW n, n # 0 => n # k /\ n \in DOMAIN ls /\ ls[n].at = "wait",
         Continue(d, ls, k, g, ack, n)
  PROVE  Marks'
<1> DEFINE stops == ls[k].off >= Chunks \/ ~IsCurrent(ls[k], g) \/ cancelled[d]
           full  == Full(ls[k].off, ack)
           clear == stops /\ IsCurrent(ls[k], g)
           next  == IF stops THEN Restrict(ls, DOMAIN ls \ {k})
                             ELSE [ls EXCEPT ![k].at = IF full THEN "wait" ELSE "read"]
           wakes == IF clear THEN 0 ELSE IF ~stops /\ full THEN k ELSE n
<1>1. /\ loops' = [loops EXCEPT ![d] = next]
      /\ lastAck' = [lastAck EXCEPT ![d] = IF clear THEN None ELSE ack]
      /\ notifier' = [notifier EXCEPT ![d] = wakes]
  BY DEF Continue
<1>2. wakes # 0 => wakes \in DOMAIN next /\ next[wakes].at = "wait"
  <2>1. CASE stops
    BY <2>1 DEF Restrict
  <2>2. CASE ~stops /\ full
    <3>1. wakes = k /\ next = [ls EXCEPT ![k].at = "wait"]
      BY <2>2
    <3>2. "at" \in DOMAIN ls[k]
      BY DEF Loop
    <3> HIDE DEF wakes, next
    <3> QED BY <3>1, <3>2
  <2>3. CASE ~stops /\ ~full
    BY <2>3
  <2> QED BY <2>1, <2>2, <2>3
<1> HIDE DEF next, wakes
<1>3. lastAck' \in [Device -> Mark]
  BY <1>1 DEF Marks, Mark
<1>4. Notified'
  <2>1. \A e \in Device \ {d} : notifier'[e] = notifier[e] /\ loops'[e] = loops[e]
    BY <1>1 DEF Marks, Inv, Serves
  <2>2. notifier'[d] = wakes /\ loops'[d] = next
    BY <1>1 DEF Marks, Inv, Serves
  <2> QED BY <1>2, <2>1, <2>2 DEF Marks, Notified
<1> QED BY <1>1, <1>3, <1>4 DEF Marks

LEMMA WakeMarks ==
  ASSUME Inv, Marks, NEW d \in Device, NEW ls, \A k \in DOMAIN ls : ls[k] \in Loop,
         NEW g, NEW ack \in Mark, Wake(d, ls, g, ack)
  PROVE  Marks'
<1>1. CASE notifier[d] \in DOMAIN ls
  <2>1. Continue(d, ls, notifier[d], g, ack, 0) /\ ls[notifier[d]] \in Loop
    BY <1>1 DEF Wake
  <2> QED BY <1>1, <2>1, ContinueMarks
<1>2. CASE notifier[d] \notin DOMAIN ls
  BY <1>2 DEF Wake, Marks, Notified, Inv, Serves
<1> QED BY <1>1, <1>2

\* A loop that ends is not to be woken.
LEMMA LeavesMarks ==
  ASSUME Inv, Marks, NEW d \in Device, NEW k,
         loops' = [loops EXCEPT ![d] = Restrict(@, DOMAIN @ \ {k})],
         \A e \in Device \ {d} : notifier'[e] = notifier[e],
         DOMAIN notifier' = Device, lastAck' \in [Device -> Mark],
         notifier'[d] # 0 => notifier'[d] = notifier[d] /\ notifier[d] # k
  PROVE  Marks'
<1> DEFINE next == [j \in DOMAIN loops[d] \ {k} |-> loops[d][j]]
<1>1. loops' = [loops EXCEPT ![d] = next]
  BY DEF Restrict, Inv, Serves
<1>2. \A j \in DOMAIN loops[d] : j # k => j \in DOMAIN next /\ next[j] = loops[d][j]
  OBVIOUS
<1> HIDE DEF next
<1>3. (\A e \in Device \ {d} : loops'[e] = loops[e]) /\ loops'[d] = next
  BY <1>1 DEF Inv, Serves
<1>4. Notified'
  <2> SUFFICES ASSUME NEW e \in Device, notifier'[e] # 0
               PROVE  notifier'[e] \in DOMAIN loops'[e] /\ loops'[e][notifier'[e]].at = "wait"
    BY DEF Notified
  <2>1. CASE e # d
    BY <1>3, <2>1 DEF Marks, Notified
  <2>2. CASE e = d
    BY <1>2, <1>3, <2>2 DEF Marks, Notified
  <2> QED BY <2>1, <2>2
<1> QED BY <1>4 DEF Marks

LEMMA SourceMarks ==
  ASSUME Inv, Marks, NEW d \in Device, SourceStep(d)
  PROVE  Marks'
<1>1. PICK k \in DOMAIN loops[d] : Open(d, k) \/ SendChunk(d, k) \/ GiveUp(d, k)
  BY DEF SourceStep
<1>2. lastAck[d] \in Mark /\ lastAck \in [Device -> Mark]
  BY DEF Marks
<1>3. notifier[d] # 0 => notifier[d] \in DOMAIN loops[d] /\ loops[d][notifier[d]].at = "wait"
  BY DEF Marks, Notified
<1>4. CASE Open(d, k)
  <2>1. notifier[d] # 0 => notifier[d] # k
    BY <1>3, <1>4 DEF Open
  <2>2. CASE Exists(d)
    <3>1. Continue(d, loops[d], k, gen[d], lastAck[d], notifier[d])
      BY <1>4, <2>2 DEF Open
    <3>2. loops[d][k] \in Loop
      BY DEF Inv, Serves, Loops
    <3> QED BY <1>2, <1>3, <2>1, <3>1, <3>2, ContinueMarks
  <2>3. CASE ~Exists(d)
    <3>1. /\ loops' = [loops EXCEPT ![d] = Restrict(@, DOMAIN @ \ {k})]
          /\ UNCHANGED <<lastAck, notifier>>
      BY <1>4, <2>3 DEF Open
    <3> QED BY <1>2, <2>1, <3>1, LeavesMarks DEF Marks
  <2> QED BY <2>2, <2>3
<1>5. CASE SendChunk(d, k)
  <2> DEFINE ls == [loops[d] EXCEPT ![k].off = @ + 1]
  <2>1. Continue(d, ls, k, gen[d], lastAck[d], notifier[d]) /\ loops[d][k].at = "read"
    BY <1>5 DEF SendChunk
  <2>2. DOMAIN ls = DOMAIN loops[d] /\ \A j \in DOMAIN ls : j # k => ls[j] = loops[d][j]
    OBVIOUS
  <2>3. notifier[d] # 0 =>
          notifier[d] # k /\ notifier[d] \in DOMAIN ls /\ ls[notifier[d]].at = "wait"
    BY <1>3, <2>1, <2>2
  <2>4. loops[d][k] \in Loop => ls[k] \in Loop
    BY DEF Loop
  <2>5. loops[d][k] \in Loop
    BY DEF Inv, Serves, Loops
  <2> HIDE DEF ls
  <2> QED BY <1>2, <2>1, <2>2, <2>3, <2>4, <2>5, ContinueMarks
<1>6. CASE GiveUp(d, k)
  <2>1. loops' = [loops EXCEPT ![d] = Restrict(@, DOMAIN @ \ {k})]
    BY <1>6 DEF GiveUp
  <2>2. lastAck' \in [Device -> Mark]
    BY <1>2, <1>6 DEF GiveUp, Mark
  <2>3. notifier' = [notifier EXCEPT ![d] =
                        IF IsCurrent(loops[d][k], gen[d]) \/ @ = k THEN 0 ELSE @]
    BY <1>6 DEF GiveUp, Marks
  <2>4. /\ DOMAIN notifier' = Device /\ \A e \in Device \ {d} : notifier'[e] = notifier[e]
        /\ notifier'[d] # 0 => notifier'[d] = notifier[d] /\ notifier[d] # k
    BY <2>3 DEF Marks
  <2> QED BY <2>1, <2>2, <2>4, LeavesMarks
<1> QED BY <1>1, <1>4, <1>5, <1>6

LEMMA StillMarks ==
  ASSUME Marks, UNCHANGED <<loops, lastAck, notifier>>
  PROVE  Marks'
BY DEF Marks, Notified

LEMMA DeliverMarks ==
  ASSUME Inv, Marks, NEW d \in Device, NEW e \in Device, Deliver(d, e)
  PROVE  Marks'
<1>1. PICK n \in Link :
        LET env == Head(wire[e][d][n])
            w   == [wire EXCEPT ![e][d][n] = Tail(@)]
        IN /\ wire[e][d][n] # <<>>
           /\ CASE env.type = "fetch" ->
                     /\ TakeFetch(d, e, env)
                     /\ wire' = w /\ UNCHANGED <<pulling, cancelled>>
                [] env.type = "ack" ->
                     /\ TakeAck(d, env)
                     /\ wire' = w /\ UNCHANGED <<pulling, cancelled>>
                [] env.type = "data" -> TakeData(d, env, w) /\ UNCHANGED serving
  BY DEF Deliver
<1> DEFINE env == Head(wire[e][d][n])
<1>2. env \in Envelope
  BY <1>1, TakenOff
<1>3. CASE env.type = "fetch"
  <2>0. env.offset \in 0 .. Chunks /\ env.attempt \in Nat
    BY <1>2, <1>3 DEF Envelope, Fetches, Acks, Frames
  <2>1. TakeFetch(d, e, env)
    BY <1>1, <1>3
  <2> HIDE DEF env
  <2> DEFINE l  == [peer |-> e, gen |-> gen[d] + 1, attempt |-> env.attempt, from |-> env.offset,
                    off |-> env.offset, at |-> "open"]
             k  == FreeNumber(loops[d])
             ls == [j \in DOMAIN loops[d] \cup {k} |-> IF j = k THEN l ELSE loops[d][j]]
             on == IF Holds(d) THEN ls ELSE loops[d]
  <2>2. l \in Loop
    BY <2>0, TransferAssumption DEF Loop, Inv, Types
  <2>3. \A j \in DOMAIN on : on[j] \in Loop
    BY <2>2 DEF Inv, Serves, Loops
  <2>4. Wake(d, on, gen[d] + 1, env.offset)
    BY <2>1 DEF TakeFetch
  <2>5. env.offset \in Mark
    BY <2>0 DEF Mark
  <2> HIDE DEF on
  <2> QED BY <2>3, <2>4, <2>5, WakeMarks
<1>4. CASE env.type = "ack"
  <2>1. env.offset \in Mark /\ TakeAck(d, env)
    BY <1>1, <1>2, <1>4 DEF Envelope, Fetches, Acks, Frames, Mark
  <2> HIDE DEF env
  <2>2. lastAck[d] \in Mark /\ \A k \in DOMAIN loops[d] : loops[d][k] \in Loop
    BY DEF Marks, Inv, Serves, Loops
  <2> QED BY <2>1, <2>2, WakeMarks DEF TakeAck, WakeForAck
<1>5. CASE env.type = "data"
  <2>1. UNCHANGED serving
    BY <1>1, <1>5
  <2> QED BY <2>1, StillMarks DEF serving
<1>6. env.type \in {"fetch", "ack", "data"}
  BY <1>2 DEF Envelope, Fetches, Acks, Frames
<1> QED BY <1>3, <1>4, <1>5, <1>6

LEMMA StepMarks == ASSUME Inv, Marks, [Next]_vars PROVE Marks'
<1>1. ASSUME NEW d \in Device, Pull(d) \/ Receive(d) \/ Cancel(d) PROVE Marks'
  <2>1. UNCHANGED serving
    BY <1>1 DEF Pull, Receive, Cancel, Ask, Dial, Skip, TakeDirect, DirectEnds, DirectRefused,
                FallBack, Stall, Check
  <2> QED BY <2>1, StillMarks DEF serving
<1>2. ASSUME NEW d \in Device, Restart(d) PROVE Marks'
  BY <1>2 DEF Restart, Marks, Notified, Mark, Inv, Serves
<1>3. CASE \/ ChangeFile
           \/ \E d, e \in Device : Connect(d, e) \/ Break(d, e) \/ NoteAddress(d, e)
           \/ UNCHANGED vars
  <2>1. UNCHANGED serving
    BY <1>3 DEF ChangeFile, Connect, Break, NoteAddress, vars
  <2> QED BY <2>1, StillMarks DEF serving
<1> QED BY <1>1, <1>2, <1>3, SourceMarks, DeliverMarks DEF Next

-----------------------------------------------------------------------------
(* The sources. *)

LEMMA RestOfQueue ==
  \A s \in Queue : s # <<>> => Tail(s) \in Queue /\ (Tail(s) # <<>> <=> Len(s) > 1)
<1> SUFFICES ASSUME NEW s \in Queue, s # <<>>
             PROVE  Tail(s) \in Queue /\ (Tail(s) # <<>> <=> Len(s) > 1)
  OBVIOUS
<1>1. Tail(s) \in Queue /\ Len(Tail(s)) = Len(s) - 1 /\ Len(s) \in Nat
  BY HeadTailProperties, LenProperties DEF Queue
<1>2. Tail(s) = <<>> <=> Len(Tail(s)) = 0
  BY <1>1, EmptySeq DEF Queue
<1> QED BY <1>1, <1>2

LEMMA EndsSources ==
  ASSUME Inv, Sources, NEW d \in Device, stage[d] # "idle", NEW st, Ends(d, st)
  PROVE  Sources'
<1> DEFINE more == Group /\ st # "done" /\ Len(todo[d]) > 1
<1>1. todo[d] \in Queue /\ todo[d] # <<>>
  BY DEF Sources
<1>2. more => Tail(todo[d]) \in Queue /\ Tail(todo[d]) # <<>>
  BY <1>1, RestOfQueue
<1>3. <<>> \in Queue
  BY DEF Queue
<1>4. /\ todo' = [todo EXCEPT ![d] = IF more THEN Tail(@) ELSE <<>>]
      /\ stage' = [stage EXCEPT ![d] = IF more THEN "next" ELSE "idle"]
      /\ cancelled' = [cancelled EXCEPT ![d] = FALSE]
  BY DEF Ends
<1> HIDE DEF more
<1> QED BY <1>2, <1>3, <1>4 DEF Sources, Inv, Types

\* A step that only goes on with a try.
LEMMA GoesOnSources ==
  ASSUME Inv, Sources, UNCHANGED <<todo, cancelled>>, DOMAIN stage' = Device,
         \A d \in Device : stage[d] = "idle" <=> stage'[d] = "idle"
  PROVE  Sources'
BY DEF Sources

LEMMA ReceiveSources ==
  ASSUME Inv, Sources, NEW d \in Device, Receive(d)
  PROVE  Sources'
<1>1. PICK first \in {Sender, GroupId} :
        todo' = [todo EXCEPT ![d] = <<first>> \o OtherSources(d, first)]
  BY DEF Receive
<1>2. <<first>> \o OtherSources(d, first) \in Queue /\ <<first>> \o OtherSources(d, first) # <<>>
  <2> DEFINE s == OtherSources(d, first)
  <2>1. s \in Queue
    BY OthersAreDevices DEF Queue
  <2>2. <<first>> \in Queue
    BY TransferAssumption DEF Queue
  <2> HIDE DEF s
  <2>3. <<first>> \o s \in Queue /\ Len(<<first>> \o s) = 1 + Len(s) /\ Len(s) \in Nat
    BY <2>1, <2>2 DEF Queue
  <2>4. <<first>> \o s # <<>>
    BY <2>3
  <2> QED BY <2>3, <2>4 DEF s
<1>3. stage' = [stage EXCEPT ![d] = "next"] /\ UNCHANGED cancelled
  BY DEF Receive
<1> QED BY <1>1, <1>2, <1>3 DEF Sources, Inv, Types

LEMMA SkipSources ==
  ASSUME Inv, Sources, NEW d \in Device, Skip(d)
  PROVE  Sources'
<1> DEFINE more == Len(todo[d]) > 1
<1>1. todo[d] \in Queue /\ todo[d] # <<>>
  BY DEF Sources, Skip
<1>2. Tail(todo[d]) \in Queue /\ (Tail(todo[d]) = <<>> <=> ~more)
  BY <1>1, RestOfQueue
<1>3. /\ todo' = [todo EXCEPT ![d] = Tail(@)]
      /\ stage' = [stage EXCEPT ![d] = IF more THEN "next" ELSE "idle"]
      /\ UNCHANGED cancelled
  BY DEF Skip
<1> HIDE DEF more
<1> QED BY <1>2, <1>3 DEF Sources, Inv, Types

LEMMA PullSources ==
  ASSUME Inv, Sources, NEW d \in Device, Pull(d)
  PROVE  Sources'
<1>1. CASE Skip(d)
  BY <1>1, SkipSources
<1>2. CASE stage[d] # "idle" /\ \E st : Ends(d, st)
  BY <1>2, EndsSources
<1>3. ASSUME NEW st \in Stages \ {"idle"}, stage[d] # "idle",
             stage' = [stage EXCEPT ![d] = st], UNCHANGED <<todo, cancelled>>
      PROVE  Sources'
  BY <1>3, GoesOnSources DEF Inv, Types
<1>4. CASE UNCHANGED <<todo, stage, cancelled>>
  BY <1>4 DEF Sources
<1>5. CASE Ask(d) \/ Dial(d)
  BY <1>3, <1>5 DEF Ask, AskOver, Dial, Stages
<1>6. CASE TakeDirect(d) \/ DirectEnds(d) \/ DirectRefused(d)
  BY <1>2, <1>3, <1>4, <1>6 DEF TakeDirect, DirectEnds, DirectRefused, Stages
<1>7. CASE FallBack(d) \/ Stall(d) \/ Check(d)
  BY <1>2, <1>3, <1>7 DEF FallBack, AskOver, Stall, Check, Stages
<1> QED BY <1>1, <1>5, <1>6, <1>7 DEF Pull

LEMMA DeliverSources ==
  ASSUME Inv, Sources, NEW d \in Device, NEW e \in Device, Deliver(d, e)
  PROVE  Sources'
<1>1. PICK n \in Link :
        LET env == Head(wire[e][d][n])
            w   == [wire EXCEPT ![e][d][n] = Tail(@)]
        IN /\ wire[e][d][n] # <<>>
           /\ CASE env.type = "fetch" ->
                     /\ TakeFetch(d, e, env)
                     /\ wire' = w /\ UNCHANGED <<pulling, cancelled>>
                [] env.type = "ack" ->
                     /\ TakeAck(d, env)
                     /\ wire' = w /\ UNCHANGED <<pulling, cancelled>>
                [] env.type = "data" -> TakeData(d, env, w) /\ UNCHANGED serving
  BY DEF Deliver
<1>2. ASSUME NEW env, NEW w, TakeData(d, env, w) PROVE Sources'
  <2>1. CASE UNCHANGED <<todo, stage, cancelled>>
    BY <2>1 DEF Sources
  <2>2. CASE stage[d] # "idle" /\ \E st : Ends(d, st)
    BY <2>2, EndsSources
  <2>3. CASE /\ stage[d] = "envelope" /\ UNCHANGED <<todo, cancelled>>
             /\ stage' = [stage EXCEPT ![d] = IF env.last THEN "check" ELSE @]
    BY <2>3, GoesOnSources DEF Inv, Types
  <2> QED BY <1>2, <2>1, <2>2, <2>3 DEF TakeData, pulling
<1> DEFINE env == Head(wire[e][d][n])
           w   == [wire EXCEPT ![e][d][n] = Tail(@)]
<1>3. env.type \in {"fetch", "ack", "data"}
  BY <1>1, TakenOff DEF Envelope, Fetches, Acks, Frames
<1>4. UNCHANGED <<pulling, cancelled>> \/ TakeData(d, env, w)
  BY <1>1, <1>3
<1> HIDE DEF env, w
<1> QED BY <1>2, <1>4 DEF pulling, Sources

LEMMA StepSources == ASSUME Inv, Sources, [Next]_vars PROVE Sources'
<1>1. ASSUME NEW d \in Device, Cancel(d) PROVE Sources'
  BY <1>1 DEF Cancel, Sources, pulling
<1>2. ASSUME NEW d \in Device, Restart(d) PROVE Sources'
  <2>1. <<>> \in Queue
    BY DEF Queue
  <2> QED BY <1>2, <2>1 DEF Restart, Sources, Inv, Types
<1>3. ASSUME NEW d \in Device, SourceStep(d) PROVE Sources'
  BY <1>3 DEF SourceStep, Open, SendChunk, GiveUp, Sources, pulling
<1>4. CASE \/ ChangeFile
           \/ \E d, e \in Device : Connect(d, e) \/ Break(d, e) \/ NoteAddress(d, e)
           \/ UNCHANGED vars
  BY <1>4 DEF ChangeFile, Connect, Break, NoteAddress, vars, pulling, Sources
<1> QED BY <1>1, <1>2, <1>3, <1>4, ReceiveSources, PullSources, DeliverSources DEF Next

-----------------------------------------------------------------------------
(* The links, and the file at its source. *)

LEMMA StepBonds == ASSUME Inv, Bonds, [Next]_vars PROVE Bonds'
<1>1. CASE UNCHANGED <<links, opened, version>>
  BY <1>1 DEF Bonds
<1>2. ASSUME NEW d \in Device, NEW e \in Device, Connect(d, e) PROVE Bonds'
  <2>1. opened' = opened + 1 /\ opened' \in Link
    BY <1>2, TransferAssumption DEF Connect, Bonds, Link
  <2> DEFINE one == [links EXCEPT ![d][e] = @ \cup {opened'}]
  <2>2. one \in [Device -> [Device -> SUBSET Link]]
    BY <2>1 DEF Bonds
  <2>3. links' = [one EXCEPT ![e][d] = @ \cup {opened'}] /\ UNCHANGED version
    BY <1>2 DEF Connect
  <2> HIDE DEF one
  <2>4. links' \in [Device -> [Device -> SUBSET Link]]
    BY <2>1, <2>2, <2>3
  <2> QED BY <2>1, <2>3, <2>4 DEF Bonds
<1>3. ASSUME NEW d \in Device, NEW e \in Device, Break(d, e) PROVE Bonds'
  <2>1. PICK n : links' = [links EXCEPT ![d][e] = @ \ {n}, ![e][d] = @ \ {n}]
    BY <1>3 DEF Break
  <2> DEFINE one == [links EXCEPT ![d][e] = @ \ {n}]
  <2>2. one \in [Device -> [Device -> SUBSET Link]]
    BY DEF Bonds
  <2>3. links' = [one EXCEPT ![e][d] = @ \ {n}]
    BY <2>1
  <2> HIDE DEF one
  <2>4. links' \in [Device -> [Device -> SUBSET Link]]
    BY <2>2, <2>3
  <2> QED BY <1>3, <2>4 DEF Bonds, Break
<1>4. ASSUME NEW d \in Device, Restart(d) PROVE Bonds'
  BY <1>4 DEF Restart, Bonds
<1>5. CASE ChangeFile
  BY <1>5 DEF ChangeFile, Bonds, bounds
<1>6. ASSUME NEW d \in Device, SourceStep(d) \/ Receive(d) \/ Pull(d) \/ Cancel(d)
      PROVE  UNCHANGED <<links, opened, version>>
  BY <1>6 DEF SourceStep, Open, SendChunk, GiveUp, Receive, Pull, Ask, Dial, Skip, TakeDirect,
              DirectEnds, DirectRefused, FallBack, Stall, Check, Cancel, bounds
<1>7. ASSUME NEW d \in Device, NEW e \in Device, Deliver(d, e) \/ NoteAddress(d, e)
      PROVE  UNCHANGED <<links, opened, version>>
  BY <1>7 DEF Deliver, NoteAddress, bounds
<1> QED BY <1>1, <1>2, <1>3, <1>4, <1>5, <1>6, <1>7 DEF Next, vars, bounds

LEMMA InitRest == Init => Rest
<1> SUFFICES ASSUME Init PROVE Rest
  OBVIOUS
<1>1. <<>> \in Queue
  BY DEF Queue
<1>2. Sources
  BY <1>1 DEF Init, Sources
<1>3. Marks
  BY DEF Init, Marks, Notified, Mark
<1>4. Bonds
  BY TransferAssumption DEF Init, Bonds, Link
<1> QED BY <1>2, <1>3, <1>4 DEF Rest

\* Every variable of a transfer keeps its type, whatever breaks: a loop that is woken is
\* still there, and a receive that runs has a source to try.
THEOREM TypeCorrect == Spec => []TypeOK
<1>1. Init => Inv /\ Rest
  BY InitInv, InitRest
<1>2. Inv /\ Rest /\ [Next]_vars => Inv' /\ Rest'
  BY NextInv, StepSources, StepMarks, StepBonds DEF Rest
<1>3. Inv /\ Rest => TypeOK
  <2> SUFFICES ASSUME Inv, Rest PROVE TypeOK
    OBVIOUS
  <2>1. \A d \in Device : notifier[d] \in {0} \cup DOMAIN loops[d]
    BY DEF Rest, Marks, Notified
  <2>2. \A d \in Device : part[d] \in Seq((1 .. Chunks) \X {1, 2})
    BY DEF Inv, Types, Prefix, Piece
  <2> QED BY <2>1, <2>2 DEF Inv, Types, Rest, Sources, Marks, Bonds, Queue, Mark, Link, TypeOK
<1> QED BY <1>1, <1>2, <1>3, PTL DEF Spec
=============================================================================
