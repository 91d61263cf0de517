--------------------------- MODULE TransferPairs ----------------------------
(***************************************************************************)
(* What is under way to the only receiver of a file over links, for any    *)
(* number of devices and links, any file and window: the invariant, and    *)
(* what the steps keep of a pair of a receiver and a source, whoever moves *)
(* (PairKept, GuidedKept).                                                 *)
(*                                                                         *)
(* A stream (Flow) is one request, or one loop and the frames it sent in   *)
(* their order over all links, all of one attempt from the end of the      *)
(* .part file on.  The invariant says what else may be under way beside it *)
(* (Course).  Before anything goes wrong nothing is (Fresh).  After a      *)
(* fault, or with a second link, either a break, a restart or a change of  *)
(* the file left no old stream behind (Spared), or the pull is at its end  *)
(* or cut off (Over), or the receiver came to ask again while its last     *)
(* request, loop or frames are still there (Twice): then there is one of   *)
(* them at most, in front of the new request on the same link, and         *)
(* _serveGen tells its loop from the new one as long as that is running    *)
(* (Beside).  A second fault breaks this: see OneStream in Transfer.       *)
(***************************************************************************)
EXTENDS TransferSafety, FiniteSetTheorems

-----------------------------------------------------------------------------
(* What is under way, by links, and what it may be: the parts of the invariant. *)

\* requests and frames of the attempts in A
Asks(A) == {env \in Fetches : env.attempt \in A}
Sent(A) == {env \in Frames : env.attempt \in A}

\* What two devices have under way to each other is W, by links.
Free(W, S) == \A n \in Link : \A i \in DOMAIN W[n] : W[n][i] \notin S

\* V is W without some of the first envelopes of each link, and with others that are not of S.
After(V, W, S) ==
  \E h \in [Link -> Nat] : \A n \in Link : \A i \in DOMAIN V[n] : V[n][i] \in S =>
    i + h[n] \in DOMAIN W[n] /\ W[n][i + h[n]] = V[n][i]

Keeps(V, W, S) ==
  \A n \in Link : \A i \in DOMAIN W[n] : W[n][i] \in S => \E j \in DOMAIN V[n] : V[n][j] = W[n][i]

\* The loops of L that serve d, for attempts in A.
Served(L, d, A) == {k \in DOMAIN L : L[k].peer = d /\ L[k].attempt \in A}

\* one request at most
OneAsk(Q, A) ==
  \A n, m \in Link : \A i \in DOMAIN Q[n], j \in DOMAIN Q[m] :
    Q[n][i] \in Asks(A) /\ Q[m][j] \in Asks(A) => n = m /\ i = j

\* At most one loop or request.
Lone(L, Q, d, A) ==
  /\ \A k, j \in Served(L, d, A) : k = j
  /\ OneAsk(Q, A)
  /\ Served(L, d, A) = {} \/ Free(Q, Asks(A))

\* neither loop, request nor frame
Nothing(L, Q, W, d, A) == Served(L, d, A) = {} /\ Free(Q, Asks(A)) /\ Free(W, Sent(A))

\* A frame from place p on.
Proper(env, p) ==
  /\ env.offset >= p /\ (env.offset < Chunks \/ env.offset = p)
  /\ env.last <=> env.offset + 1 >= Chunks
  /\ Len(env.data) = IF env.offset < Chunks THEN 1 ELSE 0

\* the frames of attempt a, in the order of their places over all links
Streamed(W, a, p) ==
  /\ \A n \in Link : \A i \in DOMAIN W[n] : W[n][i] \in Sent({a}) => Proper(W[n][i], p)
  /\ \A n, m \in Link : \A i \in DOMAIN W[n], j \in DOMAIN W[m] :
       /\ W[n][i] \in Sent({a}) /\ W[m][j] \in Sent({a})
       /\ n < m \/ (n = m /\ i < j)
       => W[n][i].offset < W[m][j].offset

\* every place from p up to q is under way
Filled(W, a, p, q) ==
  \A o \in p .. q - 1 : \E n \in Link : \E i \in DOMAIN W[n] :
    W[n][i] \in Sent({a}) /\ W[n][i].offset = o

\* A loop is past the frames it has sent, of which there are none before it has the file open.
Serving(l, W, a, p) ==
  /\ l.off >= p
  /\ l.at = "open" => l.off = p /\ Free(W, Sent({a}))
  /\ l.at # "open" => l.off < Chunks
  /\ \A n \in Link : \A i \in DOMAIN W[n] : W[n][i] \in Sent({a}) => W[n][i].offset < l.off

\* One stream of attempt a from place p on: a request or a loop at most, and frames in order.
Flow(L, Q, W, d, a, p) ==
  /\ Lone(L, Q, d, {a})
  /\ Streamed(W, a, p)
  /\ \A n \in Link : \A i \in DOMAIN Q[n] : Q[n][i] \in Asks({a}) => Q[n][i].offset = p
  /\ Free(Q, Asks({a})) \/ Free(W, Sent({a}))
  /\ \A k \in Served(L, d, {a}) : Serving(L[k], W, a, p)

\* no frame before another, or before the place of the loop, is missing
Gapless(L, W, d, a, p) ==
  /\ \A n \in Link : \A i \in DOMAIN W[n] :
       W[n][i] \in Sent({a}) => Filled(W, a, p, W[n][i].offset)
  /\ \A k \in Served(L, d, {a}) : Filled(W, a, p, L[k].off)

\* the loops for d are of the number g
OneGen(L, d, g) == \A k \in Served(L, d, Nat) : L[k].gen = g

\* The stream of attempt a beside what is left of an earlier one.
Beside(L, Q, W, d, a, g, newest) ==
  /\ \A n \in Link : \A i \in DOMAIN W[n] : W[n][i] \in Sent({a}) => n = newest
  /\ \A n, m \in Link : \A i \in DOMAIN Q[n], j \in DOMAIN Q[m] :
       Q[n][i] \in Asks(Nat \ {a}) /\ Q[m][j] \in Asks({a}) => n = m /\ i < j
  /\ Served(L, d, {a}) = {} \/ Free(Q, Asks(Nat \ {a}))
  /\ \A k \in Served(L, d, {a}) :
       L[k].gen = g /\ \A j \in Served(L, d, Nat \ {a}) : L[j].gen # g
  /\ Free(Q, Asks({a})) \/ \A j \in Served(L, d, Nat \ {a}) : L[j].gen = g

-----------------------------------------------------------------------------
(* Steps that only take away. *)

\* a loop at the same place
Moved(m, l) ==
  m.off = l.off /\ (m.at = l.at \/ (m.at # "open" /\ l.at # "open"))

\* The loops for d in M are among those in L.
Among(M, L, d) ==
  \A k \in Served(M, d, Nat) : /\ k \in Served(L, d, Nat)
                              /\ M[k].attempt = L[k].attempt /\ M[k].gen = L[k].gen

\* Those for attempts in A are where they were.
Still(M, L, d, A) == \A k \in Served(M, d, A) : k \in Served(L, d, A) /\ Moved(M[k], L[k])

LEMMA AmongServed ==
  ASSUME NEW M, NEW L, NEW d, Among(M, L, d), NEW A, A \subseteq Nat
  PROVE  Served(M, d, A) \subseteq Served(L, d, A)
BY DEF Among, Served

LEMMA StaysFree ==
  ASSUME NEW V, NEW W, NEW S, After(V, W, S), Free(W, S)
  PROVE  Free(V, S)
BY DEF After, Free

\* what comes after with respect to more comes after with respect to less
LEMMA AfterLess ==
  ASSUME NEW V, NEW W, NEW T, After(V, W, T), NEW S, S \subseteq T
  PROVE  After(V, W, S)
BY DEF After

LEMMA StaysLone ==
  ASSUME NEW A, NEW M, NEW L, NEW d, Served(M, d, A) \subseteq Served(L, d, A),
         NEW V, NEW Q, V \in [Link -> Seq(Envelope)], After(V, Q, Asks(A)),
         Lone(L, Q, d, A)
  PROVE  Lone(M, V, d, A)
<1>2. OneAsk(V, A)
  <2>1. PICK h \in [Link -> Nat] : \A n \in Link : \A i \in DOMAIN V[n] : V[n][i] \in Asks(A) =>
              i + h[n] \in DOMAIN Q[n] /\ Q[n][i + h[n]] = V[n][i]
    BY DEF After
  <2> SUFFICES ASSUME NEW n \in Link, NEW m \in Link, NEW i \in DOMAIN V[n], NEW j \in DOMAIN V[m],
                      V[n][i] \in Asks(A), V[m][j] \in Asks(A)
               PROVE  n = m /\ i = j
    BY DEF OneAsk
  <2>2. n = m /\ i + h[n] = j + h[m]
    BY <2>1 DEF Lone, OneAsk
  <2>3. i \in Nat /\ j \in Nat /\ h[n] \in Nat
    OBVIOUS
  <2> QED BY <2>2, <2>3
<1>3. Free(Q, Asks(A)) => Free(V, Asks(A))
  BY StaysFree
<1> QED BY <1>2, <1>3 DEF Lone

LEMMA StaysStreamed ==
  ASSUME NEW V, NEW W, NEW a, V \in [Link -> Seq(Envelope)], After(V, W, Sent({a})),
         NEW p, Streamed(W, a, p)
  PROVE  Streamed(V, a, p)
<1>1. PICK h \in [Link -> Nat] : \A n \in Link : \A i \in DOMAIN V[n] : V[n][i] \in Sent({a}) =>
            i + h[n] \in DOMAIN W[n] /\ W[n][i + h[n]] = V[n][i]
  BY DEF After
<1>2. \A n \in Link : \A i \in DOMAIN V[n] : V[n][i] \in Sent({a}) => Proper(V[n][i], p)
  BY <1>1 DEF Streamed
<1>3. ASSUME NEW n \in Link, NEW m \in Link, NEW i \in DOMAIN V[n], NEW j \in DOMAIN V[m],
             V[n][i] \in Sent({a}), V[m][j] \in Sent({a}), n < m \/ (n = m /\ i < j)
      PROVE  V[n][i].offset < V[m][j].offset
  <2>1. i \in Nat /\ j \in Nat /\ h[n] \in Nat /\ h[m] \in Nat
    OBVIOUS
  <2>2. n < m \/ (n = m /\ i + h[n] < j + h[m])
    BY <1>3, <2>1
  <2> QED BY <1>1, <1>3, <2>2 DEF Streamed
<1> QED BY <1>2, <1>3 DEF Streamed

LEMMA StaysServing ==
  ASSUME NEW a, NEW X, NEW W, After(X, W, Sent({a})), NEW p, NEW l, Serving(l, W, a, p),
         NEW m, Moved(m, l)
  PROVE  Serving(m, X, a, p)
<1>1. Free(W, Sent({a})) => Free(X, Sent({a}))
  BY StaysFree
<1>2. \A n \in Link : \A i \in DOMAIN X[n] : X[n][i] \in Sent({a}) => X[n][i].offset < m.off
  BY DEF After, Serving, Moved
<1> QED BY <1>1, <1>2 DEF Serving, Moved

LEMMA StaysFlow ==
  ASSUME NEW a, NEW M, NEW L, NEW d, Still(M, L, d, {a}),
         NEW V, NEW Q, V \in [Link -> Seq(Envelope)], After(V, Q, Asks({a})),
         NEW X, NEW W, X \in [Link -> Seq(Envelope)], After(X, W, Sent({a})),
         NEW p, Flow(L, Q, W, d, a, p)
  PROVE  Flow(M, V, X, d, a, p)
<1>1. Lone(M, V, d, {a})
  BY StaysLone DEF Flow, Still
<1>2. Streamed(X, a, p)
  BY StaysStreamed DEF Flow
<1>3. ASSUME NEW n \in Link, NEW i \in DOMAIN V[n], V[n][i] \in Asks({a}) PROVE V[n][i].offset = p
  <2>1. PICK j \in DOMAIN Q[n] : Q[n][j] = V[n][i]
    BY <1>3 DEF After
  <2> QED BY <1>3, <2>1 DEF Flow
<1>4. /\ Free(Q, Asks({a})) => Free(V, Asks({a}))
      /\ Free(W, Sent({a})) => Free(X, Sent({a}))
  BY StaysFree
<1>5. \A k \in Served(M, d, {a}) : Serving(M[k], X, a, p)
  BY StaysServing DEF Still, Flow
<1> QED BY <1>1, <1>2, <1>3, <1>4, <1>5 DEF Flow

LEMMA StaysFilled ==
  ASSUME NEW X, NEW W, NEW a, Keeps(X, W, Sent({a})), NEW p, NEW q, Filled(W, a, p, q)
  PROVE  Filled(X, a, p, q)
<1> SUFFICES ASSUME NEW o \in p .. q - 1
             PROVE  \E n \in Link : \E i \in DOMAIN X[n] : X[n][i] \in Sent({a}) /\ X[n][i].offset = o
  BY DEF Filled
<1>1. PICK n \in Link : \E i \in DOMAIN W[n] : W[n][i] \in Sent({a}) /\ W[n][i].offset = o
  BY DEF Filled
<1>2. \E j \in DOMAIN X[n] : X[n][j] \in Sent({a}) /\ X[n][j].offset = o
  BY <1>1 DEF Keeps
<1> QED BY <1>1, <1>2

LEMMA StaysGapless ==
  ASSUME NEW a, NEW M, NEW L, NEW d, Still(M, L, d, {a}),
         NEW X, NEW W, After(X, W, Sent({a})), Keeps(X, W, Sent({a})),
         NEW p, Gapless(L, W, d, a, p)
  PROVE  Gapless(M, X, d, a, p)
<1>1. \A n \in Link : \A i \in DOMAIN X[n] :
        X[n][i] \in Sent({a}) => Filled(X, a, p, X[n][i].offset)
  BY StaysFilled DEF After, Gapless
<1>2. \A k \in Served(M, d, {a}) : Filled(X, a, p, M[k].off)
  BY StaysFilled DEF Still, Moved, Gapless
<1> QED BY <1>1, <1>2 DEF Gapless

LEMMA StaysNothing ==
  ASSUME NEW A, A \subseteq Nat, NEW M, NEW L, NEW d, Among(M, L, d),
         NEW V, NEW Q, After(V, Q, Asks(A)), NEW X, NEW W, After(X, W, Sent(A)),
         Nothing(L, Q, W, d, A)
  PROVE  Nothing(M, V, X, d, A)
BY AmongServed, StaysFree DEF Nothing

LEMMA StaysOneGen ==
  ASSUME NEW M, NEW L, NEW d, Among(M, L, d), NEW g, OneGen(L, d, g)
  PROVE  OneGen(M, d, g)
BY DEF OneGen, Among

\* A loop that goes away may take _serveGen with it.
LEMMA StaysBeside ==
  ASSUME NEW a \in Nat, NEW M, NEW L, NEW d, Among(M, L, d),
         NEW V, NEW Q, V \in [Link -> Seq(Envelope)], After(V, Q, Fetches),
         NEW X, NEW W, After(X, W, Sent({a})),
         NEW g, NEW newest, Beside(L, Q, W, d, a, g, newest),
         NEW b, \/ b = g
                \/ Served(M, d, {a}) = {} /\ (Free(Q, Asks({a})) \/ Served(M, d, Nat \ {a}) = {})
  PROVE  Beside(M, V, X, d, a, b, newest)
<1>1. \A n \in Link : \A i \in DOMAIN X[n] : X[n][i] \in Sent({a}) => n = newest
  BY DEF After, Beside
<1>2. PICK h \in [Link -> Nat] : \A n \in Link : \A i \in DOMAIN V[n] : V[n][i] \in Fetches =>
            i + h[n] \in DOMAIN Q[n] /\ Q[n][i + h[n]] = V[n][i]
  BY DEF After
<1>3. ASSUME NEW n \in Link, NEW m \in Link, NEW i \in DOMAIN V[n], NEW j \in DOMAIN V[m],
             V[n][i] \in Asks(Nat \ {a}), V[m][j] \in Asks({a})
      PROVE  n = m /\ i < j
  <2>0. /\ i + h[n] \in DOMAIN Q[n] /\ Q[n][i + h[n]] = V[n][i]
        /\ j + h[m] \in DOMAIN Q[m] /\ Q[m][j + h[m]] = V[m][j]
    BY <1>2, <1>3 DEF Asks
  <2>1. n = m /\ i + h[n] < j + h[m]
    BY <1>3, <2>0 DEF Beside
  <2>2. i \in Nat /\ j \in Nat /\ h[n] \in Nat
    OBVIOUS
  <2> QED BY <2>1, <2>2
<1>4. /\ Free(Q, Asks({a})) => Free(V, Asks({a}))
      /\ Free(Q, Asks(Nat \ {a})) => Free(V, Asks(Nat \ {a}))
  <2>1. Asks({a}) \subseteq Fetches /\ Asks(Nat \ {a}) \subseteq Fetches
    BY DEF Asks
  <2> QED BY <2>1, StaysFree, AfterLess
<1>5. Served(M, d, {a}) \subseteq Served(L, d, {a}) /\ Served(M, d, Nat \ {a}) \subseteq Served(L, d, Nat \ {a})
  BY AmongServed
<1>6. \A k \in Served(M, d, {a}) \cup Served(M, d, Nat \ {a}) : M[k].gen = L[k].gen
  BY DEF Among, Served
<1>7. Served(M, d, {a}) = {} \/ Free(V, Asks(Nat \ {a}))
  BY <1>4, <1>5 DEF Beside
<1>8. \A k \in Served(M, d, {a}) : M[k].gen = b /\ \A j \in Served(M, d, Nat \ {a}) : M[j].gen # b
  BY <1>5, <1>6 DEF Beside
<1>9. Free(V, Asks({a})) \/ \A j \in Served(M, d, Nat \ {a}) : M[j].gen = b
  BY <1>4, <1>5, <1>6 DEF Beside
<1> QED BY <1>1, <1>3, <1>7, <1>8, <1>9 DEF Beside

-----------------------------------------------------------------------------
(* What is put on a link, and taken off. *)

\* what is under way from one device to another
Lines == [Link -> Seq(Envelope)]

Added(V, W, n, env) == \A m \in Link : V[m] = IF m = n THEN Append(W[m], env) ELSE W[m]
Cut(V, W, n)        == \A m \in Link : V[m] = IF m = n THEN Tail(W[m]) ELSE W[m]

LEMMA AddedIs ==
  ASSUME NEW W \in Lines, NEW n \in Link, NEW env, NEW V, Added(V, W, n, env)
  PROVE  /\ \A m \in Link : \A i \in DOMAIN W[m] : i \in DOMAIN V[m] /\ V[m][i] = W[m][i]
         /\ \A m \in Link : \A i \in DOMAIN V[m] :
              \/ i \in DOMAIN W[m] /\ V[m][i] = W[m][i]
              \/ m = n /\ V[m][i] = env /\ \A j \in DOMAIN W[m] : j < i
         /\ \E i \in DOMAIN V[n] : V[n][i] = env
         /\ \A m \in Link : /\ Len(W[m]) \in Nat /\ DOMAIN W[m] = 1 .. Len(W[m])
                           /\ DOMAIN V[m] \subseteq 1 .. Len(W[m]) + 1
<1> SUFFICES ASSUME NEW m \in Link
             PROVE  /\ \A i \in DOMAIN W[m] : i \in DOMAIN V[m] /\ V[m][i] = W[m][i]
                    /\ \A i \in DOMAIN V[m] :
                         \/ i \in DOMAIN W[m] /\ V[m][i] = W[m][i]
                         \/ m = n /\ V[m][i] = env /\ \A j \in DOMAIN W[m] : j < i
                    /\ m = n => \E i \in DOMAIN V[m] : V[m][i] = env
                    /\ Len(W[m]) \in Nat /\ DOMAIN W[m] = 1 .. Len(W[m])
                    /\ DOMAIN V[m] \subseteq 1 .. Len(W[m]) + 1
  OBVIOUS
<1>1. CASE m # n
  BY <1>1 DEF Added, Lines
<1>2. CASE m = n
  <2>1. V[m] = Append(W[m], env) /\ W[m] \in Seq(Envelope)
    BY <1>2 DEF Added, Lines
  <2>2. DOMAIN V[m] = 1 .. Len(W[m]) + 1 /\ DOMAIN W[m] = 1 .. Len(W[m]) /\ Len(W[m]) \in Nat
    BY <2>1
  <2>3. (\A i \in 1 .. Len(W[m]) : V[m][i] = W[m][i]) /\ V[m][Len(W[m]) + 1] = env
    BY <2>1
  <2> QED BY <1>2, <2>2, <2>3
<1> QED BY <1>1, <1>2

LEMMA AddedAfter ==
  ASSUME NEW W \in Lines, NEW n \in Link, NEW env, NEW V, Added(V, W, n, env)
  PROVE  /\ \A S : env \notin S => After(V, W, S)
         /\ \A S : Keeps(V, W, S)
<1> DEFINE h == [m \in Link |-> 0]
<1>1. h \in [Link -> Nat] /\ \A m \in Link : h[m] = 0
  OBVIOUS
<1>2. \A m \in Link : \A i \in DOMAIN W[m] : i + h[m] = i
  BY DEF Lines
<1> HIDE DEF h
<1>3. ASSUME NEW S, env \notin S PROVE After(V, W, S)
  BY <1>1, <1>2, <1>3, AddedIs DEF After
<1>4. \A S : Keeps(V, W, S)
  BY AddedIs DEF Keeps
<1> QED BY <1>3, <1>4

LEMMA CutIs ==
  ASSUME NEW W \in Lines, NEW n \in Link, W[n] # <<>>, NEW V, Cut(V, W, n)
  PROVE  /\ Head(W[n]) = W[n][1] /\ 1 \in DOMAIN W[n]
         /\ \A m \in Link : \A i \in DOMAIN V[m] :
              LET j == i + (IF m = n THEN 1 ELSE 0)
              IN  j \in DOMAIN W[m] /\ W[m][j] = V[m][i]
         /\ \A m \in Link : \A j \in DOMAIN W[m] :
              \/ m = n /\ j = 1
              \/ \E i \in DOMAIN V[m] : V[m][i] = W[m][j]
<1>1. W[n] \in Seq(Envelope) /\ Len(W[n]) \in Nat /\ Len(W[n]) > 0
  BY DEF Lines
<1>2. /\ Len(Tail(W[n])) = Len(W[n]) - 1 /\ Tail(W[n]) \in Seq(Envelope)
      /\ \A i \in 1 .. Len(W[n]) - 1 : Tail(W[n])[i] = W[n][i + 1]
  BY <1>1, HeadTailProperties
<1>3. DOMAIN Tail(W[n]) = 1 .. Len(W[n]) - 1 /\ DOMAIN W[n] = 1 .. Len(W[n])
  BY <1>1, <1>2
<1>4. \A i \in DOMAIN Tail(W[n]) : i + 1 \in DOMAIN W[n] /\ W[n][i + 1] = Tail(W[n])[i]
  BY <1>1, <1>2, <1>3
<1>5. ASSUME NEW j \in DOMAIN W[n], j # 1 PROVE \E i \in DOMAIN Tail(W[n]) : Tail(W[n])[i] = W[n][j]
  <2>1. j - 1 \in 1 .. Len(W[n]) - 1 /\ (j - 1) + 1 = j
    BY <1>1, <1>3, <1>5
  <2> QED BY <1>2, <1>3, <2>1
<1>6. ASSUME NEW m \in Link, m # n PROVE \A i \in DOMAIN W[m] : i + 0 = i
  BY DEF Lines
<1>7. Head(W[n]) = W[n][1] /\ 1 \in DOMAIN W[n]
  BY <1>1
<1>8. V[n] = Tail(W[n]) /\ \A m \in Link : m # n => V[m] = W[m]
  BY DEF Cut
<1>9. ASSUME NEW m \in Link, NEW i \in DOMAIN V[m]
      PROVE  LET j == i + (IF m = n THEN 1 ELSE 0) IN j \in DOMAIN W[m] /\ W[m][j] = V[m][i]
  <2>1. CASE m = n
    BY <1>4, <1>8, <1>9, <2>1
  <2>2. CASE m # n
    BY <1>6, <1>8, <1>9, <2>2
  <2> QED BY <2>1, <2>2
<1>10. ASSUME NEW m \in Link, NEW j \in DOMAIN W[m]
       PROVE  (m = n /\ j = 1) \/ \E i \in DOMAIN V[m] : V[m][i] = W[m][j]
  BY <1>5, <1>8
<1> QED BY <1>7, <1>9, <1>10

LEMMA CutAfter ==
  ASSUME NEW W \in Lines, NEW n \in Link, W[n] # <<>>, NEW V, Cut(V, W, n)
  PROVE  /\ \A S : After(V, W, S)
         /\ \A S : Head(W[n]) \notin S => Keeps(V, W, S)
<1> DEFINE h == [m \in Link |-> IF m = n THEN 1 ELSE 0]
<1>1. h \in [Link -> Nat] /\ \A m \in Link : h[m] = IF m = n THEN 1 ELSE 0
  OBVIOUS
<1> HIDE DEF h
<1>2. \A m \in Link : \A i \in DOMAIN V[m] : i + h[m] \in DOMAIN W[m] /\ W[m][i + h[m]] = V[m][i]
  BY <1>1, CutIs
<1>3. \A S : After(V, W, S)
  BY <1>1, <1>2 DEF After
<1>4. ASSUME NEW S, Head(W[n]) \notin S PROVE Keeps(V, W, S)
  BY <1>4, CutIs DEF Keeps
<1> QED BY <1>3, <1>4

LEMMA AfterSame == ASSUME NEW W \in Lines, NEW S PROVE After(W, W, S) /\ Keeps(W, W, S)
<1> DEFINE h == [m \in Link |-> 0]
<1>1. h \in [Link -> Nat] /\ \A m \in Link : h[m] = 0
  OBVIOUS
<1>2. \A m \in Link : \A i \in DOMAIN W[m] : i + h[m] = i
  BY DEF Lines
<1> HIDE DEF h
<1> QED BY <1>1, <1>2 DEF After, Keeps

LEMMA AfterTwice ==
  ASSUME NEW W \in Lines, NEW V \in Lines, NEW U \in Lines, NEW S, After(V, W, S), After(U, V, S)
  PROVE  After(U, W, S)
<1>1. PICK g \in [Link -> Nat] : \A n \in Link : \A i \in DOMAIN V[n] : V[n][i] \in S =>
            i + g[n] \in DOMAIN W[n] /\ W[n][i + g[n]] = V[n][i]
  BY DEF After
<1>2. PICK h \in [Link -> Nat] : \A n \in Link : \A i \in DOMAIN U[n] : U[n][i] \in S =>
            i + h[n] \in DOMAIN V[n] /\ V[n][i + h[n]] = U[n][i]
  BY DEF After
<1> DEFINE f == [n \in Link |-> g[n] + h[n]]
<1>3. f \in [Link -> Nat] /\ \A n \in Link : f[n] = g[n] + h[n]
  OBVIOUS
<1> HIDE DEF f
<1>4. ASSUME NEW n \in Link, NEW i \in DOMAIN U[n], U[n][i] \in S
      PROVE  i + f[n] \in DOMAIN W[n] /\ W[n][i + f[n]] = U[n][i]
  <2>1. i + h[n] \in DOMAIN V[n] /\ V[n][i + h[n]] = U[n][i]
    BY <1>2, <1>4
  <2>2. (i + h[n]) + g[n] \in DOMAIN W[n] /\ W[n][(i + h[n]) + g[n]] = U[n][i]
    BY <1>1, <1>4, <2>1
  <2>3. (i + h[n]) + g[n] = i + f[n]
    BY <1>3 DEF Lines
  <2> QED BY <2>2, <2>3
<1> QED BY <1>3, <1>4 DEF After

-----------------------------------------------------------------------------
(* A stream begins, grows and ends. *)

LEMMA NothingFlows ==
  ASSUME NEW a, NEW L, NEW Q, NEW W, NEW d, NEW p, Nothing(L, Q, W, d, {a})
  PROVE  Flow(L, Q, W, d, a, p) /\ Gapless(L, W, d, a, p)
BY DEF Nothing, Flow, Gapless, Lone, OneAsk, Streamed, Free

LEMMA Requested ==
  ASSUME NEW a \in Nat, NEW L, NEW Q \in Lines, NEW W, NEW d, NEW p, Nothing(L, Q, W, d, {a}),
         NEW n \in Link, NEW f \in Asks({a}), f.offset = p, NEW V, Added(V, Q, n, f)
  PROVE  Flow(L, V, W, d, a, p) /\ Gapless(L, W, d, a, p)
<1>1. \A m \in Link : \A i \in DOMAIN V[m] :
        V[m][i] \in Asks({a}) => m = n /\ V[m][i] = f /\ \A j \in DOMAIN Q[m] : j < i
  BY AddedIs DEF Nothing, Free
<1>2. \A m \in Link : \A i \in DOMAIN V[m] : i \in DOMAIN Q[m] \/ i = Len(Q[m]) + 1
  BY AddedIs
<1>3. OneAsk(V, {a})
  <2> SUFFICES ASSUME NEW m \in Link, NEW o \in Link, NEW i \in DOMAIN V[m], NEW j \in DOMAIN V[o],
                      V[m][i] \in Asks({a}), V[o][j] \in Asks({a})
               PROVE  m = o /\ i = j
    BY DEF OneAsk
  <2>1. m = n /\ o = n /\ (\A x \in DOMAIN Q[n] : x < i) /\ (\A x \in DOMAIN Q[n] : x < j)
    BY <1>1
  <2>2. DOMAIN Q[n] \subseteq Nat
    BY DEF Lines
  <2>3. i \notin DOMAIN Q[n] /\ j \notin DOMAIN Q[n]
    BY <2>1, <2>2
  <2> QED BY <1>2, <2>1, <2>3
<1>4. Served(L, d, {a}) = {} /\ Free(W, Sent({a}))
  BY DEF Nothing
<1>5. Streamed(W, a, p) /\ Gapless(L, W, d, a, p)
  BY <1>4 DEF Streamed, Gapless, Free
<1> QED BY <1>1, <1>3, <1>4, <1>5 DEF Flow, Lone

\* the requests there were are before the new one
LEMMA RequestedBeside ==
  ASSUME NEW a \in Nat, NEW L, NEW Q \in Lines, NEW W, NEW d, Nothing(L, Q, W, d, {a}),
         NEW n \in Link, NEW f \in Asks({a}), NEW V, Added(V, Q, n, f),
         \A m \in Link : \A i \in DOMAIN Q[m] : Q[m][i] \in Fetches => m = n,
         NEW g, OneGen(L, d, g)
  PROVE  Beside(L, V, W, d, a, g, n)
<1>1. Served(L, d, {a}) = {} /\ Free(W, Sent({a}))
  BY DEF Nothing
<1>2. \A m \in Link : \A i \in DOMAIN V[m] :
        V[m][i] \in Asks({a}) => m = n /\ \A j \in DOMAIN Q[m] : j < i
  BY AddedIs DEF Nothing, Free
<1>3. \A m \in Link : \A i \in DOMAIN V[m] :
        V[m][i] \in Asks(Nat \ {a}) => m = n /\ i \in DOMAIN Q[m]
  BY AddedIs DEF Asks
<1>4. \A j \in Served(L, d, Nat \ {a}) : L[j].gen = g
  BY DEF OneGen, Served
<1> QED BY <1>1, <1>2, <1>3, <1>4 DEF Beside, Free

\* The loops in M are those of L, and k, which is l.
Joined(M, L, d, k, l) ==
  \A j \in Served(M, d, Nat) :
    \/ j = k /\ M[j] = l
    \/ /\ j \in Served(L, d, Nat) /\ M[j].attempt = L[j].attempt /\ M[j].gen = L[j].gen
       /\ Moved(M[j], L[j])

LEMMA AnsweredLone ==
  ASSUME NEW A, A \subseteq Nat, NEW L, NEW Q \in Lines, NEW d, Lone(L, Q, d, A),
         NEW n \in Link, Q[n] # <<>>, NEW V \in Lines, Cut(V, Q, n), Head(Q[n]) \in Fetches,
         NEW M, NEW k, NEW l, l.attempt = Head(Q[n]).attempt, Joined(M, L, d, k, l)
  PROVE  /\ Lone(M, V, d, A)
         /\ Head(Q[n]) \in Asks(A) => Served(M, d, A) \subseteq {k} /\ Free(V, Asks(A))
         /\ Head(Q[n]) \notin Asks(A) => Still(M, L, d, A)
<1>1. CASE Head(Q[n]) \in Asks(A)
  <2>1. Served(L, d, A) = {}
    BY <1>1, CutIs DEF Lone, Free
  <2>2. Served(M, d, A) \subseteq {k}
    BY <2>1 DEF Joined, Served
  <2>3. ASSUME NEW m \in Link, NEW i \in DOMAIN V[m], V[m][i] \in Asks(A) PROVE FALSE
    <3>1. Q[n][1] \in Asks(A) /\ 1 \in DOMAIN Q[n]
      BY <1>1, CutIs
    <3> DEFINE j == i + (IF m = n THEN 1 ELSE 0)
    <3>2. j \in DOMAIN Q[m] /\ Q[m][j] = V[m][i]
      BY CutIs
    <3>3. m = n /\ j = 1
      <4> HIDE DEF j
      <4> QED BY <2>3, <3>1, <3>2 DEF Lone, OneAsk
    <3>4. i \in Nat /\ i >= 1
      BY DEF Lines
    <3> QED BY <3>3, <3>4
  <2>4. Free(V, Asks(A))
    BY <2>3 DEF Free
  <2> QED BY <1>1, <2>2, <2>4 DEF Lone, OneAsk, Free
<1>2. CASE Head(Q[n]) \notin Asks(A)
  <2>1. l.attempt \notin A
    BY <1>2 DEF Asks
  <2>2. Still(M, L, d, A)
    BY <2>1 DEF Joined, Still, Served
  <2>3. After(V, Q, Asks(A))
    BY CutAfter
  <2>4. Lone(M, V, d, A)
    BY <2>2, <2>3, StaysLone DEF Still, Lines
  <2> QED BY <1>2, <2>2, <2>4
<1> QED BY <1>1, <1>2

LEMMA AnsweredFlow ==
  ASSUME NEW a \in Nat, NEW L, NEW Q \in Lines, NEW W \in Lines, NEW d, NEW p, Flow(L, Q, W, d, a, p),
         NEW n \in Link, Q[n] # <<>>, NEW V \in Lines, Cut(V, Q, n), Head(Q[n]) \in Fetches,
         NEW M, NEW k, NEW l, l.attempt = Head(Q[n]).attempt, l.off = Head(Q[n]).offset,
         l.at = "open", Joined(M, L, d, k, l), p \in Nat
  PROVE  /\ Flow(M, V, W, d, a, p)
         /\ Gapless(L, W, d, a, p) => Gapless(M, W, d, a, p)
<1>0. {a} \subseteq Nat /\ Lone(L, Q, d, {a})
  BY DEF Flow
<1>1. /\ Lone(M, V, d, {a})
      /\ Head(Q[n]) \in Asks({a}) => Served(M, d, {a}) \subseteq {k} /\ Free(V, Asks({a}))
      /\ Head(Q[n]) \notin Asks({a}) => Still(M, L, d, {a})
  BY <1>0, AnsweredLone
<1>2. CASE Head(Q[n]) \in Asks({a})
  <2>1. Head(Q[n]) = Q[n][1] /\ 1 \in DOMAIN Q[n]
    BY CutIs
  <2>2. ~Free(Q, Asks({a}))
    BY <1>2, <2>1 DEF Free
  <2>3. Served(L, d, {a}) = {} /\ Free(W, Sent({a})) /\ l.off = p
    BY <1>0, <1>2, <2>1, <2>2 DEF Flow, Lone
  <2>4. \A j \in Served(M, d, {a}) : M[j] = l
    BY <2>3 DEF Joined, Served
  <2>5. Serving(l, W, a, p)
    <3>1. \A m \in Link : \A i \in DOMAIN W[m] : W[m][i] \in Sent({a}) => W[m][i].offset < l.off
      BY <2>3 DEF Free
    <3>2. l.off >= p
      BY <2>3
    <3> QED BY <2>3, <3>1, <3>2 DEF Serving
  <2>6. Filled(W, a, p, p)
    BY DEF Filled
  <2>7. Gapless(M, W, d, a, p)
    BY <2>3, <2>4, <2>6 DEF Gapless, Free
  <2>8. Free(V, Asks({a}))
    BY <1>1, <1>2
  <2>9. \A i \in Link : \A j \in DOMAIN V[i] : V[i][j] \in Asks({a}) => V[i][j].offset = p
    BY <2>8 DEF Free
  <2> QED BY <1>1, <2>3, <2>4, <2>5, <2>7, <2>8, <2>9 DEF Flow
<1>3. CASE Head(Q[n]) \notin Asks({a})
  <2>1. Still(M, L, d, {a})
    BY <1>1, <1>3
  <2>2. After(V, Q, Asks({a})) /\ After(W, W, Sent({a})) /\ Keeps(W, W, Sent({a}))
    BY CutAfter, AfterSame
  <2> QED BY <2>1, <2>2, StaysFlow, StaysGapless DEF Lines
<1> QED BY <1>2, <1>3

LEMMA AnsweredBeside ==
  ASSUME NEW a \in Nat, NEW L, NEW Q \in Lines, NEW W, NEW d, Lone(L, Q, d, {a}),
         Lone(L, Q, d, Nat \ {a}), NEW g \in Nat, NEW newest, Beside(L, Q, W, d, a, g, newest),
         NEW n \in Link, Q[n] # <<>>, NEW V \in Lines, Cut(V, Q, n), Head(Q[n]) \in Fetches,
         NEW M, NEW k, NEW l, l.attempt = Head(Q[n]).attempt, l.gen = g + 1, Joined(M, L, d, k, l)
  PROVE  Beside(M, V, W, d, a, g + 1, newest)
<1>1. Head(Q[n]) = Q[n][1] /\ 1 \in DOMAIN Q[n] /\ \A i \in DOMAIN Q[n] : i \in Nat /\ i >= 1
  BY CutIs DEF Lines
<1>2. /\ Head(Q[n]) \in Asks({a}) => ~Free(Q, Asks({a}))
      /\ Head(Q[n]) \in Asks(Nat \ {a}) => ~Free(Q, Asks(Nat \ {a}))
  BY <1>1 DEF Free
<1>3. ASSUME NEW A \in {{a}, Nat \ {a}}
      PROVE  /\ Head(Q[n]) \in Asks(A) => Served(M, d, A) \subseteq {k} /\ Free(V, Asks(A))
             /\ Head(Q[n]) \notin Asks(A) => Still(M, L, d, A)
  <2>1. A \subseteq Nat /\ Lone(L, Q, d, A)
    OBVIOUS
  <2> QED BY <2>1, AnsweredLone
<1>4. CASE Head(Q[n]) \in Asks({a})
  <2>1. Head(Q[n]) \notin Asks(Nat \ {a}) /\ l.attempt = a
    BY <1>4 DEF Asks
  <2>2. Served(L, d, {a}) = {} /\ \A j \in Served(L, d, Nat \ {a}) : L[j].gen = g
    BY <1>2, <1>4 DEF Lone, Beside
  <2>3. Free(Q, Asks(Nat \ {a}))
    <3> SUFFICES ASSUME NEW m \in Link, NEW i \in DOMAIN Q[m], Q[m][i] \in Asks(Nat \ {a})
                 PROVE  FALSE
      BY DEF Free
    <3>1. m = n /\ i < 1
      BY <1>1, <1>4 DEF Beside
    <3> QED BY <1>1, <3>1
  <2>4. After(V, Q, Asks(Nat \ {a}))
    BY CutAfter
  <2>5. Free(V, Asks(Nat \ {a})) /\ Free(V, Asks({a}))
    BY <1>3, <1>4, <2>3, <2>4, StaysFree
  <2>6. \A j \in Served(M, d, {a}) : M[j] = l
    BY <2>2 DEF Joined, Served
  <2>7. \A j \in Served(M, d, Nat \ {a}) : M[j].gen = g
    BY <2>1, <2>2 DEF Joined, Served
  <2>8. \A i, m \in Link : \A x \in DOMAIN V[i], y \in DOMAIN V[m] :
          V[i][x] \in Asks(Nat \ {a}) /\ V[m][y] \in Asks({a}) => i = m /\ x < y
    BY <2>5 DEF Free
  <2>9. \A i \in Link : \A x \in DOMAIN W[i] : W[i][x] \in Sent({a}) => i = newest
    BY DEF Beside
  <2>10. g + 1 # g
    OBVIOUS
  <2> QED BY <2>5, <2>6, <2>7, <2>8, <2>9, <2>10 DEF Beside
<1>5. CASE Head(Q[n]) \notin Asks({a})
  <2>1. Head(Q[n]) \in Asks(Nat \ {a})
    BY <1>5 DEF Asks, Fetches
  <2>2. Served(L, d, {a}) = {} /\ Served(L, d, Nat \ {a}) = {}
    BY <1>2, <2>1 DEF Lone, Beside
  <2>3. Free(V, Asks(Nat \ {a})) /\ Served(M, d, {a}) = {}
    BY <1>3, <1>5, <2>1, <2>2 DEF Still
  <2>4. \A j \in Served(M, d, Nat \ {a}) : M[j] = l
    BY <2>2 DEF Joined, Served
  <2>5. \A i, m \in Link : \A x \in DOMAIN V[i], y \in DOMAIN V[m] :
          V[i][x] \in Asks(Nat \ {a}) /\ V[m][y] \in Asks({a}) => i = m /\ x < y
    BY <2>3 DEF Free
  <2>6. \A i \in Link : \A x \in DOMAIN W[i] : W[i][x] \in Sent({a}) => i = newest
    BY DEF Beside
  <2> QED BY <2>3, <2>4, <2>5, <2>6 DEF Beside
<1> QED BY <1>4, <1>5

\* No frame of S is on a newer link than n.
Upmost(W, n, S) == \A m \in Link : \A i \in DOMAIN W[m] : W[m][i] \in S => m <= n

\* The loops for attempt a have sent the frame of place q.
Past(M, d, a, q) ==
  \A j \in Served(M, d, {a}) : M[j].at # "open" /\ M[j].off = q + 1 /\ M[j].off < Chunks

\* A loop reads and sends, or sends the empty frame of a pull from the end of the file.
LEMMA SendsFlow ==
  ASSUME NEW a \in Nat, NEW L, NEW Q, NEW W \in Lines, NEW d, NEW p \in Nat, Flow(L, Q, W, d, a, p),
         NEW k \in Served(L, d, {a}), NEW f \in Sent({a}), f.offset = L[k].off, Proper(f, p),
         NEW n \in Link, NEW X, Added(X, W, n, f),
         Upmost(W, n, Sent({a})),
         NEW M, Served(M, d, {a}) \subseteq Served(L, d, {a}), Past(M, d, a, f.offset)
  PROVE  /\ Flow(M, Q, X, d, a, p)
         /\ Gapless(L, W, d, a, p) => Gapless(M, X, d, a, p)
<1>1. Free(Q, Asks({a})) /\ Serving(L[k], W, a, p)
  BY DEF Flow, Lone
<1>2. \A m \in Link : \A i \in DOMAIN X[m] : X[m][i] \in Sent({a}) =>
        \/ i \in DOMAIN W[m] /\ X[m][i] = W[m][i] /\ X[m][i].offset < f.offset
        \/ m = n /\ X[m][i] = f /\ \A j \in DOMAIN W[m] : j < i
  <2>1. \A m \in Link : \A i \in DOMAIN W[m] : W[m][i] \in Sent({a}) => W[m][i].offset < f.offset
    BY <1>1 DEF Serving
  <2> SUFFICES ASSUME NEW m \in Link, NEW i \in DOMAIN X[m], X[m][i] \in Sent({a})
               PROVE  \/ i \in DOMAIN W[m] /\ X[m][i] = W[m][i] /\ X[m][i].offset < f.offset
                      \/ m = n /\ X[m][i] = f /\ \A j \in DOMAIN W[m] : j < i
    OBVIOUS
  <2>2. \/ i \in DOMAIN W[m] /\ X[m][i] = W[m][i]
        \/ m = n /\ X[m][i] = f /\ \A j \in DOMAIN W[m] : j < i
    BY AddedIs
  <2> QED BY <2>1, <2>2
<1>3. f.offset \in Nat /\ \A x \in Sent({a}) : x.offset \in Nat
  BY DEF Sent, Frames
<1>4. Streamed(X, a, p)
  <2>1. \A m \in Link : \A i \in DOMAIN X[m] : X[m][i] \in Sent({a}) => Proper(X[m][i], p)
    BY <1>2 DEF Flow, Streamed
  <2>2. ASSUME NEW m \in Link, NEW o \in Link, NEW i \in DOMAIN X[m], NEW j \in DOMAIN X[o],
               X[m][i] \in Sent({a}), X[o][j] \in Sent({a}), m < o \/ (m = o /\ i < j)
        PROVE  X[m][i].offset < X[o][j].offset
    <3>1. CASE j \in DOMAIN W[o] /\ X[o][j] = W[o][j]
      <4>1. ~(m = n /\ X[m][i] = f /\ \A x \in DOMAIN W[m] : x < i)
        <5> SUFFICES ASSUME m = n, \A x \in DOMAIN W[m] : x < i PROVE FALSE
          OBVIOUS
        <5>1. o <= n
          BY <2>2, <3>1 DEF Upmost
        <5>2. o = m /\ j < i
          BY <2>2, <3>1, <5>1 DEF Link
        <5>3. i \in Nat /\ j \in Nat
          <6>1. DOMAIN W[o] = 1 .. Len(W[o]) /\ DOMAIN X[m] \subseteq 1 .. Len(W[m]) + 1
            BY AddedIs
          <6> QED BY <3>1, <6>1
        <5>4. m \in Int /\ i < j
          BY <2>2, <5>2 DEF Link
        <5> QED BY <5>2, <5>3, <5>4
      <4>2. i \in DOMAIN W[m] /\ X[m][i] = W[m][i]
        BY <1>2, <2>2, <4>1
      <4> QED BY <2>2, <3>1, <4>2 DEF Flow, Streamed
    <3>2. CASE o = n /\ X[o][j] = f /\ \A x \in DOMAIN W[o] : x < j
      <4>1. ~(m = n /\ X[m][i] = f /\ \A x \in DOMAIN W[m] : x < i)
        <5> SUFFICES ASSUME m = n, \A x \in DOMAIN W[m] : x < i PROVE FALSE
          OBVIOUS
        <5>1. m = n /\ o = n
          BY <3>2
        <5>2. /\ i \in 1 .. Len(W[n]) + 1 /\ j \in 1 .. Len(W[n]) + 1
              /\ Len(W[n]) \in Nat /\ DOMAIN W[n] = 1 .. Len(W[n])
          BY <5>1, AddedIs
        <5>3. i < j
          BY <2>2, <3>2 DEF Link
        <5>4. i \in DOMAIN W[n]
          BY <5>2, <5>3
        <5> QED BY <5>2, <5>4
      <4>2. X[m][i].offset < f.offset
        BY <1>2, <2>2, <4>1
      <4> QED BY <3>2, <4>2
    <3> QED BY <1>2, <2>2, <3>1, <3>2
  <2> QED BY <2>1, <2>2 DEF Streamed
<1>5. \A j \in Served(M, d, {a}) : Serving(M[j], X, a, p)
  <2> SUFFICES ASSUME NEW j \in Served(M, d, {a}) PROVE Serving(M[j], X, a, p)
    OBVIOUS
  <2>1. ASSUME NEW m \in Link, NEW i \in DOMAIN X[m], X[m][i] \in Sent({a})
        PROVE  X[m][i].offset < f.offset + 1
    <3>1. X[m][i].offset < f.offset \/ X[m][i] = f
      BY <1>2, <2>1
    <3>2. X[m][i].offset \in Nat
      BY <1>3, <2>1
    <3> QED BY <1>3, <3>1, <3>2
  <2>2. f.offset + 1 >= p
    BY <1>3 DEF Proper
  <2> QED BY <2>1, <2>2 DEF Serving, Past
<1>6. Flow(M, Q, X, d, a, p)
  <2>1. Lone(M, Q, d, {a})
    BY DEF Flow, Lone
  <2> QED BY <1>1, <1>4, <1>5, <2>1 DEF Flow
<1>7. ASSUME Gapless(L, W, d, a, p) PROVE Gapless(M, X, d, a, p)
  <2>1. \A q : Filled(W, a, p, q) => Filled(X, a, p, q)
    BY AddedAfter, StaysFilled
  <2>2. Filled(X, a, p, f.offset)
    BY <1>7, <2>1 DEF Gapless
  <2>3. Filled(X, a, p, f.offset + 1)
    <3> SUFFICES ASSUME NEW o \in p .. f.offset
                 PROVE  \E m \in Link : \E i \in DOMAIN X[m] : X[m][i] \in Sent({a}) /\ X[m][i].offset = o
      <4>1. (f.offset + 1) - 1 = f.offset
        BY <1>3
      <4> QED BY <4>1 DEF Filled
    <3>1. CASE o = f.offset
      <4>1. \E i \in DOMAIN X[n] : X[n][i] = f
        BY AddedIs
      <4> QED BY <3>1, <4>1
    <3>2. CASE o # f.offset
      <4>1. o \in p .. f.offset - 1
        BY <1>3, <3>2
      <4> QED BY <2>2, <4>1 DEF Filled
    <3> QED BY <3>1, <3>2
  <2>4. \A m \in Link : \A i \in DOMAIN X[m] :
          X[m][i] \in Sent({a}) => Filled(X, a, p, X[m][i].offset)
    BY <1>2, <1>7, <2>1, <2>2 DEF Gapless
  <2> QED BY <2>3, <2>4 DEF Gapless, Past
<1> QED BY <1>6, <1>7

\* A loop has the file open, with nothing under way.
LEMMA OpensFlow ==
  ASSUME NEW a \in Nat, NEW L, NEW Q, NEW W, NEW d, NEW p, Flow(L, Q, W, d, a, p),
         NEW k, NEW M, Served(M, d, {a}) \subseteq Served(L, d, {a}),
         \A j \in Served(M, d, {a}) :
           \/ Moved(M[j], L[j])
           \/ j = k /\ L[j].at = "open" /\ M[j].off = L[j].off /\ M[j].at # "open" /\ M[j].off < Chunks
  PROVE  /\ Flow(M, Q, W, d, a, p)
         /\ Gapless(L, W, d, a, p) => Gapless(M, W, d, a, p)
<1>1. Lone(M, Q, d, {a})
  BY DEF Flow, Lone
<1>2. ASSUME NEW j \in Served(M, d, {a}) PROVE Serving(M[j], W, a, p) /\ M[j].off = L[j].off
  <2>1. Serving(L[j], W, a, p)
    BY DEF Flow
  <2>2. CASE Moved(M[j], L[j])
    BY <2>1, <2>2 DEF Serving, Moved
  <2>3. CASE j = k /\ L[j].at = "open" /\ M[j].off = L[j].off /\ M[j].at # "open" /\ M[j].off < Chunks
    BY <2>1, <2>3 DEF Serving
  <2> QED BY <2>2, <2>3
<1> QED BY <1>1, <1>2 DEF Flow, Gapless

\* what is of S is on link n
OnLink(W, n, S) == \A m \in Link : \A i \in DOMAIN W[m] : W[m][i] \in S => m = n

\* On one link, what is first is next.
LEMMA InOrder ==
  ASSUME NEW a \in Nat, NEW L, NEW Q, NEW W \in Lines, NEW d, NEW p \in Nat,
         Flow(L, Q, W, d, a, p), Gapless(L, W, d, a, p),
         NEW n \in Link, W[n] # <<>>, Head(W[n]) \in Sent({a}),
         OnLink(W, n, Sent({a}))
  PROVE  Head(W[n]).offset = p
<1> DEFINE f == W[n][1]
<1>1. Head(W[n]) = f /\ 1 \in DOMAIN W[n] /\ \A i \in DOMAIN W[n] : i \in Nat /\ (i = 1 \/ 1 < i)
  <2>1. W[n] \in Seq(Envelope)
    BY DEF Lines
  <2> QED BY <2>1
<1>2. f \in Sent({a}) /\ f.offset \in Nat /\ f.offset >= p
  <2>1. f \in Sent({a})
    BY <1>1
  <2> HIDE DEF f
  <2>2. f \in Frames
    BY <2>1 DEF Sent
  <2> QED BY <1>1, <2>1, <2>2 DEF Flow, Streamed, Proper, Frames, f
<1>3. ASSUME f.offset # p PROVE FALSE
  <2>1. p \in p .. f.offset - 1
    BY <1>2, <1>3
  <2>2. PICK m \in Link : \E i \in DOMAIN W[m] : W[m][i] \in Sent({a}) /\ W[m][i].offset = p
    <3>1. Filled(W, a, p, f.offset)
      BY <1>1, <1>2 DEF Gapless
    <3> HIDE DEF f
    <3> QED BY <2>1, <3>1 DEF Filled
  <2>3. PICK i \in DOMAIN W[n] : W[n][i] \in Sent({a}) /\ W[n][i].offset = p
    BY <2>2 DEF OnLink
  <2>4. 1 < i
    BY <1>1, <1>3, <2>3
  <2>5. f.offset < p
    BY <1>1, <1>2, <2>3, <2>4 DEF Flow, Streamed
  <2> QED BY <1>2, <2>5
<1> QED BY <1>1, <1>3

\* The frames but the first, which is next, are of later places.
LEMMA Behind ==
  ASSUME NEW a \in Nat, NEW L, NEW Q, NEW W \in Lines, NEW d, NEW p \in Nat,
         Flow(L, Q, W, d, a, p), NEW n \in Link, W[n] # <<>>, Head(W[n]) \in Sent({a}),
         Head(W[n]).offset = p, NEW V, Cut(V, W, n)
  PROVE  \A m \in Link : \A i \in DOMAIN V[m] : V[m][i] \in Sent({a}) =>
           V[m][i].offset >= p + 1 /\ V[m][i].offset < Chunks
<1> SUFFICES ASSUME NEW m \in Link, NEW i \in DOMAIN V[m], V[m][i] \in Sent({a})
             PROVE  V[m][i].offset >= p + 1 /\ V[m][i].offset < Chunks
  OBVIOUS
<1>1. Head(W[n]) = W[n][1] /\ 1 \in DOMAIN W[n]
  BY CutIs
<1> DEFINE j == i + (IF m = n THEN 1 ELSE 0)
<1>2. j \in DOMAIN W[m] /\ W[m][j] = V[m][i]
  BY CutIs
<1>3. V[m] \in Seq(Envelope) /\ i \in Nat /\ i >= 1
  <2>1. V[m] = W[m] \/ (m = n /\ V[m] = Tail(W[n]))
    BY DEF Cut
  <2>2. W[m] \in Seq(Envelope) /\ W[n] \in Seq(Envelope) /\ Tail(W[n]) \in Seq(Envelope)
    BY HeadTailProperties DEF Lines
  <2>3. V[m] \in Seq(Envelope)
    BY <2>1, <2>2
  <2> QED BY <2>3
<1>4. m = n => j > 1
  BY <1>3
<1> HIDE DEF j
<1>5. V[m][i].offset \in Nat /\ V[m][i].offset >= p
  BY <1>2 DEF Flow, Streamed, Proper, Sent, Frames
<1>6. V[m][i].offset # p
  <2>1. /\ W[n][1] \in Sent({a}) /\ W[n][1].offset = p /\ W[m][j] \in Sent({a})
        /\ W[m][j].offset = V[m][i].offset
    BY <1>1, <1>2
  <2>2. n < m \/ m < n \/ (n = m /\ 1 < j)
    <3>1. n \in Int /\ m \in Int
      BY DEF Link
    <3> QED BY <1>4, <3>1
  <2>3. W[n][1].offset < W[m][j].offset \/ W[m][j].offset < W[n][1].offset
    BY <1>1, <1>2, <2>1, <2>2 DEF Flow, Streamed
  <2>4. p < V[m][i].offset \/ V[m][i].offset < p
    BY <2>1, <2>3
  <2> QED BY <1>5, <2>4
<1>7. V[m][i].offset < Chunks \/ V[m][i].offset = p
  <2>1. Proper(V[m][i], p)
    BY <1>2 DEF Flow, Streamed
  <2> QED BY <2>1 DEF Proper
<1> QED BY <1>5, <1>6, <1>7

\* What a frame leaves behind on the wire W, V without it: nothing, or the stream from the
\* next place on.
Received(L, R, W, V, n, d, a, p) ==
  LET env == Head(W[n])
  IN /\ env.last => /\ Nothing(L, R, V, d, {a})
                    /\ p + Len(env.data) = (IF p < Chunks THEN Chunks ELSE p)
     /\ ~env.last => /\ Len(env.data) = 1
                     /\ Flow(L, R, V, d, a, p + 1)
                     /\ Gapless(L, W, d, a, p) => Gapless(L, V, d, a, p + 1)

\* places are numbers
Offsets(L) == \A k \in DOMAIN L : L[k].off \in Nat

LEMMA ReceivedFlow ==
  ASSUME NEW a \in Nat, NEW L, Offsets(L), NEW Q, NEW W \in Lines, NEW d, NEW p \in Nat,
         Flow(L, Q, W, d, a, p), NEW n \in Link, W[n] # <<>>, Head(W[n]) \in Sent({a}),
         Head(W[n]).offset = p, NEW V, Cut(V, W, n), V \in Lines,
         NEW R, After(R, Q, Asks({a}))
  PROVE  Received(L, R, W, V, n, d, a, p)
<1> DEFINE f == W[n][1]
<1>1. Head(W[n]) = f /\ 1 \in DOMAIN W[n] /\ f \in Sent({a}) /\ f.offset = p
  BY CutIs
<1>2. Proper(f, p) /\ ~Free(W, Sent({a}))
  BY <1>1 DEF Flow, Streamed, Free
<1>3. Free(Q, Asks({a})) /\ Free(R, Asks({a}))
  BY <1>2, StaysFree DEF Flow
<1>4. \A k \in Served(L, d, {a}) : L[k].off \in Nat /\ L[k].off >= p + 1 /\ L[k].at # "open" /\ L[k].off < Chunks
  <2> SUFFICES ASSUME NEW k \in Served(L, d, {a})
               PROVE  L[k].off \in Nat /\ L[k].off >= p + 1 /\ L[k].at # "open" /\ L[k].off < Chunks
    OBVIOUS
  <2>1. Serving(L[k], W, a, p) /\ L[k].off \in Nat
    BY DEF Flow, Served, Offsets
  <2>2. L[k].at # "open" /\ p < L[k].off /\ L[k].off < Chunks
    BY <1>1, <1>2, <2>1 DEF Serving
  <2> QED BY <2>1, <2>2
<1>5. \A m \in Link : \A i \in DOMAIN V[m] : V[m][i] \in Sent({a}) =>
        V[m][i].offset >= p + 1 /\ V[m][i].offset < Chunks
  BY Behind
<1>6. After(V, W, Sent({a}))
  BY CutAfter
<1>7. Chunks \in Nat
  BY TransferAssumption
<1>8. ASSUME f.last
      PROVE  Nothing(L, R, V, d, {a}) /\ p + Len(f.data) = (IF p < Chunks THEN Chunks ELSE p)
  <2>1. p + 1 >= Chunks /\ Len(f.data) = IF p < Chunks THEN 1 ELSE 0
    BY <1>1, <1>2, <1>8 DEF Proper
  <2>0. ~\E o \in Nat : o >= p + 1 /\ o < Chunks
    BY <1>7, <2>1
  <2>2. Served(L, d, {a}) = {}
    BY <1>4, <2>0
  <2>3. Free(V, Sent({a}))
    <3> SUFFICES ASSUME NEW m \in Link, NEW i \in DOMAIN V[m], V[m][i] \in Sent({a}) PROVE FALSE
      BY DEF Free
    <3>1. V[m][i].offset >= p + 1 /\ V[m][i].offset < Chunks /\ V[m][i].offset \in Nat
      BY <1>5 DEF Sent, Frames
    <3> QED BY <2>0, <3>1
  <2>4. p + Len(f.data) = (IF p < Chunks THEN Chunks ELSE p)
    <3>1. CASE p < Chunks
      <4>1. p + 1 = Chunks
        BY <1>7, <2>1, <3>1
      <4> QED BY <2>1, <3>1, <4>1
    <3>2. CASE ~(p < Chunks)
      BY <2>1, <3>2
    <3> QED BY <3>1, <3>2
  <2> QED BY <1>3, <2>2, <2>3, <2>4 DEF Nothing
<1>9. ASSUME ~f.last
      PROVE  /\ Len(f.data) = 1 /\ Flow(L, R, V, d, a, p + 1)
             /\ Gapless(L, W, d, a, p) => Gapless(L, V, d, a, p + 1)
  <2>1. Len(f.data) = 1
    BY <1>1, <1>2, <1>7, <1>9 DEF Proper
  <2>2. Streamed(V, a, p + 1)
    <3>1. Streamed(V, a, p)
      BY <1>6, StaysStreamed DEF Flow, Lines
    <3>2. \A m \in Link : \A i \in DOMAIN V[m] : V[m][i] \in Sent({a}) => Proper(V[m][i], p + 1)
      BY <1>5, <3>1 DEF Streamed, Proper
    <3> QED BY <3>1, <3>2 DEF Streamed
  <2>3. ASSUME NEW k \in Served(L, d, {a}) PROVE Serving(L[k], V, a, p + 1)
    <3>1. \A m \in Link : \A i \in DOMAIN V[m] : V[m][i] \in Sent({a}) => V[m][i].offset < L[k].off
      BY <1>6 DEF Flow, Serving, After
    <3> QED BY <1>4, <3>1 DEF Serving
  <2>4. Lone(L, R, d, {a})
    BY <1>3 DEF Flow, Lone, OneAsk, Free
  <2>5. Flow(L, R, V, d, a, p + 1)
    BY <1>3, <2>2, <2>3, <2>4 DEF Flow, Free
  <2>6. ASSUME Gapless(L, W, d, a, p) PROVE Gapless(L, V, d, a, p + 1)
    <3>1. ASSUME NEW q, Filled(W, a, p, q), NEW o \in (p + 1) .. q - 1
          PROVE  \E m \in Link : \E i \in DOMAIN V[m] : V[m][i] \in Sent({a}) /\ V[m][i].offset = o
      <4>1. o \in p .. q - 1 /\ o # p
        OBVIOUS
      <4>2. PICK m \in Link : \E j \in DOMAIN W[m] : W[m][j] \in Sent({a}) /\ W[m][j].offset = o
        BY <3>1, <4>1 DEF Filled
      <4>3. PICK j \in DOMAIN W[m] : W[m][j] \in Sent({a}) /\ W[m][j].offset = o
        BY <4>2
      <4>4. ~(m = n /\ j = 1)
        BY <1>1, <4>1, <4>3
      <4>5. \E i \in DOMAIN V[m] : V[m][i] = W[m][j]
        BY <4>4, CutIs
      <4> QED BY <4>3, <4>5
    <3>2. \A q : Filled(W, a, p, q) => Filled(V, a, p + 1, q)
      BY <3>1 DEF Filled
    <3>3. \A m \in Link : \A i \in DOMAIN V[m] : V[m][i] \in Sent({a}) => Filled(W, a, p, V[m][i].offset)
      BY <1>6, <2>6 DEF After, Gapless
    <3> QED BY <2>6, <3>2, <3>3 DEF Gapless
  <2> QED BY <2>1, <2>5, <2>6
<1> HIDE DEF f
<1> QED BY <1>1, <1>8, <1>9 DEF Received

-----------------------------------------------------------------------------
(* What a step keeps of the loops of a source and the lines to and from a receiver. *)

\* What holds of the loops L, the requests Q and the frames W of a pair holds of M, V and X;
\* without a gap as long as the two are online.
Keeping(L, Q, W, M, V, X, d, a, p, on) ==
  /\ \A A \in SUBSET Nat : /\ Lone(L, Q, d, A) => Lone(M, V, d, A)
                           /\ Nothing(L, Q, W, d, A) => Nothing(M, V, X, d, A)
  /\ Flow(L, Q, W, d, a, p) => Flow(M, V, X, d, a, p)
  /\ on /\ Flow(L, Q, W, d, a, p) /\ Gapless(L, W, d, a, p) => Gapless(M, X, d, a, p)

\* The same of _serveGen, g before and b after.
Guided(L, Q, W, g, M, V, X, b, d, a, p, newest) ==
  /\ Lone(L, Q, d, Nat) /\ OneGen(L, d, g) => OneGen(M, d, b)
  /\ /\ Flow(L, Q, W, d, a, p) /\ Lone(L, Q, d, Nat \ {a})
     /\ Beside(L, Q, W, d, a, g, newest)
     => Beside(M, V, X, d, a, b, newest)

\* One loop of L goes on or ends, which may end _serveGen.
Onward(M, L, k, g, b) ==
  /\ DOMAIN M \subseteq DOMAIN L
  /\ \A j \in DOMAIN M : j # k => M[j] = L[j]
  /\ k \in DOMAIN M => /\ M[k].peer = L[k].peer /\ M[k].gen = L[k].gen
                       /\ M[k].attempt = L[k].attempt
                       /\ M[k].at # "open" /\ M[k].off < Chunks
  /\ b = g \/ (b = 0 /\ k \notin DOMAIN M /\ (g = 0 \/ L[k].gen = g))

LEMMA OnwardAmong ==
  ASSUME NEW M, NEW L, NEW k, NEW g, NEW b, Onward(M, L, k, g, b), NEW d
  PROVE  Among(M, L, d) /\ \A A : Served(M, d, A) \subseteq Served(L, d, A)
BY DEF Onward, Among, Served

LEMMA AsksAndSent ==
  \A A \in SUBSET Nat : Asks(A) \subseteq Fetches /\ Sent(A) \subseteq Frames
BY DEF Asks, Sent

LEMMA SteadyKeeps ==
  ASSUME NEW a \in Nat, NEW d, NEW p, NEW on,
         NEW M, NEW L, Among(M, L, d), Still(M, L, d, Nat),
         NEW V \in Lines, NEW Q, After(V, Q, Fetches),
         NEW X \in Lines, NEW W, After(X, W, Frames), on => Keeps(X, W, Sent({a}))
  PROVE  Keeping(L, Q, W, M, V, X, d, a, p, on)
<1>1. \A A \in SUBSET Nat : After(V, Q, Asks(A)) /\ After(X, W, Sent(A))
  BY AsksAndSent, AfterLess
<1>2. \A A \in SUBSET Nat : Still(M, L, d, A)
  BY DEF Still, Among, Served
<1>3. ASSUME NEW A \in SUBSET Nat
      PROVE  /\ Lone(L, Q, d, A) => Lone(M, V, d, A)
             /\ Nothing(L, Q, W, d, A) => Nothing(M, V, X, d, A)
  BY <1>1, AmongServed, StaysLone, StaysNothing DEF Lines
<1>4. Flow(L, Q, W, d, a, p) => Flow(M, V, X, d, a, p)
  <2>1. /\ {a} \in SUBSET Nat /\ V \in [Link -> Seq(Envelope)] /\ X \in [Link -> Seq(Envelope)]
        /\ After(V, Q, Asks({a})) /\ After(X, W, Sent({a})) /\ Still(M, L, d, {a})
    BY <1>1, <1>2 DEF Lines
  <2> QED BY <2>1, StaysFlow
<1>5. on /\ Gapless(L, W, d, a, p) => Gapless(M, X, d, a, p)
  BY <1>1, <1>2, StaysGapless
<1> QED BY <1>3, <1>4, <1>5 DEF Keeping

\* the loops of a source that serves d only
AllFor(L, d) == \A k \in DOMAIN L : L[k].peer = d /\ L[k].gen # 0 /\ L[k].attempt \in Nat

LEMMA OnwardGuides ==
  ASSUME NEW a \in Nat, NEW d, NEW p, NEW newest,
         NEW M, NEW L, NEW k \in DOMAIN L, NEW g, NEW b, Onward(M, L, k, g, b), AllFor(L, d),
         NEW V \in Lines, NEW Q, After(V, Q, Fetches), NEW X, NEW W \in Lines,
         (\A n \in Link : \A i \in DOMAIN W[n] : W[n][i] \in Sent({a}) => n = newest) =>
           \A n \in Link : \A i \in DOMAIN X[n] : X[n][i] \in Sent({a}) => n = newest
  PROVE  Guided(L, Q, W, g, M, V, X, b, d, a, p, newest)
<1>0. Among(M, L, d) /\ \A A : Served(M, d, A) \subseteq Served(L, d, A)
  BY OnwardAmong
<1>1. k \in Served(L, d, Nat)
  BY DEF AllFor, Served
<1>2. b # g => k \notin DOMAIN M /\ (g = 0 \/ L[k].gen = g) /\ \A A : k \notin Served(M, d, A)
  BY DEF Onward, Served
<1>3. ASSUME Lone(L, Q, d, Nat), OneGen(L, d, g) PROVE OneGen(M, d, b)
  <2>1. CASE b = g
    BY <1>0, <1>3, <2>1, StaysOneGen
  <2>2. CASE b # g
    <3>1. Served(M, d, Nat) = {}
      BY <1>0, <1>1, <1>2, <1>3, <2>2 DEF Lone
    <3> QED BY <3>1 DEF OneGen
  <2> QED BY <2>1, <2>2
<1>4. ASSUME Flow(L, Q, W, d, a, p), Lone(L, Q, d, Nat \ {a}), Beside(L, Q, W, d, a, g, newest)
      PROVE  Beside(M, V, X, d, a, b, newest)
  <2>1. Lone(L, Q, d, {a})
    BY <1>4 DEF Flow
  <2>2. \/ b = g
        \/ Served(M, d, {a}) = {} /\ (Free(Q, Asks({a})) \/ Served(M, d, Nat \ {a}) = {})
    <3>1. CASE b # g /\ k \in Served(L, d, {a})
      BY <1>0, <1>2, <2>1, <3>1 DEF Lone
    <3>2. CASE b # g /\ k \notin Served(L, d, {a})
      <4>1. k \in Served(L, d, Nat \ {a})
        BY <1>1, <3>2 DEF Served
      <4>2. ASSUME NEW j \in Served(L, d, {a}) PROVE FALSE
        <5>1. L[j].gen = g /\ L[k].gen # g /\ g # 0
          BY <1>4, <4>1 DEF Beside, AllFor, Served
        <5> QED BY <1>2, <3>2, <5>1
      <4> QED BY <1>0, <1>2, <1>4, <3>2, <4>1, <4>2 DEF Lone
    <3> QED BY <3>1, <3>2
  <2>3. After(W, W, Sent({a}))
    BY AfterSame
  <2>4. Beside(M, V, W, d, a, b, newest)
    BY <1>0, <1>4, <2>2, <2>3, StaysBeside DEF Lines
  <2> QED BY <2>4 DEF Beside
<1> QED BY <1>3, <1>4 DEF Guided

\* A loop has the file open: it waits or reads, or ends.
LEMMA OpeningKeeps ==
  ASSUME NEW a \in Nat, NEW d, NEW p, NEW on, NEW Q \in Lines, NEW W \in Lines,
         NEW M, NEW L, NEW k \in DOMAIN L, L[k].at = "open", NEW g, NEW b, Onward(M, L, k, g, b),
         k \in DOMAIN M => M[k].off = L[k].off
  PROVE  Keeping(L, Q, W, M, Q, W, d, a, p, on)
<1>0. Among(M, L, d) /\ \A A : Served(M, d, A) \subseteq Served(L, d, A)
  BY OnwardAmong
<1>1. \A S : After(Q, Q, S) /\ After(W, W, S)
  BY AfterSame
<1>2. ASSUME NEW A \in SUBSET Nat
      PROVE  /\ Lone(L, Q, d, A) => Lone(M, Q, d, A)
             /\ Nothing(L, Q, W, d, A) => Nothing(M, Q, W, d, A)
  BY <1>0, <1>1, StaysLone, StaysNothing DEF Lines
<1>3. ASSUME NEW j \in Served(M, d, {a})
      PROVE  \/ Moved(M[j], L[j])
             \/ j = k /\ L[j].at = "open" /\ M[j].off = L[j].off /\ M[j].at # "open" /\ M[j].off < Chunks
  <2>1. j \in DOMAIN M
    BY DEF Served
  <2> QED BY <2>1 DEF Onward, Moved
<1>4. Served(M, d, {a}) \subseteq Served(L, d, {a})
  BY <1>0
<1>5. ASSUME Flow(L, Q, W, d, a, p) PROVE Flow(M, Q, W, d, a, p)
  BY <1>3, <1>4, <1>5, OpensFlow
<1>6. ASSUME Gapless(L, W, d, a, p) PROVE Gapless(M, W, d, a, p)
  <2>1. \A j \in Served(M, d, {a}) : M[j].off = L[j].off
    BY <1>3 DEF Moved
  <2> QED BY <1>4, <1>6, <2>1 DEF Gapless
<1> QED BY <1>2, <1>5, <1>6 DEF Keeping

\* A loop sends f, which is lost if the two are not online, and goes on or ends.
LEMMA SendingKeeps ==
  ASSUME NEW a \in Nat, NEW d, NEW p \in Nat, NEW on, NEW Q \in Lines, NEW W \in Lines,
         NEW M, NEW L, NEW k \in DOMAIN L, L[k].peer = d, L[k].attempt \in Nat, L[k].off \in Nat,
         Among(M, L, d), \A j \in DOMAIN M : j # k => M[j] = L[j],
         k \in DOMAIN M => M[k].at # "open" /\ M[k].off = L[k].off + 1 /\ M[k].off < Chunks,
         NEW f \in Sent({L[k].attempt}), f.offset = L[k].off,
         f.last <=> f.offset + 1 >= Chunks,
         Len(f.data) = IF f.offset < Chunks THEN 1 ELSE 0,
         NEW X \in Lines,
         \/ ~on /\ X = W
         \/ \E n \in Link : /\ Added(X, W, n, f)
                            /\ \A m \in Link : \A i \in DOMAIN W[m] : m <= n
  PROVE  Keeping(L, Q, W, M, Q, X, d, a, p, on)
<1>0. \A A \in SUBSET Nat : Served(M, d, A) \subseteq Served(L, d, A)
  BY AmongServed
<1>1. \A S : After(Q, Q, S) /\ After(W, W, S) /\ Keeps(W, W, S)
  BY AfterSame
<1>2. \A S : f \notin S => After(X, W, S) /\ (on => Keeps(X, W, S))
  BY <1>1, AddedAfter
<1>3. ASSUME NEW A \in SUBSET Nat
      PROVE  /\ Lone(L, Q, d, A) => Lone(M, Q, d, A)
             /\ Nothing(L, Q, W, d, A) => Nothing(M, Q, X, d, A)
  <2>1. Lone(L, Q, d, A) => Lone(M, Q, d, A)
    BY <1>0, <1>1, StaysLone DEF Lines
  <2>2. Nothing(L, Q, W, d, A) => f \notin Sent(A)
    BY DEF Nothing, Served, Sent
  <2> QED BY <1>1, <1>2, <2>1, <2>2, StaysNothing
<1>4. CASE L[k].attempt # a
  <2>1. f \notin Sent({a})
    BY <1>4 DEF Sent
  <2>2. Still(M, L, d, {a})
    <3> SUFFICES ASSUME NEW j \in Served(M, d, {a})
                 PROVE  j \in Served(L, d, {a}) /\ Moved(M[j], L[j])
      BY DEF Still
    <3>1. j \in Served(L, d, {a})
      BY <1>0
    <3>2. j # k /\ j \in DOMAIN M
      BY <1>4, <3>1 DEF Served
    <3> QED BY <3>1, <3>2 DEF Moved
  <2>3. Flow(L, Q, W, d, a, p) => Flow(M, Q, X, d, a, p)
    BY <1>1, <1>2, <2>1, <2>2, StaysFlow DEF Lines
  <2>4. on /\ Gapless(L, W, d, a, p) => Gapless(M, X, d, a, p)
    BY <1>1, <1>2, <2>1, <2>2, StaysGapless
  <2> QED BY <1>3, <2>3, <2>4 DEF Keeping
<1>5. CASE L[k].attempt = a
  <2> SUFFICES ASSUME Flow(L, Q, W, d, a, p)
               PROVE  /\ Flow(M, Q, X, d, a, p)
                      /\ on /\ Gapless(L, W, d, a, p) => Gapless(M, X, d, a, p)
    BY <1>3 DEF Keeping
  <2>1. k \in Served(L, d, {a}) /\ Serving(L[k], W, a, p)
    BY <1>5 DEF Served, Flow
  <2>2. \A j \in Served(M, d, {a}) :
          j = k /\ M[j].at # "open" /\ M[j].off = f.offset + 1 /\ M[j].off < Chunks
    <3> SUFFICES ASSUME NEW j \in Served(M, d, {a}) PROVE j = k /\ k \in DOMAIN M
      OBVIOUS
    <3>1. j \in Served(L, d, {a})
      BY <1>0
    <3> QED BY <2>1, <3>1 DEF Flow, Lone, Served
  <2>3. f \in Sent({a}) /\ f.offset \in Nat
    BY <1>5
  <2>4. Proper(f, p)
    <3>1. f.offset >= p /\ (f.offset < Chunks \/ f.offset = p)
      BY <2>1 DEF Serving
    <3> QED BY <3>1 DEF Proper
  <2>5. CASE \E n \in Link : /\ Added(X, W, n, f)
                             /\ \A m \in Link : \A i \in DOMAIN W[m] : m <= n
    <3>1. PICK n \in Link : /\ Added(X, W, n, f)
                            /\ \A m \in Link : \A i \in DOMAIN W[m] : m <= n
      BY <2>5
    <3>2. Served(M, d, {a}) \subseteq Served(L, d, {a})
      BY <1>0
    <3>3. Past(M, d, a, f.offset) /\ Upmost(W, n, Sent({a}))
      BY <2>2, <3>1 DEF Past, Upmost
    <3>4. Added(X, W, n, f) /\ k \in Served(L, d, {a}) /\ f \in Sent({a})
      BY <2>1, <2>3, <3>1
    <3>5. Flow(M, Q, X, d, a, p)
      BY <2>4, <3>2, <3>3, <3>4, SendsFlow
    <3>6. ASSUME Gapless(L, W, d, a, p) PROVE Gapless(M, X, d, a, p)
      BY <2>4, <3>2, <3>3, <3>4, <3>5, <3>6, SendsFlow
    <3> QED BY <3>5, <3>6
  <2>6. CASE ~on /\ X = W
    <3>1. ASSUME NEW j \in Served(M, d, {a}) PROVE Serving(M[j], W, a, p)
      <4>1. M[j].off = L[k].off + 1 /\ M[j].at # "open" /\ M[j].off < Chunks
        BY <2>2
      <4>2. \A m \in Link : \A i \in DOMAIN W[m] : W[m][i] \in Sent({a}) =>
              W[m][i].offset \in Nat /\ W[m][i].offset < L[k].off
        BY <2>1 DEF Serving, Sent, Frames
      <4>3. \A m \in Link : \A i \in DOMAIN W[m] : W[m][i] \in Sent({a}) =>
              W[m][i].offset < M[j].off
        <5> SUFFICES ASSUME NEW m \in Link, NEW i \in DOMAIN W[m], W[m][i] \in Sent({a})
                     PROVE  W[m][i].offset < M[j].off
          OBVIOUS
        <5>1. W[m][i].offset \in Nat /\ W[m][i].offset < L[k].off
          BY <4>2
        <5> QED BY <4>1, <5>1
      <4>4. M[j].off >= p
        BY <2>1, <4>1 DEF Serving
      <4> QED BY <4>1, <4>3, <4>4 DEF Serving
    <3>2. Lone(M, Q, d, {a})
      BY <1>3 DEF Flow
    <3> QED BY <2>6, <3>1, <3>2 DEF Flow
  <2> QED BY <2>5, <2>6
<1> QED BY <1>4, <1>5

\* A request is answered with a new loop.
LEMMA AnsweringKeeps ==
  ASSUME NEW a \in Nat, NEW d, NEW p \in Nat, NEW on, NEW L, NEW Q \in Lines, NEW W \in Lines,
         NEW n \in Link, Q[n] # <<>>, NEW V \in Lines, Cut(V, Q, n), Head(Q[n]) \in Fetches,
         NEW M, NEW k, NEW l, l.attempt = Head(Q[n]).attempt, l.off = Head(Q[n]).offset,
         l.at = "open", Joined(M, L, d, k, l)
  PROVE  Keeping(L, Q, W, M, V, W, d, a, p, on)
<1>1. ASSUME NEW A \in SUBSET Nat
      PROVE  /\ Lone(L, Q, d, A) => Lone(M, V, d, A)
             /\ Nothing(L, Q, W, d, A) => Nothing(M, V, W, d, A)
  <2>0. A \subseteq Nat
    OBVIOUS
  <2>1. ASSUME Lone(L, Q, d, A)
        PROVE  /\ Lone(M, V, d, A)
               /\ Head(Q[n]) \in Asks(A) => Served(M, d, A) \subseteq {k} /\ Free(V, Asks(A))
               /\ Head(Q[n]) \notin Asks(A) => Still(M, L, d, A)
    BY <2>0, <2>1, AnsweredLone
  <2>2. ASSUME Nothing(L, Q, W, d, A) PROVE Nothing(M, V, W, d, A)
    <3>1. Lone(L, Q, d, A)
      BY <2>2 DEF Nothing, Lone, OneAsk, Free
    <3>2. Head(Q[n]) \notin Asks(A)
      BY <2>2, CutIs DEF Nothing, Free
    <3>3. Still(M, L, d, A)
      BY <2>1, <3>1, <3>2
    <3>4. After(V, Q, Asks(A))
      BY CutAfter
    <3> QED BY <2>2, <3>3, <3>4, StaysFree DEF Nothing, Still
  <2> QED BY <2>1, <2>2
<1>2. Flow(L, Q, W, d, a, p) =>
        Flow(M, V, W, d, a, p) /\ (Gapless(L, W, d, a, p) => Gapless(M, W, d, a, p))
  BY AnsweredFlow
<1> QED BY <1>1, <1>2 DEF Keeping

\* It has a number of its own, and the loop that is woken has not.
LEMMA AnsweringGuides ==
  ASSUME NEW a \in Nat, NEW d, NEW p \in Nat, NEW newest, NEW L, AllFor(L, d), NEW Q \in Lines,
         NEW W \in Lines, NEW n \in Link, Q[n] # <<>>, NEW V \in Lines, Cut(V, Q, n),
         Head(Q[n]) \in Fetches, NEW g \in Nat,
         NEW M, NEW k, NEW l, l.attempt = Head(Q[n]).attempt, l.gen = g + 1, Joined(M, L, d, k, l),
         NEW b, b # g + 1 => \E j \in DOMAIN L : L[j].gen = g + 1
  PROVE  Guided(L, Q, W, g, M, V, W, b, d, a, p, newest)
<1>1. Head(Q[n]) = Q[n][1] /\ 1 \in DOMAIN Q[n]
  BY CutIs
<1>2. \A j \in DOMAIN L : j \in Served(L, d, Nat)
  BY DEF AllFor, Served
<1>3. g # g + 1
  OBVIOUS
<1>4. ASSUME Lone(L, Q, d, Nat), OneGen(L, d, g) PROVE OneGen(M, d, b)
  <2>1. b = g + 1
    BY <1>2, <1>3, <1>4 DEF OneGen
  <2>2. Served(L, d, Nat) = {}
    <3>1. Q[n][1] \in Asks(Nat)
      BY <1>1 DEF Asks, Fetches
    <3> QED BY <1>1, <1>4, <3>1 DEF Lone, Free
  <2> QED BY <2>1, <2>2 DEF OneGen, Joined
<1>5. ASSUME Flow(L, Q, W, d, a, p), Lone(L, Q, d, Nat \ {a}), Beside(L, Q, W, d, a, g, newest)
      PROVE  Beside(M, V, W, d, a, b, newest)
  <2>1. Lone(L, Q, d, {a})
    BY <1>5 DEF Flow
  <2>2. b = g + 1
    <3> SUFFICES ASSUME NEW j \in DOMAIN L, L[j].gen = g + 1 PROVE FALSE
      OBVIOUS
    <3>1. CASE j \in Served(L, d, {a})
      BY <1>3, <1>5, <3>1 DEF Beside
    <3>2. CASE j \notin Served(L, d, {a})
      <4>1. j \in Served(L, d, Nat \ {a})
        BY <1>2, <3>2 DEF Served
      <4>2. CASE Head(Q[n]) \in Asks({a})
        BY <1>1, <1>3, <1>5, <4>1, <4>2 DEF Beside, Free
      <4>3. CASE Head(Q[n]) \notin Asks({a})
        <5>1. Head(Q[n]) \in Asks(Nat \ {a})
          BY <4>3 DEF Asks, Fetches
        <5> QED BY <1>1, <1>5, <4>1, <5>1 DEF Lone, Free
      <4> QED BY <4>2, <4>3
    <3> QED BY <3>1, <3>2
  <2> QED BY <1>5, <2>1, <2>2, AnsweredBeside
<1> QED BY <1>4, <1>5 DEF Guided

-----------------------------------------------------------------------------
(* The invariant. *)

\* The same of a receiver d and a source s.
LoneAt(d, s, A)    == Lone(loops[s], wire[d][s], d, A)
NothingAt(d, s, A) == Nothing(loops[s], wire[d][s], wire[s][d], d, A)
FlowAt(d, s)       == Flow(loops[s], wire[d][s], wire[s][d], d, attempt[d], Len(part[d]))
GaplessAt(d, s)    == Gapless(loops[s], wire[s][d], d, attempt[d], Len(part[d]))
OneGenAt(d, s)     == OneGen(loops[s], d, gen[s])
BesideAt(d, s)     ==
  Beside(loops[s], wire[d][s], wire[s][d], d, attempt[d], gen[s], Max(links[d][s]))

\* d waits for frames of s
Trying(d, s) == stage[d] = "envelope" /\ Head(todo[d]) = s

\* the attempts but the running one, and those to come
Others(d) == Nat \ {attempt[d]}
Later(d)  == {a \in Nat : a > attempt[d]}

\* Only the source that d tries has anything of it under way, one stream for the running
\* attempt, without a gap unless a link broke.
Clean(d) == \A s \in Device \ {d} :
  IF Trying(d, s) THEN /\ FlowAt(d, s) /\ (Online(d, s) => GaplessAt(d, s))
                       /\ NothingAt(d, s, Others(d))
                  ELSE NothingAt(d, s, Nat)

\* Nothing but requests and acknowledgements of d, and frames to d, is under way.
Only(d) == \A x, y \in Device :
  /\ \A k \in DOMAIN loops[x] : loops[x][k].peer = d
  /\ \A n \in Link : \A i \in DOMAIN wire[x][y][n] :
       IF wire[x][y][n][i] \in Frames THEN y = d ELSE x = d

\* with the file as announced and every source online
Alike(d) ==
  /\ Only(d) /\ version = 1 /\ stage[d] # "check"
  /\ \A s \in Device \ {d} : Online(d, s)

\* Before a fault; after one that left no old stream behind; at the end of a pull or offline
\* for good, with one loop or request left at most.
Fresh(d)  == Clean(d) /\ Alike(d) /\ \A s \in Device \ {d} : OneGenAt(d, s)
Spared(d) == Clean(d) /\ faults = 1 /\ opened = 0 /\ ~cancelled[d]
Over(d) ==
  /\ \/ attempt[d] = 0 /\ state[d] = "done"
     \/ attempt[d] = 0 /\ stage[d] = "check" /\ part[d] = Content(1)
     \/ faults = 1 /\ \A s \in Device : ~Online(d, s)
  /\ \A s \in Device \ {d} : LoneAt(d, s, Nat)

\* What a try that was given up left at a source: a loop or a request, of the newest number.
Leftover(d, s) ==
  /\ LoneAt(d, s, Nat) /\ OneGenAt(d, s)
  /\ \A n \in Link : \A i \in DOMAIN wire[d][s][n] :
       wire[d][s][n][i] \in Fetches => n = Max(links[d][s])

\* what is left, beside the stream of the running attempt
Again(d, s) == LoneAt(d, s, Others(d)) /\ GaplessAt(d, s) /\ BesideAt(d, s)

\* After one fault or with a second link: old streams may go on, the new one is in order.
Twice(d) ==
  /\ faults + opened = 1 /\ Alike(d) /\ ~cancelled[d]
  /\ \A s \in Device \ {d} :
       /\ FlowAt(d, s) /\ NothingAt(d, s, Later(d))
       /\ stage[d] \in {"envelope", "direct"} /\ ~Trying(d, s) => NothingAt(d, s, {attempt[d]})
       /\ IF Trying(d, s) THEN Again(d, s) ELSE Leftover(d, s)

\* The course of the only receiver, in any of these.
Course == \A d \in Device : Alone(d) /\ faults + opened <= 1 =>
             Fresh(d) \/ Spared(d) \/ Over(d) \/ Twice(d)

\* What a source has heard of, or is to hear, d has come to.
Answered(d, s) ==
  /\ lastAck[s] <= Len(part[d])
  /\ \A n \in Link : \A i \in DOMAIN wire[d][s][n] :
       wire[d][s][n][i] \in Fetches \cup Acks => wire[d][s][n][i].offset <= Len(part[d])

\* A loop for what d asked for last reads within the window.
Allowed(d, s) ==
  \A k \in Served(loops[s], d, {attempt[d]}) :
    /\ lastAck[s] # None
    /\ loops[s][k].at = "read" => loops[s][k].off - lastAck[s] < Window

\* The frames of attempt a are of a window of places.
Within(W, a) == \E m \in Nat : \A n \in Link : \A i \in DOMAIN W[n] :
  W[n][i] \in Sent({a}) => W[n][i].offset \in m .. m + Window - 1

\* what is read and under way is near to that
Near(d, s) == Answered(d, s) /\ Allowed(d, s) /\ Within(wire[s][d], attempt[d])

\* As long as nothing goes wrong, a source is paced by what d has come to.
Paced == \A d \in Device : Alone(d) /\ faults = 0 /\ opened <= 1 =>
           Over(d) \/ \A s \in Device \ {d} : Near(d, s)

\* Links have two ends, and envelopes are on links.
Tied == \A x, y \in Device :
  /\ links[x][y] = links[y][x] /\ links[x][x] = {}
  /\ links[x][y] \subseteq 0 .. opened
  /\ \A n \in Link : wire[x][y][n] # <<>> => n \in links[x][y]
  /\ \A k \in DOMAIN loops[x] : loops[x][k].peer # x

\* the numbers of attempts and of requests start with 1
Positive == \A x, y \in Device :
  /\ \A k \in DOMAIN loops[x] : loops[x][k].gen # 0 /\ loops[x][k].attempt # 0
  /\ \A n \in Link : \A i \in DOMAIN wire[x][y][n] :
       wire[x][y][n][i] \in Fetches \cup Frames => wire[x][y][n][i].attempt # 0

\* As long as the file is as announced, so are the pieces on the way.
Original(s) == \A i \in DOMAIN s : s[i][2] = 1

Pristine == version = 1 => \A x, y \in Device :
  /\ Original(part[x])
  /\ \A n \in Link : \A i \in DOMAIN wire[x][y][n] :
       wire[x][y][n][i] \in Frames => Original(wire[x][y][n][i].data)

-----------------------------------------------------------------------------
(* What a step does to the loops of a source, and to what is under way. *)

\* Loop k of ls goes on or ends at s, with g and ack as _serveGen and _lastAck.
Turned(s, ls, k, g, ack) ==
  /\ \A e \in Device \ {s} : /\ loops'[e] = loops[e] /\ gen'[e] = gen[e]
                             /\ lastAck'[e] = lastAck[e]
  /\ Onward(loops'[s], ls, k, g, gen'[s])
  /\ lastAck'[s] = ack \/ (lastAck'[s] = None /\ gen'[s] = 0 /\ k \notin DOMAIN loops'[s])
  /\ k \in DOMAIN loops'[s] =>
       /\ loops'[s][k].off = ls[k].off /\ ls[k].off < Chunks
       /\ (loops'[s][k].at = "read" => ~Full(ls[k].off, ack))

LEMMA ContinueTurns ==
  ASSUME Inv, Marks, NEW s \in Device, NEW ls, NEW k \in DOMAIN ls, ls[k] \in Loop,
         NEW g, NEW ack, NEW n, Continue(s, ls, k, g, ack, n)
  PROVE  Turned(s, ls, k, g, ack)
<1> DEFINE stops == ls[k].off >= Chunks \/ ~IsCurrent(ls[k], g) \/ cancelled[s]
           full  == Full(ls[k].off, ack)
           clear == stops /\ IsCurrent(ls[k], g)
           rest  == [j \in DOMAIN ls \ {k} |-> ls[j]]
           on    == [ls EXCEPT ![k].at = IF full THEN "wait" ELSE "read"]
<1>1. /\ \A e \in Device \ {s} : loops'[e] = loops[e] /\ gen'[e] = gen[e] /\ lastAck'[e] = lastAck[e]
      /\ loops'[s] = IF stops THEN rest ELSE on
      /\ gen'[s] = IF clear THEN 0 ELSE g
      /\ lastAck'[s] = IF clear THEN None ELSE ack
  BY DEF Continue, Restrict, Inv, Types, Serves, Marks
<1>2. CASE stops
  <2>1. loops'[s] = rest
    BY <1>1, <1>2
  <2>2. DOMAIN rest = DOMAIN ls \ {k} /\ \A j \in DOMAIN ls \ {k} : rest[j] = ls[j]
    OBVIOUS
  <2>3. IsCurrent(ls[k], g) => g = 0 \/ ls[k].gen = g
    BY DEF IsCurrent
  <2> HIDE DEF rest, stops
  <2> QED BY <1>1, <1>2, <2>1, <2>2, <2>3 DEF Turned, Onward
<1>3. CASE ~stops
  <2>1. loops'[s] = on /\ gen'[s] = g /\ lastAck'[s] = ack
    BY <1>1, <1>3
  <2>2. /\ DOMAIN on = DOMAIN ls /\ \A j \in DOMAIN ls \ {k} : on[j] = ls[j]
        /\ on[k] = [ls[k] EXCEPT !.at = IF full THEN "wait" ELSE "read"]
    OBVIOUS
  <2>3. /\ on[k].peer = ls[k].peer /\ on[k].gen = ls[k].gen /\ on[k].attempt = ls[k].attempt
        /\ on[k].off = ls[k].off /\ on[k].at = IF full THEN "wait" ELSE "read"
    BY <2>2 DEF Loop
  <2>4. ls[k].off < Chunks
    BY <1>3, TransferAssumption DEF Loop
  <2> HIDE DEF on, stops
  <2> QED BY <1>1, <2>1, <2>2, <2>3, <2>4 DEF Turned, Onward
<1> QED BY <1>2, <1>3

LEMMA WakeTurns ==
  ASSUME Inv, Marks, NEW s \in Device, NEW ls, \A k \in DOMAIN ls : ls[k] \in Loop,
         NEW g, NEW ack, Wake(s, ls, g, ack)
  PROVE  \/ notifier[s] \in DOMAIN ls /\ Turned(s, ls, notifier[s], g, ack)
         \/ /\ \A e \in Device \ {s} : /\ loops'[e] = loops[e] /\ gen'[e] = gen[e]
                                       /\ lastAck'[e] = lastAck[e]
            /\ loops'[s] = ls /\ gen'[s] = g /\ lastAck'[s] = ack
<1>1. CASE notifier[s] \in DOMAIN ls
  <2>1. Continue(s, ls, notifier[s], g, ack, 0) /\ ls[notifier[s]] \in Loop
    BY <1>1 DEF Wake
  <2> QED BY <1>1, <2>1, ContinueTurns
<1>2. CASE notifier[s] \notin DOMAIN ls
  BY <1>2 DEF Wake, Inv, Types, Serves, Marks
<1> QED BY <1>1, <1>2

\* A loop that ends, with _serveGen or without.
LEMMA LeavingTurns ==
  ASSUME Inv, Marks, NEW s \in Device, NEW k \in DOMAIN loops[s],
         loops' = [loops EXCEPT ![s] = Restrict(@, DOMAIN @ \ {k})],
         \/ UNCHANGED <<gen, lastAck>>
         \/ /\ IsCurrent(loops[s][k], gen[s])
            /\ gen' = [gen EXCEPT ![s] = 0] /\ lastAck' = [lastAck EXCEPT ![s] = None]
  PROVE  Turned(s, loops[s], k, gen[s], lastAck[s])
<1> DEFINE rest == [j \in DOMAIN loops[s] \ {k} |-> loops[s][j]]
<1>1. /\ \A e \in Device \ {s} : loops'[e] = loops[e] /\ gen'[e] = gen[e] /\ lastAck'[e] = lastAck[e]
      /\ loops'[s] = rest
      /\ \/ gen'[s] = gen[s] /\ lastAck'[s] = lastAck[s]
         \/ /\ gen[s] = 0 \/ loops[s][k].gen = gen[s]
            /\ gen'[s] = 0 /\ lastAck'[s] = None
  BY DEF Restrict, Inv, Types, Serves, Marks, IsCurrent
<1>2. DOMAIN rest = DOMAIN loops[s] \ {k} /\ \A j \in DOMAIN loops[s] \ {k} : rest[j] = loops[s][j]
  OBVIOUS
<1> HIDE DEF rest
<1> QED BY <1>1, <1>2 DEF Turned, Onward

\* the newest link there is
LEMMA NewestIs ==
  ASSUME Bonds, NEW x \in Device, NEW y \in Device, Online(x, y)
  PROVE  /\ Max(links[x][y]) \in links[x][y] /\ Max(links[x][y]) \in Link
         /\ \A n \in links[x][y] : n <= Max(links[x][y])
<1> DEFINE S == links[x][y]
           T == {n \in Nat : \E m \in S : n = MaxLinks - m}
<1>1. S \subseteq Link /\ S # {} /\ MaxLinks \in Nat
  BY TransferAssumption DEF Bonds, Online
<1>2. T # {} /\ T \subseteq Nat
  <2>1. PICK m : m \in S
    BY <1>1
  <2>2. MaxLinks - m \in Nat
    BY <1>1, <2>1 DEF Link
  <2> QED BY <2>1, <2>2
<1>3. PICK n \in T : \A o \in T : <<o, n>> \notin OpToRel(<, Nat)
  <2> HIDE DEF T
  <2> QED BY <1>2, NatLessThanWellFounded, WFMin
<1>4. PICK m \in S : n = MaxLinks - m
  BY <1>3
<1>5. ASSUME NEW o \in S PROVE o <= m
  <2>1. o \in Nat /\ m \in Nat /\ MaxLinks - o \in T
    BY <1>1 DEF Link
  <2>2. ~(MaxLinks - o < n)
    BY <1>3, <2>1 DEF OpToRel
  <2> QED BY <1>1, <1>4, <2>1, <2>2
<1>6. m \in S /\ \A o \in S : m >= o
  <2>1. \A o \in S : o \in Int /\ m \in Int
    BY <1>1 DEF Link
  <2> QED BY <1>5, <2>1
<1>7. Max(S) \in S /\ \A o \in S : Max(S) >= o
  BY <1>6 DEF Max
<1>8. \A o \in S : o \in Int /\ Max(S) \in Int
  BY <1>1, <1>7 DEF Link
<1> QED BY <1>1, <1>7, <1>8

LEMMA PutIs ==
  ASSUME Bonds, NEW w \in Wires, NEW x \in Device, NEW y \in Device, NEW env,
         wire' = Put(x, y, env, w)
  PROVE  /\ \A u, v \in Device : u # x \/ v # y => wire'[u][v] = w[u][v]
         /\ Online(x, y) => Added(wire'[x][y], w[x][y], Max(links[x][y]), env)
         /\ ~Online(x, y) => wire' = w
<1>1. CASE Online(x, y)
  <2>1. wire' = [w EXCEPT ![x][y][Max(links[x][y])] = Append(@, env)]
    BY <1>1 DEF Put
  <2>2. Max(links[x][y]) \in Link
    BY <1>1, NewestIs
  <2> QED BY <1>1, <2>1, <2>2 DEF Wires, Added
<1>2. CASE ~Online(x, y)
  BY <1>2 DEF Put
<1> QED BY <1>1, <1>2

LEMMA TakenIs ==
  ASSUME Inv, NEW x \in Device, NEW y \in Device, NEW n \in Link, NEW w,
         w = [wire EXCEPT ![x][y][n] = Tail(@)]
  PROVE  /\ \A u, v \in Device : u # x \/ v # y => w[u][v] = wire[u][v]
         /\ Cut(w[x][y], wire[x][y], n)
BY DEF Inv, Types, Wires, Cut

LEMMA WireLines == ASSUME NEW w \in Wires, NEW x \in Device, NEW y \in Device PROVE w[x][y] \in Lines
BY DEF Wires, Lines

\* Loop k of s sends f, which is lost if its peer is not online.
Sends(s, k, f) ==
  LET L == loops[s]
      M == loops'[s]
  IN /\ wire' = Put(s, L[k].peer, f, wire)
     /\ f \in Sent({L[k].attempt}) /\ f.offset = L[k].off
     /\ f.last <=> f.offset + 1 >= Chunks
     /\ Len(f.data) = IF f.offset < Chunks THEN 1 ELSE 0
     /\ k \in DOMAIN M => M[k].off = L[k].off + 1

\* A loop that goes on after it has the file open or a chunk sent, or ends.
LEMMA OpenIs ==
  ASSUME Inv, Marks, NEW s \in Device, NEW k \in DOMAIN loops[s], Open(s, k)
  PROVE  /\ loops[s][k].at = "open" /\ Turned(s, loops[s], k, gen[s], lastAck[s])
         /\ \/ wire' = wire
            \/ k \notin DOMAIN loops'[s] /\ \E f : Sends(s, k, f) /\ f.data = <<>>
<1> DEFINE l == loops[s][k]
<1>1. l \in Loop /\ l.at = "open"
  BY DEF Inv, Serves, Loops, Open
<1>2. CASE Exists(s)
  <2>1. Turned(s, loops[s], k, gen[s], lastAck[s])
    BY <1>1, <1>2, ContinueTurns DEF Open
  <2>2. CASE l.off < Chunks
    BY <1>1, <1>2, <2>1, <2>2 DEF Open, EmptyLast
  <2>3. CASE ~(l.off < Chunks)
    <3> DEFINE f == DataEnv(l.off, <<>>, TRUE, l.attempt)
    <3>1. wire' = Put(s, l.peer, f, wire) /\ k \notin DOMAIN loops'[s]
      BY <1>2, <2>1, <2>3 DEF Open, EmptyLast, Turned
    <3>2. l.off \in Nat /\ l.attempt \in Nat /\ l.off + 1 >= Chunks
      BY <1>1, <2>3, TransferAssumption DEF Loop
    <3>3. f \in Sent({l.attempt})
      BY <3>2, EmptySeq DEF DataEnv, Sent, Frames
    <3>4. f.offset = l.off /\ f.last = TRUE /\ f.data = <<>> /\ Len(f.data) = 0
      BY DEF DataEnv
    <3> HIDE DEF f
    <3>5. Sends(s, k, f) /\ f.data = <<>>
      BY <2>3, <3>1, <3>2, <3>3, <3>4 DEF Sends
    <3> QED BY <1>1, <2>1, <3>1, <3>5
  <2> QED BY <2>2, <2>3
<1>3. CASE ~Exists(s)
  <2>1. Turned(s, loops[s], k, gen[s], lastAck[s])
    BY <1>3, LeavingTurns DEF Open
  <2> QED BY <1>1, <1>3, <2>1 DEF Open
<1> QED BY <1>2, <1>3

LEMMA SendChunkIs ==
  ASSUME Inv, Marks, NEW s \in Device, NEW k \in DOMAIN loops[s], SendChunk(s, k)
  PROVE  /\ loops[s][k].at = "read" /\ loops[s][k].off < Chunks
         /\ Onward(loops'[s], loops[s], k, gen[s], gen'[s])
         /\ Turned(s, [loops[s] EXCEPT ![k].off = @ + 1], k, gen[s], lastAck[s])
         /\ \E f : Sends(s, k, f) /\ f.data = <<ReadAt(s, loops[s][k].off)>>
<1> DEFINE l  == loops[s][k]
           ls == [loops[s] EXCEPT ![k].off = @ + 1]
           f  == DataEnv(l.off, <<ReadAt(s, l.off)>>, l.off + 1 >= Chunks, l.attempt)
<1>1. l \in Loop /\ l.at = "read" /\ l.off < Chunks /\ Holds(s)
  BY DEF Inv, Serves, Loops, SendChunk
<1>2. /\ k \in DOMAIN ls /\ DOMAIN ls = DOMAIN loops[s]
      /\ \A j \in DOMAIN loops[s] \ {k} : ls[j] = loops[s][j]
      /\ ls[k] = [l EXCEPT !.off = @ + 1]
  OBVIOUS
<1>3. /\ ls[k] \in Loop /\ ls[k].off = l.off + 1 /\ ls[k].peer = l.peer /\ ls[k].gen = l.gen
      /\ ls[k].attempt = l.attempt
  BY <1>1, <1>2 DEF Loop
<1>4. Continue(s, ls, k, gen[s], lastAck[s], notifier[s]) /\ wire' = Put(s, l.peer, f, wire)
  BY DEF SendChunk
<1> HIDE DEF ls
<1>5. Turned(s, ls, k, gen[s], lastAck[s])
  BY <1>2, <1>3, <1>4, ContinueTurns
<1>6. Onward(loops'[s], loops[s], k, gen[s], gen'[s]) /\ (k \in DOMAIN loops'[s] => loops'[s][k].off = l.off + 1)
  BY <1>2, <1>3, <1>5 DEF Turned, Onward
<1>7. l.off \in Nat /\ l.attempt \in Nat
  BY <1>1 DEF Loop
<1>8. f \in Sent({l.attempt})
  <2>1. ReadAt(s, l.off) \in Piece /\ ReadAt(s, l.off)[1] = l.off + 1
    BY <1>1, <1>7, ReadsThePlace
  <2>2. <<ReadAt(s, l.off)>> \in Seq(Piece) /\ DOMAIN <<ReadAt(s, l.off)>> = {1}
    BY <2>1
  <2> QED BY <1>7, <2>1, <2>2 DEF DataEnv, Sent, Frames
<1>9. /\ f.offset = l.off /\ f.last = (l.off + 1 >= Chunks) /\ f.data = <<ReadAt(s, l.off)>>
      /\ Len(f.data) = 1
  BY DEF DataEnv
<1> HIDE DEF f
<1>10. Sends(s, k, f)
  BY <1>1, <1>4, <1>6, <1>8, <1>9 DEF Sends
<1> QED BY <1>1, <1>5, <1>6, <1>9, <1>10 DEF ls

LEMMA GiveUpIs ==
  ASSUME Inv, Marks, NEW s \in Device, NEW k \in DOMAIN loops[s], GiveUp(s, k)
  PROVE  /\ Turned(s, loops[s], k, gen[s], lastAck[s]) /\ k \notin DOMAIN loops'[s]
         /\ wire' = wire
<1>1. Turned(s, loops[s], k, gen[s], lastAck[s])
  BY LeavingTurns DEF GiveUp
<1>2. k \notin DOMAIN loops'[s]
  BY DEF GiveUp, Restrict, Inv, Serves
<1> QED BY <1>1, <1>2 DEF GiveUp

-----------------------------------------------------------------------------
(* A loop gets a number that no other has. *)

\* so that there is a number left
Finite == \A x \in Device : IsFiniteSet(DOMAIN loops[x]) /\ 0 \notin DOMAIN loops[x]

LEMMA Least ==
  ASSUME NEW S, S \subseteq Nat, S # {}
  PROVE  Min(S) \in S
<1>1. PICK n \in S : \A o \in S : <<o, n>> \notin OpToRel(<, Nat)
  BY NatLessThanWellFounded, WFMin
<1>2. \A o \in S : n <= o
  <2> SUFFICES ASSUME NEW o \in S PROVE n <= o
    OBVIOUS
  <2>1. n \in Nat /\ o \in Nat /\ ~(o < n)
    BY <1>1 DEF OpToRel
  <2> QED BY <2>1
<1> QED BY <1>1, <1>2 DEF Min

LEMMA FreeNumberIs ==
  ASSUME NEW ls, IsFiniteSet(DOMAIN ls)
  PROVE  FreeNumber(ls) \in Nat \ {0} /\ FreeNumber(ls) \notin DOMAIN ls
<1> DEFINE n == Cardinality(DOMAIN ls)
           I == 1 .. n + 1
<1>1. n \in Nat
  BY FS_CardinalityType
<1>2. IsFiniteSet(I) /\ Cardinality(I) = n + 1
  <2>1. 1 \in Int /\ n + 1 \in Int /\ ~(1 > n + 1) /\ (n + 1) - 1 + 1 = n + 1
    BY <1>1
  <2> HIDE DEF n
  <2> QED BY <2>1, FS_Interval
<1>3. I \ DOMAIN ls # {}
  <2> SUFFICES ASSUME I \in SUBSET DOMAIN ls PROVE FALSE
    OBVIOUS
  <2>1. Cardinality(I) <= n
    BY FS_Subset
  <2> HIDE DEF n, I
  <2> QED BY <1>1, <1>2, <2>1
<1>4. I \ DOMAIN ls \subseteq Nat
  BY <1>1
<1>5. Min(I \ DOMAIN ls) \in I \ DOMAIN ls
  BY <1>3, <1>4, Least
<1> QED BY <1>1, <1>5 DEF FreeNumber

-----------------------------------------------------------------------------
(* What a source does with a request, and with an acknowledgement. *)

\* the other sources stay as they are
Same(x) == \A y \in Device \ {x} : loops'[y] = loops[y] /\ gen'[y] = gen[y] /\ lastAck'[y] = lastAck[y]

\* The loops of x are those it had, and l under the number k; of the waiting ones one may go on,
\* as an acknowledgement of ack allows.
Follows(x, k, l, ack) ==
  \A j \in DOMAIN loops'[x] :
    \/ j = k /\ loops'[x][j] = l
    \/ LET m == loops'[x][j]
           o == loops[x][j]
       IN /\ j \in DOMAIN loops[x] /\ m.peer = o.peer /\ m.attempt = o.attempt /\ m.gen = o.gen
          /\ Moved(m, o)
          /\ m.at = "read" => o.at = "read" \/ ~Full(o.off, ack)

\* _serveGen and _lastAck are g and ack, or a loop of g has ended.
Numbered(x, g, ack) ==
  \/ gen'[x] = g /\ lastAck'[x] = ack
  \/ /\ gen'[x] = 0 /\ lastAck'[x] \in {ack, None}
     /\ \E j \in DOMAIN loops[x] : j \notin DOMAIN loops'[x] /\ (g = 0 \/ loops[x][j].gen = g)

\* the loop that answers a request
Request(e, env, g) ==
  [peer |-> e, gen |-> g, attempt |-> env.attempt, from |-> env.offset, off |-> env.offset, at |-> "open"]

LEMMA FetchIs ==
  ASSUME Inv, Marks, Finite, NEW x \in Device, NEW e \in Device, NEW env \in Fetches,
         TakeFetch(x, e, env)
  PROVE  /\ Same(x)
         /\ Numbered(x, gen[x] + 1, env.offset)
         /\ \E k \in Nat \ {0} : k \notin DOMAIN loops[x] /\ Follows(x, k, Request(e, env, gen[x] + 1), env.offset)
<1> DEFINE g  == gen[x] + 1
           l  == Request(e, env, g)
           k  == FreeNumber(loops[x])
           ls == IF Holds(x) THEN [j \in DOMAIN loops[x] \cup {k} |-> IF j = k THEN l ELSE loops[x][j]]
                             ELSE loops[x]
<1>1. k \notin DOMAIN loops[x] /\ k \in Nat \ {0} /\ k # 0
  BY FreeNumberIs DEF Finite
<1>2. l \in Loop
  BY DEF Request, Loop, Fetches, Inv, Types
<1>3. /\ DOMAIN loops[x] \subseteq DOMAIN ls /\ \A j \in DOMAIN loops[x] : ls[j] = loops[x][j]
      /\ \A j \in DOMAIN ls : j \in DOMAIN loops[x] \/ (j = k /\ ls[j] = l)
  BY <1>1
<1>4. Wake(x, ls, g, env.offset)
  BY DEF TakeFetch, Request
<1> HIDE DEF ls, k, l
<1>5. \A j \in DOMAIN ls : ls[j] \in Loop
  BY <1>2, <1>3 DEF Inv, Serves, Loops
<1>6. g # 0
  BY DEF Inv, Types
<1>7. \/ notifier[x] \in DOMAIN ls /\ Turned(x, ls, notifier[x], g, env.offset)
      \/ Same(x) /\ loops'[x] = ls /\ gen'[x] = g /\ lastAck'[x] = env.offset
  BY <1>4, <1>5, WakeTurns DEF Same
<1>8. CASE Same(x) /\ loops'[x] = ls /\ gen'[x] = g /\ lastAck'[x] = env.offset
  BY <1>1, <1>3, <1>8 DEF Numbered, Follows, Moved, l
<1>9. CASE notifier[x] \in DOMAIN ls /\ Turned(x, ls, notifier[x], g, env.offset)
  <2> DEFINE z == notifier[x]
  <2>1. z \in DOMAIN loops[x] /\ loops[x][z].at = "wait" /\ z # k
    <3>1. z # 0 => z \in DOMAIN loops[x] /\ loops[x][z].at = "wait"
      BY DEF Marks, Notified
    <3>2. z # 0
      BY <1>1, <1>3, <1>9 DEF Finite
    <3> QED BY <1>1, <3>1, <3>2
  <2>2. Same(x) /\ Onward(loops'[x], ls, z, g, gen'[x])
    BY <1>9 DEF Turned, Same
  <2>3. Numbered(x, g, env.offset)
    <3>1. gen'[x] = g \/ (gen'[x] = 0 /\ z \notin DOMAIN loops'[x] /\ loops[x][z].gen = g)
      BY <1>3, <1>6, <2>1, <2>2 DEF Onward
    <3>2. lastAck'[x] = env.offset \/ (lastAck'[x] = None /\ gen'[x] = 0)
      BY <1>9 DEF Turned
    <3> QED BY <1>6, <2>1, <3>1, <3>2 DEF Numbered
  <2>4. \A j \in DOMAIN loops'[x] : j \in DOMAIN ls /\ (j # z => loops'[x][j] = ls[j])
    BY <2>2 DEF Onward
  <2>5. z \in DOMAIN loops'[x] =>
          LET m == loops'[x][z]
              o == loops[x][z]
          IN  /\ m.peer = o.peer /\ m.attempt = o.attempt /\ m.gen = o.gen /\ m.off = o.off
              /\ m.at # "open" /\ (m.at = "read" => ~Full(o.off, env.offset))
    BY <1>3, <1>9, <2>1, <2>2 DEF Turned, Onward
  <2>6. Follows(x, k, l, env.offset)
    <3> SUFFICES ASSUME NEW j \in DOMAIN loops'[x]
                 PROVE  \/ j = k /\ loops'[x][j] = l
                        \/ LET m == loops'[x][j]
                               o == loops[x][j]
                           IN /\ j \in DOMAIN loops[x] /\ m.peer = o.peer /\ m.attempt = o.attempt /\ m.gen = o.gen
                              /\ Moved(m, o)
                              /\ m.at = "read" => o.at = "read" \/ ~Full(o.off, env.offset)
      BY DEF Follows
    <3>1. CASE j = z
      BY <2>1, <2>5, <3>1 DEF Moved
    <3>2. CASE j # z
      BY <1>3, <2>4, <3>2 DEF Moved
    <3> QED BY <3>1, <3>2
  <2> QED BY <1>1, <2>2, <2>3, <2>6 DEF l
<1> QED BY <1>7, <1>8, <1>9

LEMMA AckIs ==
  ASSUME Inv, Marks, Finite, NEW x \in Device, NEW env, TakeAck(x, env)
  PROVE  LET ack == IF env.offset > (IF lastAck[x] = None THEN 0 ELSE lastAck[x])
                    THEN env.offset ELSE lastAck[x]
         IN  /\ Same(x)
             /\ Numbered(x, gen[x], ack)
             /\ DOMAIN loops'[x] \subseteq DOMAIN loops[x]
             /\ \A k : k \notin DOMAIN loops[x] => \A l : Follows(x, k, l, ack)
<1> DEFINE ack == IF env.offset > (IF lastAck[x] = None THEN 0 ELSE lastAck[x])
                  THEN env.offset ELSE lastAck[x]
<1>1. Wake(x, loops[x], gen[x], ack)
  BY DEF TakeAck, WakeForAck
<1> HIDE DEF ack
<1>2. \A j \in DOMAIN loops[x] : loops[x][j] \in Loop
  BY DEF Inv, Serves, Loops
<1>3. \/ notifier[x] \in DOMAIN loops[x] /\ Turned(x, loops[x], notifier[x], gen[x], ack)
      \/ Same(x) /\ loops'[x] = loops[x] /\ gen'[x] = gen[x] /\ lastAck'[x] = ack
  BY <1>1, <1>2, WakeTurns DEF Same
<1>4. CASE Same(x) /\ loops'[x] = loops[x] /\ gen'[x] = gen[x] /\ lastAck'[x] = ack
  BY <1>4 DEF Numbered, Follows, Moved, ack
<1>5. CASE notifier[x] \in DOMAIN loops[x] /\ Turned(x, loops[x], notifier[x], gen[x], ack)
  <2> DEFINE z == notifier[x]
  <2>1. Same(x) /\ Onward(loops'[x], loops[x], z, gen[x], gen'[x])
    BY <1>5 DEF Turned, Same
  <2>2. loops[x][z].at # "open"
    <3>1. z # 0
      BY <1>5 DEF Finite
    <3> QED BY <3>1 DEF Marks, Notified
  <2>3. Numbered(x, gen[x], ack)
    <3>1. gen'[x] = gen[x] \/ (gen'[x] = 0 /\ z \notin DOMAIN loops'[x] /\ (gen[x] = 0 \/ loops[x][z].gen = gen[x]))
      BY <2>1 DEF Onward
    <3>2. lastAck'[x] = ack \/ (lastAck'[x] = None /\ gen'[x] = 0 /\ z \notin DOMAIN loops'[x])
      BY <1>5 DEF Turned
    <3> QED BY <1>5, <3>1, <3>2 DEF Numbered
  <2>4. \A j \in DOMAIN loops'[x] : j \in DOMAIN loops[x] /\ (j # z => loops'[x][j] = loops[x][j])
    BY <2>1 DEF Onward
  <2>5. z \in DOMAIN loops'[x] =>
          LET m == loops'[x][z]
              o == loops[x][z]
          IN  /\ m.peer = o.peer /\ m.attempt = o.attempt /\ m.gen = o.gen /\ m.off = o.off
              /\ m.at # "open" /\ (m.at = "read" => ~Full(o.off, ack))
    BY <1>5, <2>1 DEF Turned, Onward
  <2>6. ASSUME NEW k, NEW l PROVE Follows(x, k, l, ack)
    BY <2>2, <2>4, <2>5 DEF Follows, Moved
  <2> QED BY <2>1, <2>3, <2>4, <2>6 DEF ack
<1> QED BY <1>3, <1>4, <1>5

-----------------------------------------------------------------------------
(* The steps, by what they touch. *)

\* the wire without the first envelope to x from e, and the three ways to take it
Taken(x, e, n) == [wire EXCEPT ![e][x][n] = Tail(@)]

FetchStep(x, e, n) ==
  /\ wire[e][x][n] # <<>> /\ Head(wire[e][x][n]) \in Fetches
  /\ TakeFetch(x, e, Head(wire[e][x][n]))
  /\ wire' = Taken(x, e, n)
  /\ UNCHANGED <<version, address, links, bounds, pulling, cancelled>>

AckStep(x, e, n) ==
  /\ wire[e][x][n] # <<>> /\ Head(wire[e][x][n]) \in Acks
  /\ TakeAck(x, Head(wire[e][x][n]))
  /\ wire' = Taken(x, e, n)
  /\ UNCHANGED <<version, address, links, bounds, pulling, cancelled>>

DataStep(x, e, n) ==
  /\ wire[e][x][n] # <<>> /\ Head(wire[e][x][n]) \in Frames
  /\ TakeData(x, Head(wire[e][x][n]), Taken(x, e, n))
  /\ UNCHANGED <<version, address, links, bounds, serving>>

LEMMA DeliverCases ==
  ASSUME Inv, NEW x \in Device, NEW e \in Device, Deliver(x, e)
  PROVE  \E n \in Link : FetchStep(x, e, n) \/ AckStep(x, e, n) \/ DataStep(x, e, n)
<1>1. PICK n \in Link :
        LET env == Head(wire[e][x][n])
            w   == [wire EXCEPT ![e][x][n] = Tail(@)]
        IN /\ wire[e][x][n] # <<>>
           /\ CASE env.type = "fetch" ->
                     /\ TakeFetch(x, e, env)
                     /\ wire' = w /\ UNCHANGED <<pulling, cancelled>>
                [] env.type = "ack" ->
                     /\ TakeAck(x, env)
                     /\ wire' = w /\ UNCHANGED <<pulling, cancelled>>
                [] env.type = "data" -> TakeData(x, env, w) /\ UNCHANGED serving
           /\ UNCHANGED <<version, address, links, bounds>>
  BY DEF Deliver
<1> DEFINE env == Head(wire[e][x][n])
<1>2. \/ env \in Fetches /\ env.type = "fetch"
      \/ env \in Acks /\ env.type = "ack"
      \/ env \in Frames /\ env.type = "data"
  <2>1. env \in Envelope
    BY <1>1, TakenOff
  <2> HIDE DEF env
  <2> QED BY <2>1 DEF Envelope, Fetches, Acks, Frames
<1>3. CASE env \in Fetches /\ env.type = "fetch"
  BY <1>1, <1>3 DEF FetchStep, Taken
<1>4. CASE env \in Acks /\ env.type = "ack"
  BY <1>1, <1>4 DEF AckStep, Taken
<1>5. CASE env \in Frames /\ env.type = "data"
  BY <1>1, <1>5 DEF DataStep, Taken
<1> QED BY <1>2, <1>3, <1>4, <1>5

\* No file is being received by what happens around the devices.
LEMMA AroundIs ==
  ASSUME \/ UNCHANGED vars \/ ChangeFile
         \/ \E x, e \in Device : Connect(x, e) \/ Break(x, e) \/ NoteAddress(x, e)
  PROVE  UNCHANGED pulling
<1>1. UNCHANGED vars \/ ChangeFile => UNCHANGED pulling
  BY DEF vars, ChangeFile
<1>2. \A x, e \in Device : Connect(x, e) \/ NoteAddress(x, e) => UNCHANGED pulling
  BY DEF Connect, NoteAddress
<1>3. \A x, e \in Device : Break(x, e) => UNCHANGED pulling
  BY DEF Break
<1> QED BY <1>1, <1>2, <1>3

\* what of a receiver the steps of the others leave alone
Pulls(x) == <<state[x], file[x], part[x], todo[x], stage[x], attempt[x], cancelled[x]>>

OwnOf(x) == \A y \in Device \ {x} : UNCHANGED Pulls(y)

LEMMA EndsIsOwn ==
  ASSUME Inv, Rest, NEW x \in Device, NEW st, Ends(x, st)
  PROVE  \A y \in Device \ {x} : /\ state'[y] = state[y] /\ todo'[y] = todo[y] /\ stage'[y] = stage[y]
                                 /\ cancelled'[y] = cancelled[y]
BY DEF Ends, Inv, Types, Rest, Sources

LEMMA PullIs ==
  ASSUME Inv, Rest, NEW x \in Device, Pull(x)
  PROVE  /\ OwnOf(x) /\ stage[x] # "idle"
         /\ UNCHANGED <<version, serving, address, links, opened, calls>>
         /\ \/ UNCHANGED wire
            \/ AskOver(x, Head(todo[x])) /\ (Ask(x) \/ (FallBack(x) /\ Online(x, Head(todo[x]))))
         /\ faults' = faults \/ Fault("slow")
<1>1. CASE Ask(x)
  BY <1>1 DEF Ask, AskOver, OwnOf, Pulls, Inv, Types, Rest, Sources, bounds
<1>2. CASE Dial(x) \/ Skip(x) \/ DirectEnds(x)
  BY <1>2 DEF Dial, Skip, DirectEnds, OwnOf, Pulls, Inv, Types, Rest, Sources, bounds
<1>3. CASE TakeDirect(x)
  BY <1>3, EndsIsOwn DEF TakeDirect, OwnOf, Pulls, Inv, Types, Rest, Sources, bounds
<1>4. CASE DirectRefused(x) \/ Stall(x)
  BY <1>4, EndsIsOwn DEF DirectRefused, Stall, OwnOf, Pulls, bounds
<1>5. CASE Check(x)
  <2>1. \A y \in Device \ {x} : file'[y] = file[y] /\ part'[y] = part[y]
    BY <1>5 DEF Check, Inv, Types
  <2>2. \E st : Ends(x, st)
    BY <1>5 DEF Check
  <2> QED BY <1>5, <2>1, <2>2, EndsIsOwn DEF Check, OwnOf, Pulls, bounds
<1>6. CASE FallBack(x)
  <2>1. CASE Online(x, Head(todo[x]))
    BY <1>6, <2>1 DEF FallBack, AskOver, OwnOf, Pulls, Inv, Types, Rest, Sources
  <2>2. CASE ~Online(x, Head(todo[x]))
    BY <1>6, <2>2, EndsIsOwn DEF FallBack, OwnOf, Pulls
  <2> QED BY <2>1, <2>2
<1> QED BY <1>1, <1>2, <1>3, <1>4, <1>5, <1>6 DEF Pull

LEMMA DataIsOwn ==
  ASSUME Inv, Rest, NEW x \in Device, NEW env, NEW w, TakeData(x, env, w)
  PROVE  OwnOf(x)
<1>1. CASE UNCHANGED <<pulling, cancelled>>
  BY <1>1 DEF OwnOf, Pulls, pulling
<1>2. ASSUME NEW st, Ends(x, st), UNCHANGED <<file, part, attempt>> PROVE OwnOf(x)
  BY <1>2, EndsIsOwn DEF OwnOf, Pulls
<1>3. CASE /\ part' = [part EXCEPT ![x] = @ \o env.data]
           /\ stage' = [stage EXCEPT ![x] = IF env.last THEN "check" ELSE @]
           /\ attempt' = [attempt EXCEPT ![x] = IF env.last THEN 0 ELSE @]
           /\ UNCHANGED <<state, file, todo, cancelled>>
  BY <1>3 DEF OwnOf, Pulls, Inv, Types
<1> QED BY <1>1, <1>2, <1>3 DEF TakeData

LEMMA SourceIs ==
  ASSUME NEW x \in Device, SourceStep(x)
  PROVE  /\ UNCHANGED <<version, pulling, cancelled, address, links, opened, calls>>
         /\ faults' = faults \/ Fault("slow")
BY DEF SourceStep, Open, SendChunk, GiveUp, bounds

-----------------------------------------------------------------------------
(* What is known of a receiver, and of a run in which nothing went wrong. *)

\* A source that is tried is a device, and one that is called has an address.
Known(d) ==
  /\ {e \in Device : <<d, e>> \in Address} \subseteq address[d]
  /\ address[d] \subseteq Device
  /\ stage[d] = "direct" => Head(todo[d]) \in address[d]
  /\ stage[d] = "envelope" => Head(todo[d]) \in Device
  /\ stage[d] = "check" \/ state[d] = "done" => attempt[d] = 0

\* before anything goes wrong
Unhurt ==
  /\ faults \in Nat
  /\ faults = 0 => /\ version = 1 /\ \A d \in Device : ~cancelled[d]
                   /\ \A x, y \in Device : x # y => 0 \in links[x][y]

Secure == Unhurt /\ state[Sender] = "done" /\ \A d \in Device : Known(d)

LEMMA EndsUncancelled ==
  ASSUME Inv, Rest, NEW x \in Device, NEW st, Ends(x, st)
  PROVE  \A y \in Device : ~cancelled[y] => ~cancelled'[y]
BY DEF Ends, Rest, Sources

LEMMA StepUnhurt == ASSUME Inv, Rest, Unhurt, [Next]_vars PROVE Unhurt'
<1> DEFINE Calm == /\ faults' = faults /\ version' = version
                   /\ \A d \in Device : ~cancelled[d] => ~cancelled'[d]
                   /\ \A x, y \in Device : links[x][y] \subseteq links'[x][y]
           Hurt == faults \in Nat /\ faults' = faults + 1
<1>1. ASSUME Calm \/ Hurt PROVE Unhurt'
  BY <1>1 DEF Unhurt
<1>2. ASSUME NEW x \in Device, SourceStep(x) PROVE Calm \/ Hurt
  BY <1>2, SourceIs DEF Fault, Unhurt
<1>3. ASSUME NEW x \in Device, Pull(x) PROVE Calm \/ Hurt
  <2>1. UNCHANGED <<version, links>> /\ (faults' = faults \/ Fault("slow"))
    BY <1>3, PullIs
  <2>2. \A y \in Device : ~cancelled[y] => ~cancelled'[y]
    <3>1. UNCHANGED cancelled \/ \E st : Ends(x, st)
      BY <1>3 DEF Pull, Ask, AskOver, Dial, Skip, TakeDirect, DirectEnds, DirectRefused,
                  FallBack, Stall, Check
    <3> QED BY <3>1, EndsUncancelled
  <2> QED BY <2>1, <2>2 DEF Fault, Unhurt
<1>4. ASSUME NEW x \in Device, NEW e \in Device, Deliver(x, e) PROVE Calm
  <2>1. UNCHANGED <<version, links, faults>>
    BY <1>4 DEF Deliver, bounds
  <2>2. UNCHANGED cancelled \/ \E st : Ends(x, st)
    <3>1. ASSUME NEW env, NEW w, TakeData(x, env, w) PROVE UNCHANGED cancelled \/ \E st : Ends(x, st)
      BY <3>1 DEF TakeData
    <3> QED BY <1>4, <3>1, DeliverCases DEF FetchStep, AckStep, DataStep
  <2> QED BY <2>1, <2>2, EndsUncancelled
<1>5. ASSUME NEW x \in Device, Receive(x) PROVE Calm
  BY <1>5 DEF Receive
<1>6. ASSUME NEW x \in Device, Cancel(x) \/ Restart(x) PROVE Hurt
  BY <1>6 DEF Cancel, Restart, Fault, Unhurt
<1>7. ASSUME NEW x \in Device, NEW e \in Device, Break(x, e) PROVE Hurt
  BY <1>7 DEF Break, Fault, Unhurt
<1>8. CASE ChangeFile
  BY <1>8 DEF ChangeFile, Fault, Unhurt
<1>9. ASSUME NEW x \in Device, NEW e \in Device, Connect(x, e) PROVE Calm
  <2> DEFINE one == [links EXCEPT ![x][e] = @ \cup {opened'}]
  <2>1. links' = [one EXCEPT ![e][x] = @ \cup {opened'}] /\ UNCHANGED <<version, faults, cancelled>>
    BY <1>9 DEF Connect
  <2>2. \A u, v \in Device : links[u][v] \subseteq one[u][v]
    BY DEF Rest, Bonds
  <2>3. one \in [Device -> [Device -> SUBSET (Link \cup {opened'})]]
    BY DEF Rest, Bonds
  <2> HIDE DEF one
  <2>4. \A u, v \in Device : one[u][v] \subseteq links'[u][v]
    BY <2>1, <2>3
  <2> QED BY <2>1, <2>2, <2>4
<1>10. CASE UNCHANGED vars \/ \E x, e \in Device : NoteAddress(x, e)
  <2>1. UNCHANGED <<faults, version, cancelled, links>>
    BY <1>10 DEF NoteAddress, vars, bounds
  <2>2. Calm
    BY <2>1
  <2> QED BY <1>1, <2>2
<1> QED BY <1>1, <1>2, <1>3, <1>4, <1>5, <1>6, <1>7, <1>8, <1>9, <1>10 DEF Next

LEMMA StaysKnown ==
  ASSUME NEW d \in Device, Known(d), UNCHANGED <<address, Pulls(d)>>
  PROVE  Known(d)'
BY DEF Known, Pulls

LEMMA EndsKnown ==
  ASSUME Inv, Rest, NEW d \in Device, Known(d), NEW st, Ends(d, st),
         UNCHANGED <<address, attempt>>, st = "done" => attempt[d] = 0,
         state[d] = "done" => attempt[d] = 0
  PROVE  Known(d)'
<1>1. /\ stage'[d] \in {"next", "idle"}
      /\ state'[d] = "done" => attempt[d] = 0
  BY DEF Ends, Inv, Types, Rest, Sources
<1> QED BY <1>1 DEF Known

LEMMA StepKnown == ASSUME Inv, Rest, NEW d \in Device, Known(d), [Next]_vars PROVE Known(d)'
<1>0. state[d] = "done" => stage[d] = "idle"
  BY DEF Inv, DoneIsIdle
<1>1. ASSUME NEW x \in Device \ {d}, Pull(x) PROVE Known(d)'
  BY <1>1, PullIs, StaysKnown DEF OwnOf
<1>2. ASSUME NEW x \in Device, NEW e \in Device, Deliver(x, e) PROVE Known(d)'
  <2>1. PICK n \in Link : FetchStep(x, e, n) \/ AckStep(x, e, n) \/ DataStep(x, e, n)
    BY <1>2, DeliverCases
  <2>2. CASE FetchStep(x, e, n) \/ AckStep(x, e, n)
    BY <2>2, StaysKnown DEF FetchStep, AckStep, pulling, Pulls
  <2>3. CASE DataStep(x, e, n) /\ x # d
    BY <2>3, DataIsOwn, StaysKnown DEF DataStep, OwnOf
  <2>4. ASSUME x = d, NEW env, NEW w, TakeData(d, env, w), UNCHANGED address PROVE Known(d)'
    <3>1. CASE UNCHANGED <<pulling, cancelled>>
      BY <2>4, <3>1, StaysKnown DEF pulling, Pulls
    <3>2. ASSUME NEW st \in {"pending", "failed"}, Ends(d, st), UNCHANGED attempt PROVE Known(d)'
      BY <2>4, <3>2, EndsKnown DEF Known
    <3>3. CASE /\ stage[d] = "envelope"
               /\ stage' = [stage EXCEPT ![d] = IF env.last THEN "check" ELSE @]
               /\ attempt' = [attempt EXCEPT ![d] = IF env.last THEN 0 ELSE @]
               /\ UNCHANGED <<state, todo>>
      BY <1>0, <2>4, <3>3 DEF Known, Inv, Types
    <3> QED BY <2>4, <3>1, <3>2, <3>3 DEF TakeData
  <2> QED BY <2>1, <2>2, <2>3, <2>4 DEF DataStep
<1>3. CASE Pull(d)
  <2>1. UNCHANGED address /\ stage[d] # "idle"
    BY <1>3, PullIs
  <2>2. CASE Ask(d)
    BY <2>1, <2>2 DEF Ask, AskOver, Known, Inv, Types, Rest, Sources
  <2>3. CASE Dial(d)
    BY <2>1, <2>3 DEF Dial, Known, Inv, Types, Rest, Sources
  <2>4. CASE Skip(d)
    BY <1>0, <2>1, <2>4 DEF Skip, Known, Inv, Types, Rest, Sources
  <2>5. CASE DirectEnds(d)
    BY <1>0, <2>1, <2>5 DEF DirectEnds, Known, Inv, Types, Rest, Sources
  <2>6. CASE TakeDirect(d)
    <3>1. CASE Ends(d, "pending") /\ UNCHANGED attempt
      BY <2>1, <3>1, EndsKnown DEF Known
    <3>2. CASE UNCHANGED <<state, todo, stage, cancelled, attempt>>
      BY <2>1, <3>2 DEF Known
    <3> QED BY <2>6, <3>1, <3>2 DEF TakeDirect
  <2>7. CASE DirectRefused(d) \/ Stall(d)
    BY <2>1, <2>7, EndsKnown DEF DirectRefused, Stall, Known
  <2>8. CASE Check(d)
    BY <2>1, <2>8, EndsKnown DEF Check, Known
  <2>9. CASE FallBack(d)
    <3>1. CASE AskOver(d, Head(todo[d]))
      <4>1. Head(todo[d]) \in Device
        BY <2>9 DEF FallBack, Known
      <4> QED BY <2>1, <3>1, <4>1 DEF AskOver, Known, Inv, Types, Rest, Sources
    <3>2. CASE Ends(d, "failed") /\ UNCHANGED attempt
      BY <2>1, <3>2, EndsKnown DEF Known
    <3> QED BY <2>9, <3>1, <3>2 DEF FallBack
  <2> QED BY <1>3, <2>2, <2>3, <2>4, <2>5, <2>6, <2>7, <2>8, <2>9 DEF Pull
<1>4. ASSUME NEW x \in Device, Receive(x) PROVE Known(d)'
  <2>1. CASE x # d
    BY <1>4, <2>1 DEF Receive, Known, Inv, Types, Rest, Sources
  <2>2. CASE x = d
    BY <1>4, <2>2 DEF Receive, MayStart, Known, Inv, Types, Rest, Sources
  <2> QED BY <2>1, <2>2
<1>5. ASSUME NEW x \in Device, SourceStep(x) \/ Cancel(x) PROVE Known(d)'
  BY <1>5, SourceIs DEF Cancel, pulling, Known
<1>6. ASSUME NEW x \in Device, Restart(x) PROVE Known(d)'
  BY <1>6 DEF Restart, Known, Inv, Types, Rest, Sources
<1>7. CASE UNCHANGED vars \/ ChangeFile \/ \E x, e \in Device : Connect(x, e) \/ Break(x, e)
  <2>1. UNCHANGED <<state, todo, stage, attempt>>
    BY <1>7, AroundIs DEF pulling
  <2>2. UNCHANGED address
    BY <1>7 DEF Connect, Break, ChangeFile, vars
  <2> QED BY <2>1, <2>2 DEF Known
<1>8. ASSUME NEW x \in Device, NEW e \in Device, NoteAddress(x, e) PROVE Known(d)'
  BY <1>8 DEF NoteAddress, pulling, Known
<1> QED BY <1>1, <1>2, <1>3, <1>4, <1>5, <1>6, <1>7, <1>8 DEF Next

-----------------------------------------------------------------------------
(* Where what is under way, and a loop, comes from. *)

\* was under way before
Old(u, v, m, env) == \E j \in DOMAIN wire[u][v][m] : wire[u][v][m][j] = env

LEMMA PutBrings ==
  ASSUME Bonds, NEW w \in Wires, NEW x \in Device, NEW y \in Device, NEW env, wire' = Put(x, y, env, w),
         NEW u \in Device, NEW v \in Device, NEW m \in Link, NEW i \in DOMAIN wire'[u][v][m]
  PROVE  \/ i \in DOMAIN w[u][v][m] /\ wire'[u][v][m][i] = w[u][v][m][i]
         \/ u = x /\ v = y /\ m \in links[x][y] /\ wire'[u][v][m][i] = env
<1>1. CASE u # x \/ v # y \/ ~Online(x, y)
  BY <1>1, PutIs
<1>2. CASE u = x /\ v = y /\ Online(x, y)
  <2>1. Added(wire'[x][y], w[x][y], Max(links[x][y]), env) /\ w[x][y] \in Lines
    BY <1>2, PutIs, WireLines
  <2>2. Max(links[x][y]) \in links[x][y] /\ Max(links[x][y]) \in Link
    BY <1>2, NewestIs
  <2> QED BY <1>2, <2>1, <2>2, AddedIs
<1> QED BY <1>1, <1>2

LEMMA TakeBrings ==
  ASSUME Inv, NEW x \in Device, NEW e \in Device, NEW n \in Link, wire[e][x][n] # <<>>,
         NEW u \in Device, NEW v \in Device, NEW m \in Link, NEW i \in DOMAIN Taken(x, e, n)[u][v][m]
  PROVE  Old(u, v, m, Taken(x, e, n)[u][v][m][i])
<1> DEFINE w == Taken(x, e, n)
<1>1. /\ \A p, q \in Device : p # e \/ q # x => w[p][q] = wire[p][q]
      /\ Cut(w[e][x], wire[e][x], n)
  BY TakenIs DEF Taken
<1>2. wire[e][x] \in Lines
  BY WireLines DEF Inv, Types
<1> HIDE DEF w
<1>3. CASE u # e \/ v # x
  BY <1>1, <1>3 DEF Old, w
<1>4. CASE u = e /\ v = x
  BY <1>1, <1>2, <1>4, CutIs DEF Old, w
<1> QED BY <1>3, <1>4

\* What is new on a link from u to v.
Brought(u, v, env) ==
  \/ env \in Frames /\ \E k \in DOMAIN loops[u] :
       /\ loops[u][k].peer = v /\ loops[u][k].attempt = env.attempt
       /\ version = 1 => Original(env.data)
  \/ env \in Fetches /\ env.attempt # 0
  \/ env \in Acks

LEMMA ReadsOriginal ==
  ASSUME Inv, NEW s \in Device, Holds(s), version = 1, NEW off \in Nat, off < Chunks
  PROVE  ReadAt(s, off)[2] = 1
<1>1. CASE s = Sender
  BY <1>1 DEF ReadAt, Chunk
<1>2. CASE s # Sender
  <2>1. file[s] = Content(1) /\ off + 1 \in 1 .. Chunks
    BY <1>2, TransferAssumption DEF Inv, DoneIsIdle, Holds
  <2>2. file[s][off + 1] = Chunk(off + 1, 1)
    BY <2>1 DEF Content
  <2> QED BY <1>2, <2>2 DEF ReadAt, Chunk
<1> QED BY <1>1, <1>2

LEMMA SourceBrings ==
  ASSUME Inv, Rest, NEW x \in Device, SourceStep(x),
         NEW u \in Device, NEW v \in Device, NEW m \in Link, NEW i \in DOMAIN wire'[u][v][m]
  PROVE  \/ Old(u, v, m, wire'[u][v][m][i])
         \/ m \in links[u][v] /\ Brought(u, v, wire'[u][v][m][i])
<1>1. PICK k \in DOMAIN loops[x] : Open(x, k) \/ SendChunk(x, k) \/ GiveUp(x, k)
  BY DEF SourceStep
<1>2. loops[x][k] \in Loop /\ Holds(x)
  BY DEF Inv, Serves, Loops
<1>3. CASE wire' = wire
  BY <1>3 DEF Old
<1>4. ASSUME NEW f, Sends(x, k, f), version = 1 => Original(f.data)
      PROVE  \/ Old(u, v, m, wire'[u][v][m][i])
             \/ m \in links[u][v] /\ Brought(u, v, wire'[u][v][m][i])
  <2>1. wire' = Put(x, loops[x][k].peer, f, wire) /\ f \in Frames /\ f.attempt = loops[x][k].attempt
    BY <1>4 DEF Sends, Sent
  <2>2. loops[x][k].peer \in Device /\ wire \in Wires /\ Bonds
    BY <1>2 DEF Loop, Inv, Types, Rest
  <2>3. \/ i \in DOMAIN wire[u][v][m] /\ wire'[u][v][m][i] = wire[u][v][m][i]
        \/ u = x /\ v = loops[x][k].peer /\ m \in links[u][v] /\ wire'[u][v][m][i] = f
    BY <2>1, <2>2, PutBrings
  <2> QED BY Zenon, <1>4, <2>1, <2>3 DEF Old, Brought
<1>5. CASE Open(x, k)
  <2>1. wire' = wire \/ \E f : Sends(x, k, f) /\ f.data = <<>>
    BY <1>5, OpenIs DEF Rest
  <2>2. Original(<<>>)
    BY DEF Original
  <2> QED BY <1>3, <1>4, <2>1, <2>2
<1>6. CASE SendChunk(x, k)
  <2>1. /\ loops[x][k].off < Chunks /\ loops[x][k].off \in Nat
        /\ \E f : Sends(x, k, f) /\ f.data = <<ReadAt(x, loops[x][k].off)>>
    BY <1>2, <1>6, SendChunkIs DEF Rest, Loop
  <2>2. version = 1 => Original(<<ReadAt(x, loops[x][k].off)>>)
    BY <1>2, <2>1, ReadsOriginal DEF Original
  <2> QED BY <1>4, <2>1, <2>2
<1>7. CASE GiveUp(x, k)
  BY <1>3, <1>7, GiveUpIs DEF Rest
<1> QED BY <1>1, <1>5, <1>6, <1>7

LEMMA PullBrings ==
  ASSUME Inv, Rest, Secure, NEW x \in Device, Pull(x),
         NEW u \in Device, NEW v \in Device, NEW m \in Link, NEW i \in DOMAIN wire'[u][v][m]
  PROVE  \/ Old(u, v, m, wire'[u][v][m][i])
         \/ m \in links[u][v] /\ Brought(u, v, wire'[u][v][m][i])
<1>1. CASE wire' = wire
  BY <1>1 DEF Old
<1>2. CASE AskOver(x, Head(todo[x])) /\ (Ask(x) \/ FallBack(x))
  <2> DEFINE f == FetchEnv(Len(part[x]), attempt[x] + 1)
             y == Head(todo[x])
  <2>1. wire' = Put(x, y, f, wire)
    BY <1>2 DEF AskOver
  <2>2. y \in Device
    BY <1>2 DEF Ask, FallBack, Secure, Known
  <2>3. f \in Fetches /\ f.attempt # 0
    <3>1. Len(part[x]) \in 0 .. Chunks /\ attempt[x] \in Nat
      BY PrefixLength DEF Inv, Types
    <3> QED BY <3>1 DEF FetchEnv, Fetches
  <2> HIDE DEF f, y
  <2>4. \/ i \in DOMAIN wire[u][v][m] /\ wire'[u][v][m][i] = wire[u][v][m][i]
        \/ u = x /\ v = y /\ m \in links[u][v] /\ wire'[u][v][m][i] = f
    BY <2>1, <2>2, PutBrings DEF Inv, Types, Rest
  <2> QED BY <2>3, <2>4 DEF Old, Brought
<1> QED BY <1>1, <1>2, PullIs

\* what is acknowledged is of the file
LEMMA AckMade ==
  ASSUME Inv, NEW x \in Device, NEW env \in Frames, Fits(x, env)
  PROVE  /\ AckEnv(Len(part[x]) + Len(env.data)) \in Acks
         /\ part[x] \o env.data \in Prefix /\ Len(part[x] \o env.data) = Len(part[x]) + Len(env.data)
<1>1. /\ part[x] \in Prefix /\ part[x] \in Seq(Piece) /\ Len(part[x]) \in Nat
      /\ env.data \in Seq(Piece) /\ Len(env.data) \in Nat
      /\ \A i \in DOMAIN env.data : env.data[i][1] = Len(part[x]) + i
  BY LenProperties DEF Inv, Types, Prefix, Frames, Fits
<1>2. part[x] \o env.data \in Prefix
  BY <1>1, PrefixGrows
<1>3. Len(part[x] \o env.data) = Len(part[x]) + Len(env.data)
  BY <1>1, ConcatProperties
<1>4. Len(part[x]) + Len(env.data) \in 0 .. Chunks
  BY <1>2, <1>3, PrefixLength
<1> QED BY <1>2, <1>3, <1>4 DEF AckEnv, Acks

LEMMA DeliverBrings ==
  ASSUME Inv, Rest, Secure, NEW x \in Device, NEW e \in Device, Deliver(x, e),
         NEW u \in Device, NEW v \in Device, NEW m \in Link, NEW i \in DOMAIN wire'[u][v][m]
  PROVE  \/ Old(u, v, m, wire'[u][v][m][i])
         \/ m \in links[u][v] /\ Brought(u, v, wire'[u][v][m][i])
<1>1. PICK n \in Link : FetchStep(x, e, n) \/ AckStep(x, e, n) \/ DataStep(x, e, n)
  BY DeliverCases
<1> DEFINE w == Taken(x, e, n)
           env == Head(wire[e][x][n])
<1>2. wire[e][x][n] # <<>> /\ w \in Wires
  BY <1>1, TakenOff DEF FetchStep, AckStep, DataStep, Taken
<1> HIDE DEF w
<1>3. \A j \in DOMAIN w[u][v][m] : Old(u, v, m, w[u][v][m][j])
  BY <1>2, TakeBrings DEF w
<1>4. CASE wire' = w
  BY <1>3, <1>4
<1>5. CASE /\ wire' = Put(x, Head(todo[x]), AckEnv(Len(part[x]) + Len(env.data)), w)
           /\ stage[x] = "envelope" /\ Fits(x, env) /\ env \in Frames
  <2> DEFINE f == AckEnv(Len(part[x]) + Len(env.data))
             y == Head(todo[x])
  <2>1. f \in Acks
    BY <1>5, AckMade
  <2>2. y \in Device /\ wire' = Put(x, y, f, w) /\ Bonds
    BY <1>5 DEF Secure, Known, Rest
  <2> HIDE DEF f, y
  <2>3. \/ i \in DOMAIN w[u][v][m] /\ wire'[u][v][m][i] = w[u][v][m][i]
        \/ u = x /\ v = y /\ m \in links[u][v] /\ wire'[u][v][m][i] = f
    BY <1>2, <2>2, PutBrings
  <2> QED BY <1>3, <2>1, <2>3 DEF Brought
<1>6. FetchStep(x, e, n) \/ AckStep(x, e, n) => wire' = w
  BY DEF FetchStep, AckStep, w
<1>7. DataStep(x, e, n) =>
        \/ wire' = w
        \/ /\ wire' = Put(x, Head(todo[x]), AckEnv(Len(part[x]) + Len(env.data)), w)
           /\ stage[x] = "envelope" /\ Fits(x, env) /\ env \in Frames
  BY Zenon DEF DataStep, TakeData, w
<1> QED BY <1>1, <1>4, <1>5, <1>6, <1>7

\* one of the two directions between x and e
Between(u, v, x, e) == (u = x /\ v = e) \/ (u = e /\ v = x)

Emptying(w, x, e, n) == [w EXCEPT ![x][e][n] = <<>>]

LEMMA Emptied ==
  ASSUME NEW w \in Wires, NEW x \in Device, NEW e \in Device, NEW n \in Link
  PROVE  /\ Emptying(w, x, e, n) \in Wires
         /\ \A u, v \in Device : \A m \in Link :
              Emptying(w, x, e, n)[u][v][m] = IF u = x /\ v = e /\ m = n THEN <<>> ELSE w[u][v][m]
<1> DEFINE line == [w[x][e] EXCEPT ![n] = <<>>]
           from == [w[x] EXCEPT ![e] = line]
           cut  == [w EXCEPT ![x] = from]
<1>1. /\ w[x][e] \in [Link -> Seq(Envelope)] /\ w[x] \in [Device -> [Link -> Seq(Envelope)]]
      /\ w \in [Device -> [Device -> [Link -> Seq(Envelope)]]] /\ <<>> \in Seq(Envelope)
  BY DEF Wires
<1>2. /\ line \in [Link -> Seq(Envelope)]
      /\ \A m \in Link : line[m] = IF m = n THEN <<>> ELSE w[x][e][m]
  BY <1>1
<1> HIDE DEF line
<1>3. /\ from \in [Device -> [Link -> Seq(Envelope)]]
      /\ \A v \in Device : from[v] = IF v = e THEN line ELSE w[x][v]
  BY <1>1, <1>2
<1> HIDE DEF from
<1>4. /\ cut \in [Device -> [Device -> [Link -> Seq(Envelope)]]]
      /\ \A u \in Device : cut[u] = IF u = x THEN from ELSE w[u]
  BY <1>1, <1>3
<1>5. cut = Emptying(w, x, e, n)
  BY DEF Emptying, from, line
<1> HIDE DEF cut
<1>6. ASSUME NEW u \in Device, NEW v \in Device, NEW m \in Link
      PROVE  cut[u][v][m] = IF u = x /\ v = e /\ m = n THEN <<>> ELSE w[u][v][m]
  BY <1>2, <1>3, <1>4
<1> QED BY <1>4, <1>5, <1>6 DEF Wires

\* what is left between u and v after the break of link n between x and e
Snapped(u, v, x, e, n) ==
  /\ links'[u][v] = IF Between(u, v, x, e) THEN links[u][v] \ {n} ELSE links[u][v]
  /\ \A m \in Link : wire'[u][v][m] = IF Between(u, v, x, e) /\ m = n THEN <<>> ELSE wire[u][v][m]

LEMMA BreakIs ==
  ASSUME Inv, Rest, NEW x \in Device, NEW e \in Device, Break(x, e)
  PROVE  \E n \in links[x][e] : n \in Link /\ \A u, v \in Device : Snapped(u, v, x, e, n)
<1>1. PICK n \in links[x][e] :
        /\ links' = [links EXCEPT ![x][e] = @ \ {n}, ![e][x] = @ \ {n}]
        /\ wire' = [wire EXCEPT ![x][e][n] = <<>>, ![e][x][n] = <<>>]
  BY DEF Break
<1> DEFINE one == [links EXCEPT ![x][e] = @ \ {n}]
           cut == Emptying(wire, x, e, n)
<1>2. n \in Link
  BY DEF Rest, Bonds
<1>3. /\ one \in [Device -> [Device -> SUBSET Link]]
      /\ \A u, v \in Device : one[u][v] = IF u = x /\ v = e THEN links[u][v] \ {n} ELSE links[u][v]
  BY DEF Rest, Bonds
<1>4. /\ cut \in Wires
      /\ \A u, v \in Device : \A m \in Link :
           cut[u][v][m] = IF u = x /\ v = e /\ m = n THEN <<>> ELSE wire[u][v][m]
  BY <1>2, Emptied DEF Inv, Types
<1>5. links' = [one EXCEPT ![e][x] = @ \ {n}] /\ wire' = Emptying(cut, e, x, n)
  BY <1>1 DEF Emptying
<1> HIDE DEF one, cut
<1>6. \A u, v \in Device : links'[u][v] = IF u = e /\ v = x THEN one[u][v] \ {n} ELSE one[u][v]
  BY <1>3, <1>5
<1>7. \A u, v \in Device : \A m \in Link :
        wire'[u][v][m] = IF u = e /\ v = x /\ m = n THEN <<>> ELSE cut[u][v][m]
  <2>1. /\ cut \in Wires /\ n \in Link /\ e \in Device /\ x \in Device
        /\ wire' = Emptying(cut, e, x, n)
    BY <1>2, <1>4, <1>5
  <2>2. \A u, v \in Device : \A m \in Link :
          Emptying(cut, e, x, n)[u][v][m] = IF u = e /\ v = x /\ m = n THEN <<>> ELSE cut[u][v][m]
    <3>1. ASSUME NEW z \in Wires
          PROVE  \A u, v \in Device : \A m \in Link :
                   Emptying(z, e, x, n)[u][v][m] = IF u = e /\ v = x /\ m = n THEN <<>> ELSE z[u][v][m]
      BY <2>1, Emptied
    <3> QED BY <2>1, <3>1
  <2> QED BY <2>1, <2>2
<1>8. ASSUME NEW u \in Device, NEW v \in Device
      PROVE  links'[u][v] = IF Between(u, v, x, e) THEN links[u][v] \ {n} ELSE links[u][v]
  <2>1. \A S : (S \ {n}) \ {n} = S \ {n}
    OBVIOUS
  <2>2. CASE u = e /\ v = x
    <3>1. links'[u][v] = one[u][v] \ {n}
      BY <1>6, <2>2
    <3>2. one[u][v] = links[u][v] \ {n} \/ one[u][v] = links[u][v]
      BY <1>3
    <3>3. (links[u][v] \ {n}) \ {n} = links[u][v] \ {n}
      OBVIOUS
    <3> QED BY <2>2, <3>1, <3>2, <3>3 DEF Between
  <2>3. CASE ~(u = e /\ v = x)
    <3>1. links'[u][v] = one[u][v]
      BY <1>6, <2>3
    <3> QED BY <1>3, <2>3, <3>1 DEF Between
  <2> QED BY <2>2, <2>3
<1>9. ASSUME NEW u \in Device, NEW v \in Device, NEW m \in Link
      PROVE  wire'[u][v][m] = IF Between(u, v, x, e) /\ m = n THEN <<>> ELSE wire[u][v][m]
  BY <1>4, <1>7 DEF Between
<1>10. ASSUME NEW u \in Device, NEW v \in Device PROVE Snapped(u, v, x, e, n)
  BY <1>8, <1>9 DEF Snapped
<1> QED BY <1>2, <1>10

LEMMA ConnectIs ==
  ASSUME Inv, Rest, NEW x \in Device, NEW e \in Device, Connect(x, e)
  PROVE  /\ opened' = opened + 1 /\ x # e /\ opened + 1 \in Link /\ wire' = wire
         /\ \A u, v \in Device : links'[u][v] = IF Between(u, v, x, e) THEN links[u][v] \cup {opened + 1}
                                                                  ELSE links[u][v]
<1>1. /\ links' = [links EXCEPT ![x][e] = @ \cup {opened + 1}, ![e][x] = @ \cup {opened + 1}]
      /\ opened' = opened + 1 /\ x # e /\ opened + 1 \in Link /\ wire' = wire
  BY TransferAssumption DEF Connect, Link, Rest, Bonds
<1> DEFINE one == [links EXCEPT ![x][e] = @ \cup {opened + 1}]
<1>3. /\ one \in [Device -> [Device -> SUBSET Link]]
      /\ \A u, v \in Device : one[u][v] = IF u = x /\ v = e THEN links[u][v] \cup {opened + 1} ELSE links[u][v]
  BY <1>1 DEF Rest, Bonds
<1>5. links' = [one EXCEPT ![e][x] = @ \cup {opened + 1}]
  BY <1>1
<1> HIDE DEF one
<1>6. \A u, v \in Device : links'[u][v] = IF u = e /\ v = x THEN one[u][v] \cup {opened + 1} ELSE one[u][v]
  BY <1>3, <1>5
<1>8. ASSUME NEW u \in Device, NEW v \in Device
      PROVE  links'[u][v] = IF Between(u, v, x, e) THEN links[u][v] \cup {opened + 1} ELSE links[u][v]
  <2>1. one[u][v] = IF u = x /\ v = e THEN links[u][v] \cup {opened + 1} ELSE links[u][v]
    BY <1>3
  <2>2. links'[u][v] = IF u = e /\ v = x THEN one[u][v] \cup {opened + 1} ELSE one[u][v]
    BY <1>6
  <2>3. ~ (u = e /\ v = x /\ u = x /\ v = e)
    BY <1>1
  <2> QED BY <2>1, <2>2, <2>3 DEF Between
<1> QED BY <1>1, <1>8

LEMMA SourceLoops ==
  ASSUME Inv, Rest, NEW x \in Device, NEW k \in DOMAIN loops[x],
         Open(x, k) \/ SendChunk(x, k) \/ GiveUp(x, k)
  PROVE  Same(x) /\ Onward(loops'[x], loops[x], k, gen[x], gen'[x])
<1>1. CASE Open(x, k)
  BY <1>1, OpenIs DEF Rest, Turned, Same
<1>2. CASE SendChunk(x, k)
  <2>1. /\ Onward(loops'[x], loops[x], k, gen[x], gen'[x])
        /\ Turned(x, [loops[x] EXCEPT ![k].off = @ + 1], k, gen[x], lastAck[x])
    BY <1>2, SendChunkIs DEF Rest
  <2> QED BY <2>1 DEF Turned, Same
<1>3. CASE GiveUp(x, k)
  BY <1>3, GiveUpIs DEF Rest, Turned, Same
<1> QED BY <1>1, <1>2, <1>3

LEMMA LoopsStay ==
  ASSUME [Next]_vars, ~\E x \in Device : SourceStep(x) \/ Restart(x),
         ~\E x, e \in Device : Deliver(x, e), Inv, Rest
  PROVE  UNCHANGED serving
<1>1. ASSUME NEW x \in Device, Pull(x) PROVE UNCHANGED serving
  BY <1>1, PullIs
<1>2. ASSUME NEW x \in Device, Receive(x) \/ Cancel(x) PROVE UNCHANGED serving
  BY <1>2 DEF Receive, Cancel
<1>3. CASE \/ UNCHANGED vars \/ ChangeFile
           \/ \E x, e \in Device : Connect(x, e) \/ Break(x, e) \/ NoteAddress(x, e)
  BY <1>3 DEF Connect, Break, NoteAddress, ChangeFile, vars
<1> QED BY <1>1, <1>2, <1>3 DEF Next

LEMMA LoopsCome ==
  ASSUME Inv, Rest, Finite, [Next]_vars, NEW x \in Device
  PROVE  /\ \A k \in DOMAIN loops'[x] :
              \/ /\ k \in DOMAIN loops[x] /\ loops'[x][k].peer = loops[x][k].peer
                 /\ loops'[x][k].attempt = loops[x][k].attempt /\ loops'[x][k].gen = loops[x][k].gen
              \/ \E e \in Device, n \in Link :
                   /\ wire[e][x][n] # <<>> /\ Head(wire[e][x][n]) \in Fetches
                   /\ loops'[x][k] = Request(e, Head(wire[e][x][n]), gen[x] + 1)
         /\ \E k \in Nat \ {0} : DOMAIN loops'[x] \subseteq DOMAIN loops[x] \cup {k}
<1> DEFINE Goal ==
         /\ \A k \in DOMAIN loops'[x] :
              \/ /\ k \in DOMAIN loops[x] /\ loops'[x][k].peer = loops[x][k].peer
                 /\ loops'[x][k].attempt = loops[x][k].attempt /\ loops'[x][k].gen = loops[x][k].gen
              \/ \E e \in Device, n \in Link :
                   /\ wire[e][x][n] # <<>> /\ Head(wire[e][x][n]) \in Fetches
                   /\ loops'[x][k] = Request(e, Head(wire[e][x][n]), gen[x] + 1)
         /\ \E k \in Nat \ {0} : DOMAIN loops'[x] \subseteq DOMAIN loops[x] \cup {k}
<1>0. 1 \in Nat \ {0}
  OBVIOUS
<1>1. CASE loops'[x] = loops[x]
  BY <1>0, <1>1
<1>2. ASSUME NEW y \in Device, SourceStep(y) PROVE Goal
  <2>1. PICK k \in DOMAIN loops[y] : Open(y, k) \/ SendChunk(y, k) \/ GiveUp(y, k)
    BY <1>2 DEF SourceStep
  <2>2. Same(y) /\ Onward(loops'[y], loops[y], k, gen[y], gen'[y])
    BY <2>1, SourceLoops
  <2>3. CASE x # y
    BY <1>1, <2>2, <2>3 DEF Same
  <2>4. CASE x = y
    BY <1>0, <2>2, <2>4 DEF Onward
  <2> QED BY <2>3, <2>4
<1>3. ASSUME NEW y \in Device, Restart(y) PROVE Goal
  <2>1. loops'[y] = <<>> /\ (x # y => loops'[x] = loops[x])
    BY <1>3 DEF Restart, Inv, Serves
  <2>2. DOMAIN <<>> = {}
    OBVIOUS
  <2> QED BY <1>0, <1>1, <2>1, <2>2
<1>4. ASSUME NEW y \in Device, NEW e \in Device, Deliver(y, e) PROVE Goal
  <2>1. PICK n \in Link : FetchStep(y, e, n) \/ AckStep(y, e, n) \/ DataStep(y, e, n)
    BY <1>4, DeliverCases
  <2>2. CASE DataStep(y, e, n)
    BY <1>1, <2>2 DEF DataStep, serving
  <2>3. CASE AckStep(y, e, n)
    <3>0. TakeAck(y, Head(wire[e][y][n])) /\ Marks /\ 0 \notin DOMAIN loops[y]
      BY <2>3 DEF AckStep, Rest, Finite
    <3>1. PICK ack : Same(y) /\ (\A l : Follows(y, 0, l, ack)) /\ DOMAIN loops'[y] \subseteq DOMAIN loops[y]
      BY <3>0, AckIs
    <3>2. CASE x # y
      BY <1>1, <3>1, <3>2 DEF Same
    <3>3. CASE x = y
      <4>1. Follows(y, 0, loops, ack)
        BY <3>1
      <4> QED BY <1>0, <3>0, <3>1, <3>3, <4>1 DEF Follows
    <3> QED BY <3>2, <3>3
  <2>4. CASE FetchStep(y, e, n)
    <3> DEFINE env == Head(wire[e][y][n])
    <3>0. wire[e][y][n] # <<>> /\ env \in Fetches /\ TakeFetch(y, e, env) /\ Marks
      BY <2>4 DEF FetchStep, Rest
    <3> HIDE DEF env
    <3>1. /\ Same(y)
          /\ \E k \in Nat \ {0} : k \notin DOMAIN loops[y] /\ Follows(y, k, Request(e, env, gen[y] + 1), env.offset)
      BY <3>0, FetchIs
    <3>2. PICK k \in Nat \ {0} : Follows(y, k, Request(e, env, gen[y] + 1), env.offset)
      BY <3>1
    <3>3. CASE x # y
      BY <1>1, <3>1, <3>3 DEF Same
    <3>4. CASE x = y
      <4>1. \A j \in DOMAIN loops'[x] :
              \/ /\ j \in DOMAIN loops[x] /\ loops'[x][j].peer = loops[x][j].peer
                 /\ loops'[x][j].attempt = loops[x][j].attempt /\ loops'[x][j].gen = loops[x][j].gen
              \/ j = k /\ loops'[x][j] = Request(e, env, gen[x] + 1)
        BY <3>2, <3>4 DEF Follows
      <4> QED BY <3>0, <3>4, <4>1 DEF env
    <3> QED BY <3>3, <3>4
  <2> QED BY <2>1, <2>2, <2>3, <2>4
<1>5. CASE UNCHANGED serving
  BY <1>1, <1>5 DEF serving
<1> HIDE DEF Goal
<1> QED BY <1>2, <1>3, <1>4, <1>5, LoopsStay DEF Goal

-----------------------------------------------------------------------------
(* The ground: what holds whatever goes wrong. *)

\* the types, and what holds whatever goes wrong
Base == Tied /\ Positive /\ Pristine /\ Secure /\ Finite
Ground == Inv /\ Rest /\ Base

LEMMA LinksStay ==
  ASSUME [Next]_vars, ~\E x \in Device : Restart(x), Inv, Rest,
         ~\E x, e \in Device : Connect(x, e) \/ Break(x, e)
  PROVE  UNCHANGED <<links, opened>>
<1>1. ASSUME NEW x \in Device, SourceStep(x) \/ Receive(x) \/ Pull(x) \/ Cancel(x) PROVE UNCHANGED <<links, opened>>
  BY <1>1, SourceIs, PullIs DEF Receive, Cancel
<1>2. ASSUME NEW x \in Device, NEW e \in Device, Deliver(x, e) \/ NoteAddress(x, e) PROVE UNCHANGED <<links, opened>>
  BY Zenon, <1>2 DEF Deliver, NoteAddress, bounds
<1>3. CASE UNCHANGED vars \/ ChangeFile
  BY <1>3 DEF vars, ChangeFile, bounds
<1> QED BY <1>1, <1>2, <1>3 DEF Next

LEMMA WireComes ==
  ASSUME Ground, [Next]_vars, NEW u \in Device, NEW v \in Device, NEW m \in Link,
         NEW i \in DOMAIN wire'[u][v][m]
  PROVE  \/ Old(u, v, m, wire'[u][v][m][i])
         \/ m \in links[u][v] /\ UNCHANGED <<links, opened>> /\ Brought(u, v, wire'[u][v][m][i])
<1> DEFINE Goal == \/ Old(u, v, m, wire'[u][v][m][i])
                   \/ m \in links[u][v] /\ UNCHANGED <<links, opened>> /\ Brought(u, v, wire'[u][v][m][i])
<1>1. ASSUME NEW x \in Device, SourceStep(x) \/ Pull(x) PROVE Goal
  BY <1>1, SourceBrings, PullBrings, SourceIs, PullIs DEF Ground, Base
<1>2. ASSUME NEW x \in Device, NEW e \in Device, Deliver(x, e) PROVE Goal
  <2>1. UNCHANGED <<links, opened>>
    BY <1>2 DEF Deliver, bounds
  <2> QED BY <1>2, <2>1, DeliverBrings DEF Ground, Base
<1>3. CASE UNCHANGED wire
  BY <1>3 DEF Old
<1>4. ASSUME NEW x \in Device, Receive(x) \/ Cancel(x) PROVE UNCHANGED wire
  BY <1>4 DEF Receive, Cancel
<1>5. ASSUME NEW x \in Device, NEW e \in Device, Connect(x, e) \/ NoteAddress(x, e) PROVE UNCHANGED wire
  BY <1>5 DEF Connect, NoteAddress
<1>6. UNCHANGED vars \/ ChangeFile => UNCHANGED wire
  BY DEF vars, ChangeFile
<1>7. ASSUME NEW x \in Device, Restart(x) PROVE Goal
  <2>1. wire'[u][v][m] = IF x \in {u, v} THEN <<>> ELSE wire[u][v][m]
    BY <1>7 DEF Restart
  <2> QED BY <2>1 DEF Old
<1>8. ASSUME NEW x \in Device, NEW e \in Device, Break(x, e) PROVE Goal
  <2>1. PICK n \in links[x][e] : n \in Link /\ \A p, q \in Device : Snapped(p, q, x, e, n)
    BY <1>8, BreakIs DEF Ground
  <2>2. wire'[u][v][m] = <<>> \/ wire'[u][v][m] = wire[u][v][m]
    BY <2>1 DEF Snapped
  <2> QED BY <2>2 DEF Old
<1> HIDE DEF Goal
<1> QED BY <1>1, <1>2, <1>3, <1>4, <1>5, <1>6, <1>7, <1>8 DEF Next, Goal

LEMMA HeadIs ==
  ASSUME Inv, NEW e \in Device, NEW x \in Device, NEW n \in Link, wire[e][x][n] # <<>>
  PROVE  1 \in DOMAIN wire[e][x][n] /\ Head(wire[e][x][n]) = wire[e][x][n][1]
<1>1. wire[e][x][n] \in Seq(Envelope)
  BY DEF Inv, Types, Wires
<1> QED BY <1>1

LEMMA StepFinite == ASSUME Ground, [Next]_vars PROVE Finite'
<1> SUFFICES ASSUME NEW x \in Device
             PROVE  IsFiniteSet(DOMAIN loops'[x]) /\ 0 \notin DOMAIN loops'[x]
  BY DEF Finite
<1>1. PICK k \in Nat \ {0} : DOMAIN loops'[x] \subseteq DOMAIN loops[x] \cup {k}
  BY LoopsCome DEF Ground, Base
<1>2. IsFiniteSet(DOMAIN loops[x] \cup {k})
  BY FS_AddElement DEF Ground, Base, Finite
<1>3. DOMAIN loops'[x] \in SUBSET (DOMAIN loops[x] \cup {k})
  BY <1>1
<1>4. IsFiniteSet(DOMAIN loops'[x])
  BY <1>2, <1>3, FS_Subset
<1> QED BY <1>1, <1>4 DEF Ground, Base, Finite

LEMMA StepPositive == ASSUME Ground, [Next]_vars PROVE Positive'
<1>1. ASSUME NEW x \in Device, NEW k \in DOMAIN loops'[x]
      PROVE  loops'[x][k].gen # 0 /\ loops'[x][k].attempt # 0
  <2>1. CASE /\ k \in DOMAIN loops[x] /\ loops'[x][k].attempt = loops[x][k].attempt
             /\ loops'[x][k].gen = loops[x][k].gen
    BY <2>1 DEF Ground, Base, Positive
  <2>2. ASSUME NEW e \in Device, NEW n \in Link, wire[e][x][n] # <<>>, Head(wire[e][x][n]) \in Fetches,
               loops'[x][k] = Request(e, Head(wire[e][x][n]), gen[x] + 1)
        PROVE  loops'[x][k].gen # 0 /\ loops'[x][k].attempt # 0
    <3>1. 1 \in DOMAIN wire[e][x][n] /\ Head(wire[e][x][n]) = wire[e][x][n][1]
      BY <2>2, HeadIs DEF Ground
    <3>2. Head(wire[e][x][n]).attempt # 0
      BY <2>2, <3>1 DEF Ground, Base, Positive
    <3>3. gen[x] + 1 # 0
      BY DEF Ground, Inv, Types
    <3> QED BY <2>2, <3>2, <3>3 DEF Request
  <2> QED BY <2>1, <2>2, LoopsCome DEF Ground, Base
<1>2. ASSUME NEW x \in Device, NEW y \in Device, NEW n \in Link, NEW i \in DOMAIN wire'[x][y][n],
             wire'[x][y][n][i] \in Fetches \cup Frames
      PROVE  wire'[x][y][n][i].attempt # 0
  <2>1. CASE Old(x, y, n, wire'[x][y][n][i])
    BY <1>2, <2>1 DEF Old, Ground, Base, Positive
  <2>2. CASE Brought(x, y, wire'[x][y][n][i])
    <3>1. wire'[x][y][n][i] \notin Acks
      BY <1>2 DEF Acks, Frames, Fetches
    <3> QED BY <2>2, <3>1 DEF Brought, Ground, Base, Positive
  <2> QED BY <2>1, <2>2, WireComes
<1> QED BY <1>1, <1>2 DEF Positive

LEMMA StepTied == ASSUME Ground, [Next]_vars PROVE Tied'
<1>0. Tied /\ Inv /\ Rest
  BY DEF Ground, Base
<1>1. ASSUME NEW x \in Device, NEW y \in Device
      PROVE  /\ links'[x][y] = links'[y][x] /\ links'[x][x] = {}
             /\ links'[x][y] \subseteq 0 .. opened'
             /\ \A n \in Link : n \in links[x][y] /\ n \notin links'[x][y] => wire'[x][y][n] = <<>>
  <2>1. CASE UNCHANGED <<links, opened>>
    BY <1>0, <2>1 DEF Tied
  <2>2. ASSUME NEW d \in Device, Restart(d)
        PROVE  /\ links'[x][y] = links'[y][x] /\ links'[x][x] = {}
               /\ links'[x][y] \subseteq 0 .. opened'
               /\ \A n \in Link : n \in links[x][y] /\ n \notin links'[x][y] => wire'[x][y][n] = <<>>
    BY <1>0, <2>2 DEF Restart, Tied
  <2>3. ASSUME NEW d \in Device, NEW e \in Device, Break(d, e)
        PROVE  /\ links'[x][y] = links'[y][x] /\ links'[x][x] = {}
               /\ links'[x][y] \subseteq 0 .. opened'
               /\ \A n \in Link : n \in links[x][y] /\ n \notin links'[x][y] => wire'[x][y][n] = <<>>
    <3>1. PICK n \in links[d][e] : n \in Link /\ \A u, v \in Device : Snapped(u, v, d, e, n)
      BY <1>0, <2>3, BreakIs
    <3>8. Snapped(x, y, d, e, n) /\ Snapped(y, x, d, e, n) /\ Snapped(x, x, d, e, n)
      BY <3>1
    <3>2. opened' = opened
      BY <2>3 DEF Break
    <3>3. Between(x, y, d, e) <=> Between(y, x, d, e)
      BY DEF Between
    <3>4. links[x][y] = links[y][x] /\ links[x][x] = {} /\ links[x][y] \subseteq 0 .. opened
      BY <1>0 DEF Tied
    <3>5. links'[x][y] = links'[y][x]
      BY <3>8, <3>3, <3>4 DEF Snapped
    <3>6. links'[x][x] \subseteq links[x][x] /\ links'[x][y] \subseteq links[x][y]
      BY <3>8 DEF Snapped
    <3>7. \A m \in Link : m \in links[x][y] /\ m \notin links'[x][y] => wire'[x][y][m] = <<>>
      <4>1. \A m \in links[x][y] : m \notin links'[x][y] => Between(x, y, d, e) /\ m = n
        BY <3>8 DEF Snapped
      <4> QED BY <3>8, <4>1 DEF Snapped
    <3> QED BY <3>2, <3>4, <3>5, <3>6, <3>7
  <2>4. ASSUME NEW d \in Device, NEW e \in Device, Connect(d, e)
        PROVE  /\ links'[x][y] = links'[y][x] /\ links'[x][x] = {}
               /\ links'[x][y] \subseteq 0 .. opened'
               /\ \A n \in Link : n \in links[x][y] /\ n \notin links'[x][y] => wire'[x][y][n] = <<>>
    <3>1. /\ opened' = opened + 1 /\ d # e /\ opened \in Nat
          /\ \A u, v \in Device : links'[u][v] = IF Between(u, v, d, e) THEN links[u][v] \cup {opened + 1}
                                                                       ELSE links[u][v]
      BY <1>0, <2>4, ConnectIs DEF Rest, Bonds
    <3>2. 0 .. opened \subseteq 0 .. opened + 1 /\ opened + 1 \in 0 .. opened + 1
      BY <3>1
    <3>3. (Between(x, y, d, e) <=> Between(y, x, d, e)) /\ ~Between(x, x, d, e)
      BY <3>1 DEF Between
    <3>4. links[x][y] = links[y][x] /\ links[x][x] = {} /\ links[x][y] \subseteq 0 .. opened
      BY <1>0 DEF Tied
    <3>5. links'[x][y] = links'[y][x] /\ links'[x][x] = {} /\ links[x][y] \subseteq links'[x][y]
      BY <3>1, <3>3, <3>4
    <3>6. links'[x][y] \subseteq links[x][y] \cup {opened + 1}
      BY <3>1
    <3> QED BY <3>1, <3>2, <3>4, <3>5, <3>6
  <2> QED BY <1>0, <2>1, <2>2, <2>3, <2>4, LinksStay
<1>2. ASSUME NEW x \in Device, NEW y \in Device, NEW n \in Link, wire'[x][y][n] # <<>>
      PROVE  n \in links'[x][y]
  <2>0. wire'[x][y][n] \in Seq(Envelope)
    BY <1>0, NextInv DEF Inv, Types, Wires
  <2>1. 1 \in DOMAIN wire'[x][y][n]
    BY <1>2, <2>0
  <2>2. Old(x, y, n, wire'[x][y][n][1]) => wire[x][y][n] # <<>>
    BY DEF Old
  <2>3. n \in links[x][y]
    BY <1>0, <2>1, <2>2, WireComes DEF Tied
  <2> QED BY <1>1, <1>2, <2>3
<1>3. ASSUME NEW x \in Device, NEW k \in DOMAIN loops'[x] PROVE loops'[x][k].peer # x
  <2>1. CASE k \in DOMAIN loops[x] /\ loops'[x][k].peer = loops[x][k].peer
    BY <1>0, <2>1 DEF Tied
  <2>2. ASSUME NEW e \in Device, NEW n \in Link, wire[e][x][n] # <<>>,
               loops'[x][k] = Request(e, Head(wire[e][x][n]), gen[x] + 1)
        PROVE  loops'[x][k].peer # x
    BY <1>0, <2>2 DEF Tied, Request
  <2> QED BY <2>1, <2>2, LoopsCome DEF Ground, Base
<1> QED BY <1>1, <1>2, <1>3 DEF Tied

-----------------------------------------------------------------------------
(* Pieces of the file as announced. *)

LEMMA OriginalTogether ==
  ASSUME NEW s \in Seq(Piece), NEW t \in Seq(Piece), Original(s), Original(t)
  PROVE  Original(s \o t)
<1> SUFFICES ASSUME NEW i \in DOMAIN (s \o t) PROVE (s \o t)[i][2] = 1
  BY DEF Original
<1>1. /\ Len(s \o t) = Len(s) + Len(t) /\ i \in 1 .. Len(s) + Len(t) /\ Len(s) \in Nat /\ Len(t) \in Nat
      /\ DOMAIN s = 1 .. Len(s) /\ DOMAIN t = 1 .. Len(t)
  BY ConcatProperties, LenProperties
<1>2. CASE i <= Len(s)
  <2>1. (s \o t)[i] = s[i] /\ i \in DOMAIN s
    BY <1>1, <1>2, ConcatProperties
  <2> QED BY <2>1 DEF Original
<1>3. CASE i > Len(s)
  <2>1. (s \o t)[i] = t[i - Len(s)] /\ i - Len(s) \in DOMAIN t
    BY <1>1, <1>3, ConcatProperties
  <2> QED BY <2>1 DEF Original
<1> QED BY <1>1, <1>2, <1>3

LEMMA OriginalMore ==
  ASSUME NEW s \in Seq(Piece), NEW c \in Piece, Original(s), c[2] = 1
  PROVE  Original(Append(s, c))
<1>1. /\ DOMAIN Append(s, c) = 1 .. Len(s) + 1 /\ DOMAIN s = 1 .. Len(s) /\ Len(s) \in Nat
      /\ \A i \in 1 .. Len(s) : Append(s, c)[i] = s[i]
      /\ Append(s, c)[Len(s) + 1] = c
  BY AppendProperties, LenProperties
<1> QED BY <1>1 DEF Original

LEMMA OriginalLess ==
  ASSUME NEW s \in Seq(Piece), Original(s), NEW n \in 0 .. Len(s)
  PROVE  Original(SubSeq(s, 1, n))
<1>1. Len(s) \in Nat /\ DOMAIN s = 1 .. Len(s)
  BY LenProperties
<1>2. \A i \in 1 .. n : s[i] \in Piece
  BY <1>1, ElementOfSeq
<1>3. /\ Len(SubSeq(s, 1, n)) = n /\ SubSeq(s, 1, n) \in Seq(Piece)
      /\ \A i \in 1 .. n : SubSeq(s, 1, n)[i] = s[i]
  <2>1. /\ SubSeq(s, 1, n) \in Seq(Piece)
        /\ Len(SubSeq(s, 1, n)) = IF 1 <= n THEN n - 1 + 1 ELSE 0
        /\ \A i \in 1 .. n - 1 + 1 : SubSeq(s, 1, n)[i] = s[1 + i - 1]
    BY <1>1, <1>2, SubSeqProperties
  <2> QED BY <1>1, <2>1
<1>4. DOMAIN SubSeq(s, 1, n) = 1 .. n
  BY <1>3, LenProperties
<1> QED BY <1>1, <1>3, <1>4 DEF Original

LEMMA VersionStays == ASSUME [Next]_vars, Inv, Rest PROVE version' = version \/ (version = 1 /\ version' # 1)
<1>1. ASSUME NEW x \in Device, SourceStep(x) \/ Receive(x) \/ Pull(x) \/ Cancel(x) \/ Restart(x) PROVE UNCHANGED version
  BY <1>1, SourceIs, PullIs DEF Receive, Cancel, Restart
<1>2. ASSUME NEW x \in Device, NEW e \in Device, Deliver(x, e) \/ NoteAddress(x, e) \/ Connect(x, e) \/ Break(x, e)
      PROVE UNCHANGED version
  BY Zenon, <1>2 DEF Deliver, NoteAddress, Connect, Break
<1>3. CASE UNCHANGED vars
  BY <1>3 DEF vars
<1>4. CASE ChangeFile
  BY <1>4 DEF ChangeFile
<1> QED BY <1>1, <1>2, <1>3, <1>4 DEF Next

LEMMA PartsOriginal ==
  ASSUME Ground, [Next]_vars, version = 1, NEW x \in Device PROVE Original(part'[x])
<1>0. /\ Original(part[x]) /\ part[x] \in Prefix /\ part[x] \in Seq(Piece) /\ Original(<<>>)
      /\ Inv /\ Rest /\ Len(part[x]) \in Nat
  BY DEF Ground, Base, Pristine, Inv, Types, Prefix, Original
<1>1. CASE part'[x] = part[x]
  BY <1>0, <1>1
<1>2. ASSUME NEW y \in Device, Pull(y) PROVE Original(part'[x])
  <2>1. CASE x # y
    BY <1>0, <1>1, <1>2, <2>1, PullIs DEF OwnOf, Pulls
  <2>2. CASE x = y /\ TakeDirect(x)
    <3> DEFINE e == Head(todo[x])
               c == ReadAt(e, Len(part[x]))
    <3>1. e \in Device /\ Holds(e) /\ Len(part[x]) < Chunks
      BY <2>2 DEF TakeDirect, Ground, Base, Secure, Known
    <3>2. c \in Piece /\ c[2] = 1
      BY <1>0, <3>1, ReadsThePlace, ReadsOriginal
    <3>3. part' = part \/ part' = [part EXCEPT ![x] = Append(@, c)]
      BY <2>2 DEF TakeDirect
    <3> HIDE DEF c
    <3>4. part'[x] = part[x] \/ part'[x] = Append(part[x], c)
      BY <1>0, <3>3 DEF Inv, Types
    <3> QED BY <1>0, <3>2, <3>4, OriginalMore
  <2>3. CASE x = y /\ Check(x)
    BY <1>0, <2>3 DEF Check, Inv, Types
  <2>4. CASE x = y /\ ~TakeDirect(x) /\ ~Check(x)
    <3>1. UNCHANGED part
      BY <1>2, <2>4 DEF Pull, Ask, AskOver, Dial, Skip, DirectEnds, DirectRefused, FallBack, Stall
    <3> QED BY <1>1, <3>1
  <2> QED BY <2>1, <2>2, <2>3, <2>4
<1>3. ASSUME NEW y \in Device, NEW e \in Device, Deliver(y, e) PROVE Original(part'[x])
  <2>1. PICK n \in Link : FetchStep(y, e, n) \/ AckStep(y, e, n) \/ DataStep(y, e, n)
    BY <1>0, <1>3, DeliverCases
  <2>2. CASE FetchStep(y, e, n) \/ AckStep(y, e, n)
    BY <1>1, <2>2 DEF FetchStep, AckStep, pulling
  <2>3. CASE DataStep(y, e, n)
    <3> DEFINE env == Head(wire[e][y][n])
    <3>1. env \in Frames /\ env.data \in Seq(Piece) /\ Original(env.data)
      <4>1. env \in Frames /\ 1 \in DOMAIN wire[e][y][n] /\ env = wire[e][y][n][1]
        BY <1>0, <2>3, HeadIs DEF DataStep
      <4> QED BY <4>1 DEF Frames, Ground, Base, Pristine
    <3>2. part' = part \/ part' = [part EXCEPT ![y] = @ \o env.data]
      BY Zenon, <2>3 DEF DataStep, TakeData, pulling
    <3> HIDE DEF env
    <3>3. part'[x] = part[x] \/ part'[x] = part[x] \o env.data
      BY <1>0, <3>2 DEF Inv, Types
    <3> QED BY <1>0, <3>1, <3>3, OriginalTogether
  <2> QED BY <2>1, <2>2, <2>3
<1>4. ASSUME NEW y \in Device, Restart(y) PROVE Original(part'[x])
  <2>1. PICK n \in 0 .. Len(part[y]) : part' = [part EXCEPT ![y] = SubSeq(@, 1, n)]
    BY <1>4 DEF Restart
  <2>2. part'[x] = part[x] \/ (x = y /\ part'[x] = SubSeq(part[x], 1, n))
    BY <1>0, <2>1 DEF Inv, Types
  <2> QED BY <1>0, <2>1, <2>2, OriginalLess
<1>5. ASSUME NEW y \in Device, Receive(y) \/ SourceStep(y) \/ Cancel(y) PROVE UNCHANGED part
  BY <1>5, SourceIs DEF Receive, Cancel, pulling
<1>6. CASE \/ UNCHANGED vars \/ ChangeFile
           \/ \E y, e \in Device : Connect(y, e) \/ Break(y, e) \/ NoteAddress(y, e)
  <2>1. UNCHANGED part
    BY <1>6, AroundIs DEF pulling
  <2> QED BY <1>1, <2>1
<1> QED BY <1>1, <1>2, <1>3, <1>4, <1>5, <1>6 DEF Next

LEMMA StepPristine == ASSUME Ground, [Next]_vars PROVE Pristine'
<1> SUFFICES ASSUME version' = 1, NEW x \in Device, NEW y \in Device
             PROVE  /\ Original(part'[x])
                    /\ \A n \in Link : \A i \in DOMAIN wire'[x][y][n] :
                         wire'[x][y][n][i] \in Frames => Original(wire'[x][y][n][i].data)
  BY DEF Pristine, Original
<1>1. version = 1
  BY VersionStays DEF Ground
<1>2. Original(part'[x])
  BY <1>1, PartsOriginal
<1>3. ASSUME NEW n \in Link, NEW i \in DOMAIN wire'[x][y][n], wire'[x][y][n][i] \in Frames
      PROVE  Original(wire'[x][y][n][i].data)
  <2> DEFINE f == wire'[x][y][n][i]
  <2>1. f \notin Acks /\ f \notin Fetches
    BY <1>3 DEF Acks, Frames, Fetches
  <2> HIDE DEF f
  <2>2. CASE Old(x, y, n, f)
    BY <1>1, <1>3, <2>2 DEF Old, Ground, Base, Pristine, f
  <2>3. CASE Brought(x, y, f)
    BY <1>1, <2>1, <2>3 DEF Brought, f
  <2>4. Old(x, y, n, f) \/ Brought(x, y, f)
    BY <1>3, WireComes DEF f
  <2> QED BY <2>2, <2>3, <2>4 DEF f
<1> QED BY <1>2, <1>3

LEMMA InitGround == ASSUME Init PROVE Ground
<1>1. Inv /\ Rest
  BY InitInv, InitRest
<1>2. DOMAIN <<>> = {} /\ IsFiniteSet({}) /\ MaxLinks \in Nat /\ 0 \in Link
  BY FS_EmptySet, TransferAssumption DEF Link
<1>3. Tied
  BY <1>2 DEF Init, Tied
<1>4. Positive /\ Pristine /\ Finite
  BY <1>2 DEF Init, Positive, Pristine, Finite, Original
<1>5. Unhurt
  BY DEF Init, Unhurt
<1>6. \A d \in Device : Known(d)
  BY DEF Init, Known
<1>7. state[Sender] = "done"
  BY TransferAssumption DEF Init
<1> QED BY <1>1, <1>3, <1>4, <1>5, <1>6, <1>7 DEF Ground, Base, Secure

LEMMA StepGround == ASSUME Ground, [Next]_vars PROVE Ground'
<1>0. Inv /\ Rest /\ Secure
  BY DEF Ground, Base
<1>1. Inv' /\ Rest'
  BY <1>0, NextInv, StepSources, StepMarks, StepBonds DEF Rest
<1>2. Tied' /\ Positive' /\ Pristine' /\ Finite'
  BY StepTied, StepPositive, StepPristine, StepFinite
<1>3. Unhurt' /\ \A d \in Device : Known(d)'
  BY <1>0, StepUnhurt, StepKnown DEF Secure
<1>4. state'[Sender] = "done"
  <2>1. Sender \in Device /\ state[Sender] = "done" /\ stage[Sender] = "idle"
    BY <1>0, TransferAssumption DEF Secure, Inv, DoneIsIdle
  <2>2. ASSUME NEW x \in Device, Pull(x) PROVE state'[Sender] = "done"
    BY <1>0, <2>1, <2>2, PullIs DEF OwnOf, Pulls
  <2>3. ASSUME NEW x \in Device, NEW e \in Device, Deliver(x, e) PROVE state'[Sender] = "done"
    BY <1>0, <2>1, <2>3, DeliverIsOwn DEF OnlyOf
  <2>4. ASSUME NEW x \in Device, SourceStep(x) \/ Receive(x) \/ Cancel(x) \/ Restart(x) PROVE UNCHANGED state
    BY <2>4, SourceIs DEF Receive, Cancel, Restart, pulling
  <2>5. CASE \/ UNCHANGED vars \/ ChangeFile
             \/ \E y, e \in Device : Connect(y, e) \/ Break(y, e) \/ NoteAddress(y, e)
    <3>1. UNCHANGED state
      BY <2>5, AroundIs DEF pulling
    <3> QED BY <2>1, <3>1
  <2> QED BY <2>1, <2>2, <2>3, <2>4, <2>5 DEF Next
<1>5. Secure'
  BY <1>3, <1>4 DEF Secure
<1> QED BY <1>1, <1>2, <1>5 DEF Ground, Base

-----------------------------------------------------------------------------
(* What is under way after a step. *)

LEMMA PutAfter ==
  ASSUME Bonds, NEW w \in Wires, NEW x \in Device, NEW y \in Device, NEW env, wire' = Put(x, y, env, w),
         NEW u \in Device, NEW v \in Device, NEW S
  PROVE  /\ env \notin S \/ u # x \/ v # y => After(wire'[u][v], w[u][v], S)
         /\ Keeps(wire'[u][v], w[u][v], S)
<1>0. w[u][v] \in Lines
  BY WireLines
<1>1. CASE u # x \/ v # y \/ ~Online(x, y)
  BY <1>0, <1>1, PutIs, AfterSame
<1>2. CASE u = x /\ v = y /\ Online(x, y)
  <2>1. Added(wire'[u][v], w[u][v], Max(links[u][v]), env) /\ Max(links[u][v]) \in Link
    BY <1>2, PutIs, NewestIs
  <2> QED BY <1>0, <1>2, <2>1, AddedAfter
<1> QED BY <1>1, <1>2

LEMMA TakeAfter ==
  ASSUME Inv, NEW x \in Device, NEW e \in Device, NEW n \in Link, wire[e][x][n] # <<>>,
         NEW u \in Device, NEW v \in Device, NEW S
  PROVE  /\ After(Taken(x, e, n)[u][v], wire[u][v], S)
         /\ Head(wire[e][x][n]) \notin S \/ u # e \/ v # x => Keeps(Taken(x, e, n)[u][v], wire[u][v], S)
<1> DEFINE w == Taken(x, e, n)
<1>0. wire[u][v] \in Lines /\ wire[e][x] \in Lines
  BY WireLines DEF Inv, Types
<1>1. /\ \A p, q \in Device : p # e \/ q # x => w[p][q] = wire[p][q]
      /\ Cut(w[e][x], wire[e][x], n)
  BY TakenIs DEF Taken
<1> HIDE DEF w
<1>2. CASE u # e \/ v # x
  BY <1>0, <1>1, <1>2, AfterSame DEF w
<1>3. CASE u = e /\ v = x
  BY <1>0, <1>1, <1>3, CutAfter DEF w
<1> QED BY <1>2, <1>3

LEMMA KeepsTwice ==
  ASSUME NEW U, NEW V, NEW W, NEW S, Keeps(V, W, S), Keeps(U, V, S) PROVE Keeps(U, W, S)
<1> SUFFICES ASSUME NEW n \in Link, NEW i \in DOMAIN W[n], W[n][i] \in S
             PROVE  \E j \in DOMAIN U[n] : U[n][j] = W[n][i]
  BY DEF Keeps
<1>1. PICK j \in DOMAIN V[n] : V[n][j] = W[n][i]
  BY DEF Keeps
<1> QED BY <1>1 DEF Keeps

LEMMA EmptyAfter ==
  ASSUME NEW W \in Lines, NEW V, \A n \in Link : V[n] = W[n] \/ V[n] = <<>>, NEW S
  PROVE  After(V, W, S)
<1> DEFINE h == [n \in Link |-> 0]
<1>1. h \in [Link -> Nat]
  OBVIOUS
<1>2. ASSUME NEW n \in Link, NEW i \in DOMAIN V[n]
      PROVE  i + h[n] \in DOMAIN W[n] /\ W[n][i + h[n]] = V[n][i]
  <2>1. W[n] \in Seq(Envelope) /\ V[n] = W[n]
    BY DEF Lines
  <2>2. i \in Nat /\ i + h[n] = i
    BY <2>1
  <2> QED BY <2>1, <2>2
<1> HIDE DEF h
<1> QED BY <1>1, <1>2 DEF After

LEMMA KeepsLess == ASSUME NEW V, NEW W, NEW T, Keeps(V, W, T), NEW S, S \subseteq T PROVE Keeps(V, W, S)
BY DEF Keeps

LEMMA Apart == /\ \A env : ~(env \in Fetches /\ env \in Frames) /\ ~(env \in Acks /\ env \in Frames)
                           /\ ~(env \in Acks /\ env \in Fetches)
BY DEF Fetches, Acks, Frames

-----------------------------------------------------------------------------
(* A pair of a receiver d and a source s. *)

\* nothing is added to a pair
Steady(d, s) ==
  /\ Among(loops'[s], loops[s], d) /\ Still(loops'[s], loops[s], d, Nat)
  /\ After(wire'[d][s], wire[d][s], Fetches)
  /\ After(wire'[s][d], wire[s][d], Frames)
  /\ links'[d][s] # {} => Keeps(wire'[s][d], wire[s][d], Sent({attempt[d]}))

\* what holds of a pair stays, also that there is no gap as long as the two are online
PairKept(d, s) ==
  Keeping(loops[s], wire[d][s], wire[s][d], loops'[s], wire'[d][s], wire'[s][d],
          d, attempt[d], Len(part[d]), links'[d][s] # {})

LEMMA PairTypes ==
  ASSUME Ground, [Next]_vars, NEW d \in Device, NEW s \in Device
  PROVE  /\ attempt[d] \in Nat /\ Len(part[d]) \in Nat /\ wire[d][s] \in Lines /\ wire[s][d] \in Lines
         /\ wire'[d][s] \in Lines /\ wire'[s][d] \in Lines /\ wire' \in Wires /\ wire \in Wires
         /\ Bonds /\ Marks /\ Inv
<1>1. Inv /\ Inv' /\ Rest
  BY NextInv DEF Ground
<1>2. wire \in Wires /\ wire' \in Wires
  BY <1>1 DEF Inv, Types
<1>3. part[d] \in Prefix /\ part[d] \in Seq(Piece)
  BY <1>1 DEF Inv, Types, Prefix
<1> QED BY <1>1, <1>2, <1>3, WireLines DEF Inv, Types, Rest

LEMMA SteadyPair ==
  ASSUME Ground, [Next]_vars, NEW d \in Device, NEW s \in Device, Steady(d, s)
  PROVE  PairKept(d, s)
<1>1. /\ attempt[d] \in Nat /\ wire[d][s] \in Lines /\ wire[s][d] \in Lines
      /\ wire'[d][s] \in Lines /\ wire'[s][d] \in Lines
  BY PairTypes
<1> QED BY <1>1, SteadyKeeps DEF Steady, PairKept

LEMMA SameLoops ==
  ASSUME NEW d, NEW s, loops'[s] = loops[s]
  PROVE  Among(loops'[s], loops[s], d) /\ Still(loops'[s], loops[s], d, Nat)
BY DEF Among, Still, Moved

LEMMA SourcePair ==
  ASSUME Ground, [Next]_vars, NEW x \in Device, SourceStep(x), NEW d \in Device, NEW s \in Device
  PROVE  PairKept(d, s)
<1>0. /\ attempt[d] \in Nat /\ Len(part[d]) \in Nat /\ wire[d][s] \in Lines /\ wire[s][d] \in Lines
      /\ wire'[d][s] \in Lines /\ wire'[s][d] \in Lines /\ wire' \in Wires /\ wire \in Wires
      /\ Bonds /\ Marks /\ Inv /\ Rest
  BY PairTypes DEF Ground
<1>1. PICK k \in DOMAIN loops[x] : Open(x, k) \/ SendChunk(x, k) \/ GiveUp(x, k)
  BY DEF SourceStep
<1>2. Same(x) /\ Onward(loops'[x], loops[x], k, gen[x], gen'[x])
  BY <1>0, <1>1, SourceLoops
<1> DEFINE y == loops[x][k].peer
<1>3. y \in Device /\ loops[x][k] \in Loop
  BY <1>0 DEF Inv, Serves, Loops, Loop
<1>4. wire' = wire \/ \E f \in Frames : wire' = Put(x, y, f, wire)
  <2>1. \A f : Sends(x, k, f) => f \in Frames /\ wire' = Put(x, y, f, wire)
    BY DEF Sends, Sent
  <2>2. CASE Open(x, k)
    BY <1>0, <2>1, <2>2, OpenIs
  <2>3. CASE SendChunk(x, k)
    BY <1>0, <2>1, <2>3, SendChunkIs
  <2>4. CASE GiveUp(x, k)
    BY <1>0, <2>4, GiveUpIs
  <2> QED BY <1>1, <2>2, <2>3, <2>4
<1>5. /\ After(wire'[d][s], wire[d][s], Fetches)
      /\ s # x \/ d # y => /\ After(wire'[s][d], wire[s][d], Frames)
                           /\ Keeps(wire'[s][d], wire[s][d], Sent({attempt[d]}))
  <2>1. CASE wire' = wire
    BY <1>0, <2>1, AfterSame
  <2>2. ASSUME NEW f \in Frames, wire' = Put(x, y, f, wire)
        PROVE  /\ After(wire'[d][s], wire[d][s], Fetches)
               /\ s # x \/ d # y => /\ After(wire'[s][d], wire[s][d], Frames)
                                    /\ Keeps(wire'[s][d], wire[s][d], Sent({attempt[d]}))
    <3>1. f \notin Fetches
      BY Apart
    <3>2. /\ Bonds /\ wire \in Wires /\ y \in Device /\ wire' = Put(x, y, f, wire)
      BY <1>0, <1>3, <2>2
    <3> HIDE DEF y
    <3>3. After(wire'[d][s], wire[d][s], Fetches)
      BY <3>1, <3>2, PutAfter
    <3>4. ASSUME s # x \/ d # y
          PROVE  /\ After(wire'[s][d], wire[s][d], Frames)
                 /\ Keeps(wire'[s][d], wire[s][d], Sent({attempt[d]}))
      BY <3>2, <3>4, PutAfter
    <3> QED BY <3>3, <3>4
  <2> QED BY <1>4, <2>1, <2>2
<1> HIDE DEF y
<1>6. CASE s # x
  <2>1. loops'[s] = loops[s]
    BY <1>2, <1>6 DEF Same
  <2>2. Steady(d, s)
    BY <1>5, <1>6, <2>1, SameLoops DEF Steady
  <2> QED BY <2>2, SteadyPair
<1>7. CASE s = x /\ d # y
  <2>1. Among(loops'[s], loops[s], d) /\ Still(loops'[s], loops[s], d, Nat)
    <3>1. Among(loops'[s], loops[s], d)
      BY <1>2, <1>7, OnwardAmong
    <3>2. \A j \in Served(loops'[s], d, Nat) : loops'[s][j] = loops[s][j]
      BY <1>2, <1>7 DEF Served, Onward, y
    <3> QED BY <3>1, <3>2 DEF Still, Among, Moved
  <2>2. Steady(d, s)
    BY <1>5, <1>7, <2>1 DEF Steady
  <2> QED BY <2>2, SteadyPair
<1>8. CASE s = x /\ d = y
  <2>0. k \in DOMAIN loops[s] /\ loops[s][k].peer = d /\ loops[s][k].attempt \in Nat /\ loops[s][k].off \in Nat
    BY <1>3, <1>8 DEF y, Loop
  <2>1. ASSUME Open(s, k), wire' = wire PROVE PairKept(d, s)
    <3>1. loops[s][k].at = "open" /\ Turned(s, loops[s], k, gen[s], lastAck[s])
      BY <1>0, <2>0, <2>1, OpenIs
    <3>2. Onward(loops'[s], loops[s], k, gen[s], gen'[s])
      BY <1>2, <1>8
    <3>3. k \in DOMAIN loops'[s] => loops'[s][k].off = loops[s][k].off
      BY <3>1 DEF Turned
    <3>4. Keeping(loops[s], wire[d][s], wire[s][d], loops'[s], wire[d][s], wire[s][d],
                  d, attempt[d], Len(part[d]), links'[d][s] # {})
      BY <1>0, <2>0, <3>1, <3>2, <3>3, OpeningKeeps
    <3> QED BY <2>1, <3>4 DEF PairKept
  <2>2. ASSUME NEW f, Sends(s, k, f) PROVE PairKept(d, s)
    <3>1. /\ wire' = Put(s, d, f, wire)
          /\ f \in Sent({loops[s][k].attempt}) /\ f.offset = loops[s][k].off
          /\ f.last <=> f.offset + 1 >= Chunks
          /\ Len(f.data) = IF f.offset < Chunks THEN 1 ELSE 0
          /\ k \in DOMAIN loops'[s] => loops'[s][k].off = loops[s][k].off + 1
      BY <2>0, <2>2 DEF Sends
    <3>2. /\ Among(loops'[s], loops[s], d)
          /\ \A j \in DOMAIN loops'[s] : j # k => loops'[s][j] = loops[s][j]
          /\ k \in DOMAIN loops'[s] => loops'[s][k].at # "open" /\ loops'[s][k].off < Chunks
      BY <1>2, <1>8, OnwardAmong DEF Onward
    <3>3. links' = links
      BY <1>8, SourceIs
    <3>4. wire'[d][s] = wire[d][s]
      <4>1. s # d
        BY <2>0 DEF Ground, Base, Tied
      <4> QED BY <1>0, <3>1, <4>1, PutIs
    <3>5. \/ ~(links'[d][s] # {}) /\ wire'[s][d] = wire[s][d]
          \/ \E n \in Link : /\ Added(wire'[s][d], wire[s][d], n, f)
                             /\ \A m \in Link : \A i \in DOMAIN wire[s][d][m] : m <= n
      <4>1. links[d][s] = links[s][d]
        BY DEF Ground, Base, Tied
      <4>2. CASE ~Online(s, d)
        BY <1>0, <3>1, <3>3, <4>1, <4>2, PutIs DEF Online
      <4>3. CASE Online(s, d)
        <5>1. Added(wire'[s][d], wire[s][d], Max(links[s][d]), f)
          BY <1>0, <3>1, <4>3, PutIs
        <5>2. Max(links[s][d]) \in Link /\ \A n \in links[s][d] : n <= Max(links[s][d])
          BY <1>0, <4>3, NewestIs
        <5>3. \A m \in Link : \A i \in DOMAIN wire[s][d][m] : m \in links[s][d]
          BY DEF Ground, Base, Tied
        <5> QED BY <5>1, <5>2, <5>3
      <4> QED BY <4>2, <4>3
    <3>6. Keeping(loops[s], wire[d][s], wire[s][d], loops'[s], wire[d][s], wire'[s][d],
                  d, attempt[d], Len(part[d]), links'[d][s] # {})
      <4> DEFINE L == loops[s]
                 M == loops'[s]
                 Q == wire[d][s]
                 W == wire[s][d]
                 X == wire'[s][d]
                 p == Len(part[d])
                 on == links'[d][s] # {}
      <4>1. /\ k \in DOMAIN L /\ L[k].peer = d /\ L[k].attempt \in Nat /\ L[k].off \in Nat
            /\ p \in Nat /\ Q \in Lines /\ W \in Lines /\ X \in Lines /\ attempt[d] \in Nat
        BY <1>0, <2>0
      <4>2. /\ Among(M, L, d) /\ \A j \in DOMAIN M : j # k => M[j] = L[j]
            /\ k \in DOMAIN M => M[k].at # "open" /\ M[k].off = L[k].off + 1 /\ M[k].off < Chunks
        BY <3>1, <3>2
      <4>3. /\ f \in Sent({L[k].attempt}) /\ f.offset = L[k].off /\ (f.last <=> f.offset + 1 >= Chunks)
            /\ Len(f.data) = IF f.offset < Chunks THEN 1 ELSE 0
        BY <3>1
      <4>4. \/ ~on /\ X = W
            \/ \E n \in Link : Added(X, W, n, f) /\ \A m \in Link : \A i \in DOMAIN W[m] : m <= n
        BY <3>5
      <4> HIDE DEF L, M, Q, W, X, p, on
      <4>5. Keeping(L, Q, W, M, Q, X, d, attempt[d], p, on)
        BY <4>1, <4>2, <4>3, <4>4, SendingKeeps
      <4> QED BY <4>5 DEF L, M, Q, W, X, p, on
    <3> QED BY <3>4, <3>6 DEF PairKept
  <2>3. CASE GiveUp(s, k)
    <3>1. wire' = wire /\ k \notin DOMAIN loops'[s]
      BY <1>0, <2>0, <2>3, GiveUpIs
    <3>2. \A j \in DOMAIN loops'[s] : j \in DOMAIN loops[s] /\ loops'[s][j] = loops[s][j]
      BY <1>2, <1>8, <3>1 DEF Onward
    <3>3. Among(loops'[s], loops[s], d) /\ Still(loops'[s], loops[s], d, Nat)
      BY <3>2 DEF Among, Still, Served, Moved
    <3>4. Steady(d, s)
      BY <1>0, <3>1, <3>3, AfterSame DEF Steady
    <3> QED BY <3>4, SteadyPair
  <2>4. CASE SendChunk(s, k)
    BY <1>0, <2>0, <2>2, <2>4, SendChunkIs
  <2>5. CASE Open(s, k)
    BY <1>0, <2>0, <2>1, <2>2, <2>5, OpenIs
  <2> QED BY <1>1, <1>8, <2>3, <2>4, <2>5
<1> QED BY <1>6, <1>7, <1>8

\* d takes a frame of s of what it asked for last
Takes(d, s) == \E n \in Link : DataStep(d, s, n) /\ Head(wire[s][d][n]) \in Sent({attempt[d]})

\* the wire after a frame, an acknowledgement or a request was taken off, and perhaps
\* an acknowledgement put on it
DataWire(x, w) == wire' = w \/ \E env \in Acks, y \in Device : wire' = Put(x, y, env, w)

LEMMA DataWires ==
  ASSUME Ground, NEW x \in Device, NEW e \in Device, NEW n \in Link, DataStep(x, e, n)
  PROVE  DataWire(x, Taken(x, e, n))
<1> DEFINE w == Taken(x, e, n)
           env == Head(wire[e][x][n])
<1>1. \/ wire' = w
      \/ /\ wire' = Put(x, Head(todo[x]), AckEnv(Len(part[x]) + Len(env.data)), w)
         /\ stage[x] = "envelope" /\ Fits(x, env) /\ env \in Frames
  BY Zenon DEF DataStep, TakeData
<1>2. stage[x] = "envelope" => Head(todo[x]) \in Device
  BY DEF Ground, Base, Secure, Known
<1>3. Fits(x, env) /\ env \in Frames => AckEnv(Len(part[x]) + Len(env.data)) \in Acks
  BY AckMade DEF Ground
<1> QED BY <1>1, <1>2, <1>3 DEF DataWire

LEMMA DeliverPair ==
  ASSUME Ground, [Next]_vars, NEW x \in Device, NEW e \in Device, Deliver(x, e),
         NEW d \in Device, NEW s \in Device, s # d
  PROVE  PairKept(d, s) \/ (x = d /\ e = s /\ Takes(d, s))
<1>0. /\ attempt[d] \in Nat /\ Len(part[d]) \in Nat /\ wire[d][s] \in Lines /\ wire[s][d] \in Lines
      /\ wire'[d][s] \in Lines /\ wire'[s][d] \in Lines /\ wire' \in Wires /\ wire \in Wires
      /\ Bonds /\ Marks /\ Inv /\ Finite
  BY PairTypes DEF Ground, Base
<1>1. PICK n \in Link : FetchStep(x, e, n) \/ AckStep(x, e, n) \/ DataStep(x, e, n)
  BY <1>0, DeliverCases
<1> DEFINE w == Taken(x, e, n)
           env == Head(wire[e][x][n])
<1>2. wire[e][x][n] # <<>> /\ w \in Wires
  BY <1>0, <1>1, TakenOff DEF FetchStep, AckStep, DataStep, Taken
<1>3. /\ \A S : After(w[d][s], wire[d][s], S) /\ After(w[s][d], wire[s][d], S)
      /\ \A S : env \notin S \/ ~(x = d /\ e = s) => Keeps(w[s][d], wire[s][d], S)
  BY <1>0, <1>2, TakeAfter
<1>8. /\ \A u, v \in Device : u # e \/ v # x => w[u][v] = wire[u][v]
      /\ Cut(w[e][x], wire[e][x], n)
  BY <1>0, TakenIs DEF Taken
<1> HIDE DEF w, env
<1>4. Sent({attempt[d]}) \subseteq Frames
  BY DEF Sent
<1>5. CASE AckStep(x, e, n)
  <2>1. wire' = w /\ env \in Acks /\ TakeAck(x, env)
    BY <1>5 DEF AckStep, w, env
  <2>2. env \notin Sent({attempt[d]})
    BY <1>4, <2>1, Apart
  <2>3. Among(loops'[s], loops[s], d) /\ Still(loops'[s], loops[s], d, Nat)
    <3>1. PICK ack : Same(x) /\ DOMAIN loops'[x] \subseteq DOMAIN loops[x]
                      /\ \A k : k \notin DOMAIN loops[x] => \A l : Follows(x, k, l, ack)
      BY <1>0, <2>1, AckIs
    <3>2. CASE s # x
      BY <3>1, <3>2, SameLoops DEF Same
    <3>3. CASE s = x
      <4>1. Follows(s, 0, loops, ack) /\ 0 \notin DOMAIN loops'[s]
        BY <1>0, <3>1, <3>3 DEF Finite
      <4> QED BY <4>1 DEF Follows, Among, Still, Served
    <3> QED BY <3>2, <3>3
  <2>4. Steady(d, s)
    BY <1>3, <2>1, <2>2, <2>3 DEF Steady
  <2> QED BY <2>4, SteadyPair
<1>6. CASE DataStep(x, e, n)
  <2>1. DataWire(x, w) /\ env \in Frames /\ loops'[s] = loops[s]
    BY <1>6, DataWires DEF DataStep, serving, w, env
  <2>2. /\ After(wire'[d][s], wire[d][s], Fetches) /\ After(wire'[s][d], wire[s][d], Frames)
        /\ env \notin Sent({attempt[d]}) \/ ~(x = d /\ e = s) => Keeps(wire'[s][d], wire[s][d], Sent({attempt[d]}))
    <3>1. CASE wire' = w
      BY <1>3, <3>1
    <3>2. ASSUME NEW f \in Acks, NEW y \in Device, wire' = Put(x, y, f, w)
          PROVE  /\ After(wire'[d][s], wire[d][s], Fetches) /\ After(wire'[s][d], wire[s][d], Frames)
                 /\ env \notin Sent({attempt[d]}) \/ ~(x = d /\ e = s) => Keeps(wire'[s][d], wire[s][d], Sent({attempt[d]}))
      <4>1. f \notin Fetches /\ f \notin Frames
        BY Apart
      <4>2. w[d][s] \in Lines /\ w[s][d] \in Lines
        BY <1>2, WireLines
      <4>3. /\ After(wire'[d][s], w[d][s], Fetches) /\ After(wire'[s][d], w[s][d], Frames)
            /\ Keeps(wire'[s][d], w[s][d], Sent({attempt[d]}))
        BY <1>0, <1>2, <3>2, <4>1, PutAfter
      <4>4. After(wire'[d][s], wire[d][s], Fetches)
        BY <1>0, <1>3, <4>2, <4>3, AfterTwice
      <4>5. After(wire'[s][d], wire[s][d], Frames)
        BY <1>0, <1>3, <4>2, <4>3, AfterTwice
      <4>6. ASSUME env \notin Sent({attempt[d]}) \/ ~(x = d /\ e = s)
            PROVE  Keeps(wire'[s][d], wire[s][d], Sent({attempt[d]}))
        <5>1. Keeps(w[s][d], wire[s][d], Sent({attempt[d]}))
          BY <1>3, <4>6
        <5> QED BY <4>3, <5>1, KeepsTwice
      <4> QED BY <4>4, <4>5, <4>6
    <3> QED BY <2>1, <3>1, <3>2 DEF DataWire
  <2>3. CASE x = d /\ e = s /\ env \in Sent({attempt[d]})
    BY <1>6, <2>3 DEF Takes, env
  <2>4. CASE ~(x = d /\ e = s /\ env \in Sent({attempt[d]}))
    <3>1. Steady(d, s)
      BY <2>1, <2>2, <2>4, SameLoops DEF Steady
    <3> QED BY <3>1, SteadyPair
  <2> QED BY <2>3, <2>4
<1>7. CASE FetchStep(x, e, n)
  <2>1. wire' = w /\ env \in Fetches /\ TakeFetch(x, e, env)
    BY <1>7 DEF FetchStep, w, env
  <2>2. env \notin Sent({attempt[d]})
    BY <1>4, <2>1, Apart
  <2>3. PICK k : Same(x) /\ Follows(x, k, Request(e, env, gen[x] + 1), env.offset) /\ k \notin DOMAIN loops[x]
    <3>1. \E k \in Nat \ {0} : k \notin DOMAIN loops[x] /\ Follows(x, k, Request(e, env, gen[x] + 1), env.offset)
      BY <1>0, <2>1, FetchIs
    <3>2. Same(x)
      BY <1>0, <2>1, FetchIs
    <3> QED BY <3>1, <3>2
  <2>4. CASE s # x
    <3>1. loops'[s] = loops[s]
      BY <2>3, <2>4 DEF Same
    <3>2. Steady(d, s)
      BY <1>3, <2>1, <2>2, <3>1, SameLoops DEF Steady
    <3> QED BY <3>2, SteadyPair
  <2>5. CASE s = x /\ e # d
    <3>1. Request(e, env, gen[x] + 1).peer = e
      BY DEF Request
    <3>2. \A j \in DOMAIN loops'[s] : loops'[s][j].peer = d =>
             LET m == loops'[s][j]
                 o == loops[s][j]
             IN  j \in DOMAIN loops[s] /\ m.peer = o.peer /\ m.attempt = o.attempt /\ m.gen = o.gen
                 /\ Moved(m, o)
      BY <2>3, <2>5, <3>1 DEF Follows
    <3>3. Among(loops'[s], loops[s], d) /\ Still(loops'[s], loops[s], d, Nat)
      BY <3>2 DEF Among, Still, Served
    <3>4. Steady(d, s)
      BY <1>3, <2>1, <2>2, <3>3 DEF Steady
    <3> QED BY <3>4, SteadyPair
  <2>6. CASE s = x /\ e = d
    <3> DEFINE l == Request(d, env, gen[s] + 1)
    <3>1. l.attempt = env.attempt /\ l.off = env.offset /\ l.at = "open"
      BY DEF Request
    <3>2. Joined(loops'[s], loops[s], d, k, l)
      BY <2>3, <2>6 DEF Follows, Joined, Served
    <3> HIDE DEF l
    <3>3. Cut(w[d][s], wire[d][s], n) /\ w[s][d] = wire[s][d]
      BY <1>8, <2>6
    <3> DEFINE L == loops[s]
               M == loops'[s]
               Q == wire[d][s]
               W == wire[s][d]
               V == wire'[d][s]
               p == Len(part[d])
               on == links'[d][s] # {}
    <3>4. /\ Head(Q[n]) = env /\ Q[n] # <<>> /\ Cut(V, Q, n) /\ env \in Fetches /\ wire'[s][d] = W
          /\ Joined(M, L, d, k, l) /\ p \in Nat /\ Q \in Lines /\ V \in Lines /\ W \in Lines
      BY <1>0, <1>2, <2>1, <2>6, <3>2, <3>3 DEF env
    <3> HIDE DEF L, M, Q, V, W, p, on
    <3>5. Keeping(L, Q, W, M, V, W, d, attempt[d], p, on)
      BY <1>0, <3>1, <3>4, AnsweringKeeps
    <3> QED BY <3>4, <3>5 DEF PairKept, L, M, Q, V, W, p, on
  <2> QED BY <2>4, <2>5, <2>6
<1> QED BY <1>1, <1>5, <1>6, <1>7

\* d asks s
Asking(d, s) == (Ask(d) \/ FallBack(d)) /\ s = Head(todo[d]) /\ AskOver(d, s)

LEMMA PullPair ==
  ASSUME Ground, [Next]_vars, NEW x \in Device, Pull(x), NEW d \in Device, NEW s \in Device, s # d
  PROVE  PairKept(d, s) \/ (x = d /\ Asking(d, s))
<1>0. /\ attempt[d] \in Nat /\ Len(part[d]) \in Nat /\ wire[d][s] \in Lines /\ wire[s][d] \in Lines
      /\ wire'[d][s] \in Lines /\ wire'[s][d] \in Lines /\ wire' \in Wires /\ wire \in Wires
      /\ Bonds /\ Marks /\ Inv /\ Rest
  BY PairTypes DEF Ground
<1>1. loops'[s] = loops[s]
  BY <1>0, PullIs DEF serving
<1>2. CASE wire' = wire
  <2>1. Steady(d, s)
    BY <1>0, <1>1, <1>2, AfterSame, SameLoops DEF Steady
  <2> QED BY <2>1, SteadyPair
<1>3. CASE AskOver(x, Head(todo[x])) /\ (Ask(x) \/ FallBack(x))
  <2> DEFINE f == FetchEnv(Len(part[x]), attempt[x] + 1)
             y == Head(todo[x])
  <2>1. wire' = Put(x, y, f, wire)
    BY <1>3 DEF AskOver
  <2>2. y \in Device
    BY <1>3 DEF Ask, FallBack, Ground, Base, Secure, Known
  <2>3. f \notin Frames
    BY DEF FetchEnv, Frames
  <2> HIDE DEF f
  <2>4. CASE x = d /\ y = s
    BY <1>3, <2>4 DEF Asking
  <2>5. CASE x # d \/ y # s
    <3>1. After(wire'[d][s], wire[d][s], Fetches)
      BY <1>0, <2>1, <2>2, <2>5, PutAfter
    <3>2. After(wire'[s][d], wire[s][d], Frames) /\ Keeps(wire'[s][d], wire[s][d], Sent({attempt[d]}))
      BY <1>0, <2>1, <2>2, <2>3, PutAfter
    <3>3. Steady(d, s)
      BY <1>1, <3>1, <3>2, SameLoops DEF Steady
    <3> QED BY <3>3, SteadyPair
  <2> QED BY <2>4, <2>5
<1> QED BY <1>0, <1>2, <1>3, PullIs

\* The number of links that were opened bounds their numbers.
LEMMA BrokenOff ==
  ASSUME Ground, [Next]_vars, faults' + opened' <= 1, NEW x \in Device, NEW e \in Device, Break(x, e),
         NEW u \in Device, NEW v \in Device
  PROVE  \/ links'[u][v] = {} /\ \A m \in Link : wire'[u][v][m] \in {<<>>, wire[u][v][m]}
         \/ links'[u][v] = links[u][v] /\ \A m \in Link : wire'[u][v][m] = wire[u][v][m]
<1>1. PICK n \in links[x][e] : Snapped(u, v, x, e, n)
  BY BreakIs DEF Ground
<1>2. opened = 0
  BY DEF Break, Fault, Ground, Rest, Bonds, Base, Secure, Unhurt
<1>3. \A p, q \in Device : links[p][q] \subseteq {0}
  BY <1>2 DEF Ground, Base, Tied
<1>4. CASE Between(u, v, x, e)
  <2>1. links'[u][v] = {}
    BY <1>1, <1>3, <1>4 DEF Snapped
  <2>2. \A m \in Link : wire'[u][v][m] \in {<<>>, wire[u][v][m]}
    BY <1>1 DEF Snapped
  <2> QED BY <2>1, <2>2
<1>5. CASE ~Between(u, v, x, e)
  BY <1>1, <1>5 DEF Snapped
<1> QED BY <1>4, <1>5

LEMMA OutsidePair ==
  ASSUME Ground, [Next]_vars, faults' + opened' <= 1, NEW d \in Device, NEW s \in Device, s # d,
         \/ \E x \in Device : Receive(x) \/ Cancel(x) \/ Restart(x)
         \/ \E x, e \in Device : Connect(x, e) \/ Break(x, e) \/ NoteAddress(x, e)
         \/ ChangeFile \/ UNCHANGED vars
  PROVE  PairKept(d, s)
<1>0. /\ attempt[d] \in Nat /\ Len(part[d]) \in Nat /\ wire[d][s] \in Lines /\ wire[s][d] \in Lines
      /\ wire'[d][s] \in Lines /\ wire'[s][d] \in Lines /\ wire' \in Wires /\ wire \in Wires
      /\ Bonds /\ Marks /\ Inv /\ Rest
  BY PairTypes DEF Ground
<1>1. CASE UNCHANGED <<loops, wire>>
  <2>1. Steady(d, s)
    BY <1>0, <1>1, AfterSame, SameLoops DEF Steady
  <2> QED BY <2>1, SteadyPair
<1>2. ASSUME NEW x \in Device, Receive(x) \/ Cancel(x) PROVE UNCHANGED <<loops, wire>>
  BY <1>2 DEF Receive, Cancel, serving
<1>3. ASSUME NEW x \in Device, NEW e \in Device, Connect(x, e) \/ NoteAddress(x, e) PROVE UNCHANGED <<loops, wire>>
  BY <1>3 DEF Connect, NoteAddress, serving
<1>4. ChangeFile \/ UNCHANGED vars => UNCHANGED <<loops, wire>>
  BY DEF ChangeFile, vars, serving
<1>5. ASSUME loops'[s] = loops[s] \/ DOMAIN loops'[s] = {},
             links'[d][s] = {} \/ wire'[s][d] = wire[s][d],
             \A m \in Link : (wire'[s][d][m] = wire[s][d][m] \/ wire'[s][d][m] = <<>>)
                             /\ (wire'[d][s][m] = wire[d][s][m] \/ wire'[d][s][m] = <<>>)
      PROVE  PairKept(d, s)
  <2>1. Among(loops'[s], loops[s], d) /\ Still(loops'[s], loops[s], d, Nat)
    <3>1. DOMAIN loops'[s] = {} => Served(loops'[s], d, Nat) = {}
      BY DEF Served
    <3> QED BY <1>5, <3>1, SameLoops DEF Among, Still
  <2>2. After(wire'[d][s], wire[d][s], Fetches) /\ After(wire'[s][d], wire[s][d], Frames)
    BY <1>0, <1>5, EmptyAfter
  <2>3. Steady(d, s)
    BY <1>0, <1>5, <2>1, <2>2, AfterSame DEF Steady
  <2> QED BY <2>3, SteadyPair
<1>6. ASSUME NEW x \in Device, NEW e \in Device, Break(x, e) PROVE PairKept(d, s)
  <2>1. loops'[s] = loops[s]
    BY <1>6 DEF Break, serving
  <2>2. wire'[d][s] \in [Link -> Seq(Envelope)] /\ wire'[s][d] \in [Link -> Seq(Envelope)]
        /\ wire[d][s] \in [Link -> Seq(Envelope)] /\ wire[s][d] \in [Link -> Seq(Envelope)]
    BY <1>0 DEF Lines
  <2>3. /\ \/ links'[d][s] = {} /\ \A m \in Link : wire'[d][s][m] \in {<<>>, wire[d][s][m]}
           \/ links'[d][s] = links[d][s] /\ \A m \in Link : wire'[d][s][m] = wire[d][s][m]
        /\ \/ links'[s][d] = {} /\ \A m \in Link : wire'[s][d][m] \in {<<>>, wire[s][d][m]}
           \/ links'[s][d] = links[s][d] /\ \A m \in Link : wire'[s][d][m] = wire[s][d][m]
    BY <1>6, BrokenOff
  <2>4. links'[d][s] = links'[s][d]
    BY StepTied DEF Tied
  <2>5. links'[d][s] = {} \/ wire'[s][d] = wire[s][d]
    <3>1. (\A m \in Link : wire'[s][d][m] = wire[s][d][m]) => wire'[s][d] = wire[s][d]
      BY <2>2
    <3> QED BY <2>3, <2>4, <3>1
  <2> QED BY <1>5, <2>1, <2>3, <2>5
<1>7. ASSUME NEW x \in Device, Restart(x) PROVE PairKept(d, s)
  <2>1. loops'[s] = loops[s] \/ DOMAIN loops'[s] = {}
    <3>1. DOMAIN <<>> = {}
      OBVIOUS
    <3> QED BY <1>0, <1>7, <3>1 DEF Restart, Inv, Serves
  <2>2. /\ links'[d][s] = IF x \in {d, s} THEN {} ELSE links[d][s]
        /\ wire'[d][s] = [m \in Link |-> IF x \in {d, s} THEN <<>> ELSE wire[d][s][m]]
        /\ wire'[s][d] = [m \in Link |-> IF x \in {s, d} THEN <<>> ELSE wire[s][d][m]]
    BY <1>7 DEF Restart
  <2>3. x \notin {d, s} => wire'[s][d] = wire[s][d]
    <3>1. wire[s][d] = [m \in Link |-> wire[s][d][m]]
      BY <1>0 DEF Lines
    <3> QED BY <2>2, <3>1
  <2> QED BY <1>5, <2>1, <2>2, <2>3
<1> QED BY <1>1, <1>2, <1>3, <1>4, <1>6, <1>7

\* A pair keeps what holds of it, unless its receiver takes a frame or asks.
LEMMA StepPair ==
  ASSUME Ground, [Next]_vars, faults' + opened' <= 1, NEW d \in Device, NEW s \in Device, s # d
  PROVE  PairKept(d, s) \/ Takes(d, s) \/ Asking(d, s)
<1>1. CASE \/ \E x \in Device : Receive(x) \/ Cancel(x) \/ Restart(x)
           \/ \E x, e \in Device : Connect(x, e) \/ Break(x, e) \/ NoteAddress(x, e)
           \/ ChangeFile \/ UNCHANGED vars
  BY <1>1, OutsidePair
<1>2. ASSUME NEW x \in Device, SourceStep(x) PROVE PairKept(d, s)
  BY <1>2, SourcePair
<1>3. ASSUME NEW x \in Device, Pull(x) PROVE PairKept(d, s) \/ Asking(d, s)
  BY <1>3, PullPair
<1>4. ASSUME NEW x \in Device, NEW e \in Device, Deliver(x, e) PROVE PairKept(d, s) \/ Takes(d, s)
  BY <1>4, DeliverPair
<1> QED BY <1>1, <1>2, <1>3, <1>4 DEF Next

-----------------------------------------------------------------------------
(* The numbers of the requests of the only receiver. *)

\* the numbers of requests of a pair stay in order
GuidedKept(d, s) ==
  Guided(loops[s], wire[d][s], wire[s][d], gen[s], loops'[s], wire'[d][s], wire'[s][d], gen'[s],
         d, attempt[d], Len(part[d]), Max(links[d][s]))

LEMMA SameGuides ==
  ASSUME NEW a \in Nat, NEW d, NEW p, NEW newest, NEW L, NEW g,
         NEW V \in Lines, NEW Q, After(V, Q, Fetches), NEW X \in Lines, NEW W, After(X, W, Sent({a}))
  PROVE  Guided(L, Q, W, g, L, V, X, g, d, a, p, newest)
<1>1. Among(L, L, d)
  BY DEF Among
<1>2. ASSUME Beside(L, Q, W, d, a, g, newest) PROVE Beside(L, V, X, d, a, g, newest)
  BY <1>1, <1>2, StaysBeside DEF Lines
<1> QED BY <1>2 DEF Guided

LEMMA OnlyLoops ==
  ASSUME Ground, NEW d \in Device, Only(d), NEW s \in Device
  PROVE  AllFor(loops[s], d)
<1>1. \A k \in DOMAIN loops[s] : loops[s][k].peer = d /\ loops[s][k].gen # 0 /\ loops[s][k].attempt \in Nat
  BY DEF Only, Ground, Base, Positive, Inv, Serves, Loops, Loop
<1> QED BY <1>1 DEF AllFor

\* Only d sends requests and acknowledgements, and it alone is sent frames.
LEMMA OnlyHeads ==
  ASSUME Inv, NEW d \in Device, Only(d), NEW x \in Device, NEW e \in Device, NEW n \in Link,
         wire[e][x][n] # <<>>
  PROVE  /\ Head(wire[e][x][n]) \in Frames => x = d
         /\ Head(wire[e][x][n]) \in Fetches \cup Acks => e = d
<1> DEFINE f == Head(wire[e][x][n])
<1>1. 1 \in DOMAIN wire[e][x][n] /\ f = wire[e][x][n][1]
  BY HeadIs
<1>2. f \in Fetches \cup Acks => f \notin Frames
  BY Apart
<1> QED BY <1>1, <1>2 DEF Only

LEMMA SourceGuided ==
  ASSUME Ground, [Next]_vars, NEW d \in Device, Only(d), NEW x \in Device, SourceStep(x),
         NEW s \in Device, s # d
  PROVE  GuidedKept(d, s) /\ After(wire'[d][s], wire[d][s], Fetches)
<1>0. /\ attempt[d] \in Nat /\ Len(part[d]) \in Nat /\ wire[d][s] \in Lines /\ wire[s][d] \in Lines
      /\ wire'[d][s] \in Lines /\ wire'[s][d] \in Lines /\ wire' \in Wires /\ wire \in Wires
      /\ Bonds /\ Marks /\ Inv /\ Rest
  BY PairTypes DEF Ground
<1>1. PICK k \in DOMAIN loops[x] : Open(x, k) \/ SendChunk(x, k) \/ GiveUp(x, k)
  BY DEF SourceStep
<1>2. Same(x) /\ Onward(loops'[x], loops[x], k, gen[x], gen'[x])
  BY <1>0, <1>1, SourceLoops
<1>3. loops[x][k].peer = d /\ AllFor(loops[s], d)
  BY OnlyLoops DEF Only
<1>4. wire' = wire \/ \E f \in Frames : wire' = Put(x, d, f, wire)
  <2>1. \A f : Sends(x, k, f) => f \in Frames /\ wire' = Put(x, d, f, wire)
    BY <1>3 DEF Sends, Sent
  <2>2. CASE Open(x, k)
    BY <1>0, <2>1, <2>2, OpenIs
  <2>3. CASE SendChunk(x, k)
    BY <1>0, <2>1, <2>3, SendChunkIs
  <2>4. CASE GiveUp(x, k)
    BY <1>0, <2>4, GiveUpIs
  <2> QED BY <1>1, <2>2, <2>3, <2>4
<1>5. wire'[d][s] = wire[d][s] /\ (s # x => wire'[s][d] = wire[s][d])
  <2>1. x # d
    BY <1>3 DEF Ground, Base, Tied
  <2> QED BY <1>0, <1>4, <2>1, PutIs
<1>6. After(wire'[d][s], wire[d][s], Fetches)
  BY <1>0, <1>5, AfterSame
<1>7. CASE s # x
  <2>1. loops'[s] = loops[s] /\ gen'[s] = gen[s]
    BY <1>2, <1>7 DEF Same
  <2>2. After(wire'[s][d], wire[s][d], Sent({attempt[d]}))
    BY <1>0, <1>5, <1>7, AfterSame
  <2>3. GuidedKept(d, s)
    BY <1>0, <1>6, <2>1, <2>2, SameGuides DEF GuidedKept
  <2> QED BY <1>6, <2>3
<1>8. CASE s = x
  <2> DEFINE newest == Max(links[d][s])
             S == Sent({attempt[d]})
  <2>1. ASSUME \A n \in Link : \A i \in DOMAIN wire[s][d][n] : wire[s][d][n][i] \in S => n = newest
        PROVE  \A n \in Link : \A i \in DOMAIN wire'[s][d][n] : wire'[s][d][n][i] \in S => n = newest
    <3>1. CASE wire' = wire
      BY <2>1, <3>1
    <3>2. ASSUME NEW f \in Frames, wire' = Put(s, d, f, wire) PROVE
            \A n \in Link : \A i \in DOMAIN wire'[s][d][n] : wire'[s][d][n][i] \in S => n = newest
      <4>1. CASE ~Online(s, d)
        BY <1>0, <2>1, <3>2, <4>1, PutIs
      <4>2. CASE Online(s, d)
        <5>1. Added(wire'[s][d], wire[s][d], Max(links[s][d]), f) /\ Max(links[s][d]) \in Link
          BY <1>0, <3>2, <4>2, PutIs, NewestIs
        <5>2. links[s][d] = links[d][s]
          BY DEF Ground, Base, Tied
        <5>3. \A n \in Link : \A i \in DOMAIN wire'[s][d][n] :
                 \/ i \in DOMAIN wire[s][d][n] /\ wire'[s][d][n][i] = wire[s][d][n][i]
                 \/ n = Max(links[s][d])
          BY <1>0, <5>1, AddedIs
        <5> QED BY <2>1, <5>2, <5>3
      <4> QED BY <4>1, <4>2
    <3> QED BY <1>4, <1>8, <3>1, <3>2
  <2> DEFINE L == loops[s]
             M == loops'[s]
             Q == wire[d][s]
             V == wire'[d][s]
             W == wire[s][d]
             X == wire'[s][d]
             g == gen[s]
             b == gen'[s]
             p == Len(part[d])
             a == attempt[d]
  <2>2. /\ k \in DOMAIN L /\ Onward(M, L, k, g, b) /\ AllFor(L, d) /\ V \in Lines /\ W \in Lines
        /\ a \in Nat /\ After(V, Q, Fetches)
        /\ (\A n \in Link : \A i \in DOMAIN W[n] : W[n][i] \in Sent({a}) => n = newest) =>
              \A n \in Link : \A i \in DOMAIN X[n] : X[n][i] \in Sent({a}) => n = newest
    BY <1>0, <1>2, <1>3, <1>6, <1>8, <2>1
  <2> HIDE DEF L, M, Q, V, W, X, g, b, p, a, newest
  <2>3. Guided(L, Q, W, g, M, V, X, b, d, a, p, newest)
    BY <2>2, OnwardGuides
  <2>4. GuidedKept(d, s)
    BY <2>3 DEF GuidedKept, L, M, Q, V, W, X, g, b, p, a, newest
  <2> QED BY <1>6, <2>4
<1> QED BY <1>6, <1>7, <1>8

LEMMA AckGuided ==
  ASSUME Ground, [Next]_vars, NEW d \in Device, Only(d), NEW x \in Device, NEW e \in Device,
         NEW n \in Link, AckStep(x, e, n), NEW s \in Device, s # d
  PROVE  GuidedKept(d, s) /\ After(wire'[d][s], wire[d][s], Fetches)
<1>0. /\ attempt[d] \in Nat /\ Len(part[d]) \in Nat /\ wire[d][s] \in Lines /\ wire[s][d] \in Lines
      /\ wire'[d][s] \in Lines /\ wire'[s][d] \in Lines /\ wire' \in Wires /\ wire \in Wires
      /\ Bonds /\ Marks /\ Inv /\ Rest
  BY PairTypes DEF Ground
<1>1. /\ After(wire'[d][s], wire[d][s], Fetches)
      /\ After(wire'[s][d], wire[s][d], Sent({attempt[d]}))
  BY <1>0, TakeAfter DEF AckStep
<1>2. \A k \in DOMAIN loops[x] : loops[x][k] \in Loop
  BY <1>0 DEF Inv, Serves, Loops
<1>3. \/ notifier[x] \in DOMAIN loops[x] /\ \E ack : Turned(x, loops[x], notifier[x], gen[x], ack)
      \/ /\ \A y \in Device \ {x} : loops'[y] = loops[y] /\ gen'[y] = gen[y]
         /\ loops'[x] = loops[x] /\ gen'[x] = gen[x]
  <2>1. \E ack : Wake(x, loops[x], gen[x], ack)
    BY DEF AckStep, TakeAck, WakeForAck
  <2> QED BY <1>0, <1>2, <2>1, WakeTurns
<1>4. ASSUME loops'[s] = loops[s], gen'[s] = gen[s] PROVE GuidedKept(d, s)
  BY <1>0, <1>1, <1>4, SameGuides DEF GuidedKept
<1>5. ASSUME NEW ack, notifier[x] \in DOMAIN loops[x], Turned(x, loops[x], notifier[x], gen[x], ack), s = x
      PROVE  GuidedKept(d, s)
  <2> DEFINE L == loops[s]
             M == loops'[s]
             Q == wire[d][s]
             V == wire'[d][s]
             W == wire[s][d]
             X == wire'[s][d]
             g == gen[s]
             b == gen'[s]
             p == Len(part[d])
             a == attempt[d]
             k == notifier[s]
             newest == Max(links[d][s])
  <2>1. (\A o \in Link : \A i \in DOMAIN W[o] : W[o][i] \in Sent({a}) => o = newest) =>
              \A o \in Link : \A i \in DOMAIN X[o] : X[o][i] \in Sent({a}) => o = newest
    <3>1. After(X, W, Sent({a}))
      BY <1>1
    <3> HIDE DEF X, W, a, newest
    <3> QED BY <3>1 DEF After
  <2>2. /\ k \in DOMAIN L /\ Onward(M, L, k, g, b) /\ AllFor(L, d) /\ V \in Lines /\ W \in Lines
        /\ a \in Nat /\ After(V, Q, Fetches)
        /\ (\A o \in Link : \A i \in DOMAIN W[o] : W[o][i] \in Sent({a}) => o = newest) =>
              \A o \in Link : \A i \in DOMAIN X[o] : X[o][i] \in Sent({a}) => o = newest
    BY <1>0, <1>1, <1>5, <2>1, OnlyLoops DEF Turned
  <2> HIDE DEF L, M, Q, V, W, X, g, b, p, a, newest, k
  <2>3. Guided(L, Q, W, g, M, V, X, b, d, a, p, newest)
    BY <2>2, OnwardGuides
  <2> QED BY <2>3 DEF GuidedKept, L, M, Q, V, W, X, g, b, p, a, newest
<1> QED BY <1>1, <1>3, <1>4, <1>5 DEF Turned

LEMMA FetchGuided ==
  ASSUME Ground, [Next]_vars, NEW d \in Device, Only(d), NEW x \in Device, NEW e \in Device,
         NEW n \in Link, FetchStep(x, e, n), NEW s \in Device, s # d
  PROVE  GuidedKept(d, s) /\ After(wire'[d][s], wire[d][s], Fetches)
<1>0. /\ attempt[d] \in Nat /\ Len(part[d]) \in Nat /\ wire[d][s] \in Lines /\ wire[s][d] \in Lines
      /\ wire'[d][s] \in Lines /\ wire'[s][d] \in Lines /\ wire' \in Wires /\ wire \in Wires
      /\ Bonds /\ Marks /\ Inv /\ Rest /\ Finite
  BY PairTypes DEF Ground, Base
<1> DEFINE env == Head(wire[e][x][n])
<1>1. e = d /\ env \in Fetches /\ TakeFetch(x, d, env) /\ wire[d][x][n] # <<>>
  BY <1>0, OnlyHeads DEF FetchStep
<1>2. /\ After(wire'[d][s], wire[d][s], Fetches)
      /\ After(wire'[s][d], wire[s][d], Sent({attempt[d]}))
  BY <1>0, TakeAfter DEF FetchStep
<1>3. wire'[s][d] = wire[s][d] /\ (s = x => Cut(wire'[d][s], wire[d][s], n))
  <2>1. /\ \A u, v \in Device : u # e \/ v # x => Taken(x, e, n)[u][v] = wire[u][v]
        /\ Cut(Taken(x, e, n)[e][x], wire[e][x], n)
    BY <1>0, TakenIs DEF Taken
  <2>2. wire' = Taken(x, e, n)
    BY DEF FetchStep
  <2> QED BY <1>1, <2>1, <2>2
<1>4. /\ Same(x) /\ Numbered(x, gen[x] + 1, env.offset)
      /\ \E k \in Nat \ {0} : k \notin DOMAIN loops[x] /\ Follows(x, k, Request(d, env, gen[x] + 1), env.offset)
  BY <1>0, <1>1, FetchIs
<1> HIDE DEF env
<1>5. ASSUME s # x PROVE GuidedKept(d, s)
  <2>1. loops'[s] = loops[s] /\ gen'[s] = gen[s]
    BY <1>4, <1>5 DEF Same
  <2> QED BY <1>0, <1>2, <2>1, SameGuides DEF GuidedKept
<1>6. ASSUME s = x PROVE GuidedKept(d, s)
  <2>1. PICK k \in Nat \ {0} : k \notin DOMAIN loops[s] /\ Follows(s, k, Request(d, env, gen[s] + 1), env.offset)
    BY <1>4, <1>6
  <2> DEFINE l == Request(d, env, gen[s] + 1)
             L == loops[s]
             M == loops'[s]
             Q == wire[d][s]
             V == wire'[d][s]
             W == wire[s][d]
             g == gen[s]
             b == gen'[s]
             p == Len(part[d])
             a == attempt[d]
             newest == Max(links[d][s])
  <2>2. l.attempt = env.attempt /\ l.gen = g + 1
    BY DEF Request
  <2>3. Joined(M, L, d, k, l)
    BY <2>1 DEF Follows, Joined, Served
  <2>4. b # g + 1 => \E j \in DOMAIN L : L[j].gen = g + 1
    BY <1>0, <1>4, <1>6 DEF Numbered, Inv, Types
  <2>5. /\ AllFor(L, d) /\ Q \in Lines /\ W \in Lines /\ Q[n] # <<>> /\ V \in Lines /\ Cut(V, Q, n)
        /\ Head(Q[n]) = env /\ env \in Fetches /\ g \in Nat /\ a \in Nat /\ p \in Nat
    BY <1>0, <1>1, <1>3, <1>6, OnlyLoops DEF Inv, Types, env
  <2>6. wire'[s][d] = W
    BY <1>3
  <2> HIDE DEF l, L, M, Q, V, W, g, b, p, a, newest
  <2>7. Guided(L, Q, W, g, M, V, W, b, d, a, p, newest)
    BY <2>2, <2>3, <2>4, <2>5, AnsweringGuides
  <2> QED BY <2>6, <2>7 DEF GuidedKept, L, M, Q, V, W, g, b, p, a, newest
<1> QED BY <1>2, <1>5, <1>6

\* a frame that is taken, and perhaps acknowledged
LEMMA DataGuided ==
  ASSUME Ground, [Next]_vars, NEW d \in Device, NEW x \in Device, NEW e \in Device,
         NEW n \in Link, DataStep(x, e, n), NEW s \in Device, s # d
  PROVE  /\ GuidedKept(d, s)
         /\ After(wire'[d][s], wire[d][s], Fetches) /\ After(wire'[s][d], wire[s][d], Frames)
<1>0. /\ attempt[d] \in Nat /\ Len(part[d]) \in Nat /\ wire[d][s] \in Lines /\ wire[s][d] \in Lines
      /\ wire'[d][s] \in Lines /\ wire'[s][d] \in Lines /\ wire' \in Wires /\ wire \in Wires
      /\ Bonds /\ Marks /\ Inv /\ Rest
  BY PairTypes DEF Ground
<1> DEFINE w == Taken(x, e, n)
<1>1. wire[e][x][n] # <<>> /\ w \in Wires
  BY <1>0, TakenOff DEF DataStep, Taken
<1>2. \A S : After(w[d][s], wire[d][s], S) /\ After(w[s][d], wire[s][d], S)
  BY <1>0, <1>1, TakeAfter
<1>3. DataWire(x, w)
  BY DataWires
<1> HIDE DEF w
<1>4. ASSUME NEW f \in Acks, NEW y \in Device, wire' = Put(x, y, f, w)
      PROVE  /\ After(wire'[d][s], wire[d][s], Fetches)
             /\ After(wire'[s][d], wire[s][d], Frames)
  <2>1. f \notin Fetches /\ f \notin Frames
    BY Apart
  <2>2. w[d][s] \in Lines /\ w[s][d] \in Lines
    BY <1>1, WireLines
  <2>3. After(wire'[d][s], w[d][s], Fetches) /\ After(wire'[s][d], w[s][d], Frames)
    BY <1>0, <1>1, <1>4, <2>1, PutAfter
  <2>4. After(wire'[d][s], wire[d][s], Fetches)
    BY <1>0, <1>2, <2>2, <2>3, AfterTwice
  <2> QED BY <1>0, <1>2, <2>2, <2>3, <2>4, AfterTwice
<1>5. After(wire'[d][s], wire[d][s], Fetches) /\ After(wire'[s][d], wire[s][d], Frames)
  BY <1>2, <1>3, <1>4 DEF DataWire
<1>6. loops'[s] = loops[s] /\ gen'[s] = gen[s]
  BY DEF DataStep, serving
<1>7. Sent({attempt[d]}) \subseteq Frames
  BY DEF Sent
<1>8. After(wire'[s][d], wire[s][d], Sent({attempt[d]}))
  BY <1>5, <1>7, AfterLess
<1> QED BY <1>0, <1>5, <1>6, <1>8, SameGuides DEF GuidedKept

LEMMA PullGuided ==
  ASSUME Ground, [Next]_vars, NEW d \in Device, NEW x \in Device, Pull(x), NEW s \in Device, s # d
  PROVE  \/ GuidedKept(d, s) /\ After(wire'[d][s], wire[d][s], Fetches)
         \/ x = d /\ Asking(d, s)
<1>0. /\ attempt[d] \in Nat /\ Len(part[d]) \in Nat /\ wire[d][s] \in Lines /\ wire[s][d] \in Lines
      /\ wire'[d][s] \in Lines /\ wire'[s][d] \in Lines /\ wire' \in Wires /\ wire \in Wires
      /\ Bonds /\ Marks /\ Inv /\ Rest
  BY PairTypes DEF Ground
<1>1. loops'[s] = loops[s] /\ gen'[s] = gen[s]
  BY <1>0, PullIs DEF serving
<1>2. ASSUME /\ After(wire'[d][s], wire[d][s], Fetches) /\ After(wire'[s][d], wire[s][d], Sent({attempt[d]}))
      PROVE  GuidedKept(d, s)
  BY <1>0, <1>1, <1>2, SameGuides DEF GuidedKept
<1>3. CASE wire' = wire
  BY <1>0, <1>2, <1>3, AfterSame
<1>4. CASE AskOver(x, Head(todo[x])) /\ (Ask(x) \/ FallBack(x))
  <2> DEFINE f == FetchEnv(Len(part[x]), attempt[x] + 1)
             y == Head(todo[x])
  <2>1. wire' = Put(x, y, f, wire)
    BY <1>4 DEF AskOver
  <2>2. y \in Device
    BY <1>4 DEF Ask, FallBack, Ground, Base, Secure, Known
  <2>3. f \notin Sent({attempt[d]})
    BY DEF FetchEnv, Frames, Sent
  <2> HIDE DEF f
  <2>4. CASE x = d /\ y = s
    BY <1>4, <2>4 DEF Asking
  <2>5. CASE x # d \/ y # s
    <3>1. After(wire'[d][s], wire[d][s], Fetches)
      BY <1>0, <2>1, <2>2, <2>5, PutAfter
    <3>2. After(wire'[s][d], wire[s][d], Sent({attempt[d]}))
      BY <1>0, <2>1, <2>2, <2>3, PutAfter
    <3> QED BY <1>2, <3>1, <3>2
  <2> QED BY <2>4, <2>5
<1> QED BY <1>0, <1>3, <1>4, PullIs

LEMMA StepGuided ==
  ASSUME Ground, [Next]_vars, faults' = faults, NEW d \in Device, Only(d), NEW s \in Device, s # d
  PROVE  \/ GuidedKept(d, s) /\ After(wire'[d][s], wire[d][s], Fetches)
         \/ Asking(d, s)
<1>0. /\ attempt[d] \in Nat /\ Len(part[d]) \in Nat /\ wire[d][s] \in Lines /\ wire[s][d] \in Lines
      /\ wire'[d][s] \in Lines /\ wire'[s][d] \in Lines /\ wire' \in Wires /\ wire \in Wires
      /\ Bonds /\ Marks /\ Inv /\ Rest
  BY PairTypes DEF Ground
<1>1. faults' # faults + 1
  BY DEF Ground, Base, Secure, Unhurt
<1>2. CASE UNCHANGED <<loops, wire, gen>>
  <2>1. \A u, v \in Device : \A S : After(wire'[u][v], wire[u][v], S)
    BY <1>0, <1>2, AfterSame, WireLines
  <2>2. GuidedKept(d, s)
    BY <1>0, <1>2, <2>1, SameGuides DEF GuidedKept
  <2> QED BY <2>1, <2>2
<1>3. ASSUME NEW x \in Device, Receive(x) \/ Cancel(x) PROVE UNCHANGED <<loops, wire, gen>>
  BY <1>3 DEF Receive, Cancel, serving
<1>4. ASSUME NEW x \in Device, NEW e \in Device, Connect(x, e) \/ NoteAddress(x, e)
      PROVE UNCHANGED <<loops, wire, gen>>
  BY <1>4 DEF Connect, NoteAddress, serving
<1>5. ~ChangeFile /\ \A x \in Device : ~Restart(x) /\ \A e \in Device : ~Break(x, e)
  BY <1>1 DEF ChangeFile, Restart, Break, Fault
<1>6. UNCHANGED vars => UNCHANGED <<loops, wire, gen>>
  BY DEF vars, serving
<1>7. ASSUME NEW x \in Device, NEW e \in Device, Deliver(x, e)
      PROVE  GuidedKept(d, s) /\ After(wire'[d][s], wire[d][s], Fetches)
  BY <1>0, <1>7, DeliverCases, FetchGuided, AckGuided, DataGuided
<1> QED BY <1>2, <1>3, <1>4, <1>5, <1>6, <1>7, SourceGuided, PullGuided DEF Next

-----------------------------------------------------------------------------
(* The others do not pull over links as long as nothing goes wrong. *)

LEMMA OthersSilent ==
  ASSUME Ground, NEW d \in Device, Alone(d), NEW x \in Device \ {d}, Pull(x), faults' = faults
  PROVE  UNCHANGED wire
<1>0. Inv /\ Rest /\ Secure /\ Tied /\ faults' # faults + 1
  BY DEF Ground, Base, Secure, Unhurt
<1>1. x # Sender /\ Known(x)
  BY <1>0, PullIs DEF Inv, DoneIsIdle, Secure
<1>2. \A e \in Device \ {x} : e \in address[x] /\ <<x, e>> \in Answers
  BY <1>1 DEF Alone, Known
<1>3. ~Online(x, x)
  BY <1>0 DEF Tied, Online
<1>4. CASE Ask(x)
  <2>1. Head(todo[x]) = x
    BY <1>2, <1>4 DEF Ask
  <2> QED BY Zenon, <1>3, <1>4, <2>1 DEF Ask, AskOver, Put
<1>5. CASE FallBack(x)
  <2>1. Head(todo[x]) = x
    BY <1>0, <1>1, <1>2, <1>5 DEF FallBack, Fault, Known
  <2> QED BY <1>3, <1>5, <2>1 DEF FallBack
<1> QED BY <1>0, <1>4, <1>5, PullIs

LEMMA SourceSends ==
  ASSUME Ground, NEW x \in Device, SourceStep(x)
  PROVE  wire' = wire \/ \E f \in Frames, y \in Device : wire' = Put(x, y, f, wire)
<1>0. Bonds /\ Marks /\ Inv /\ Rest
  BY DEF Ground, Rest
<1>1. PICK k \in DOMAIN loops[x] : Open(x, k) \/ SendChunk(x, k) \/ GiveUp(x, k)
  BY DEF SourceStep
<1> DEFINE y == loops[x][k].peer
<1>2. y \in Device
  BY <1>0 DEF Inv, Serves, Loops, Loop
<1>3. \A f : Sends(x, k, f) => f \in Frames /\ wire' = Put(x, y, f, wire)
  BY DEF Sends, Sent
<1> HIDE DEF y
<1>4. CASE Open(x, k)
  BY <1>0, <1>2, <1>3, <1>4, OpenIs
<1>5. CASE SendChunk(x, k)
  BY <1>0, <1>2, <1>3, <1>5, SendChunkIs
<1>6. CASE GiveUp(x, k)
  BY <1>0, <1>6, GiveUpIs
<1> QED BY <1>1, <1>4, <1>5, <1>6

\* what is new and no frame is from d, and of a place d has come to
Newly(d, u, env) == u = d /\ env.offset <= Len(part'[d])

LEMMA AckLands ==
  ASSUME Ground, NEW x \in Device, NEW env \in Frames, stage[x] = "envelope", Fits(x, env)
  PROVE  /\ AckEnv(Len(part[x]) + Len(env.data)).offset = Len(part[x] \o env.data)
         /\ AckEnv(Len(part[x]) + Len(env.data)).offset \in Nat
<1>1. part[x] \in Seq(Piece) /\ env.data \in Seq(Piece)
  BY DEF Ground, Inv, Types, Prefix, Frames
<1>2. Len(part[x] \o env.data) = Len(part[x]) + Len(env.data) /\ Len(part[x] \o env.data) \in Nat
  BY <1>1, ConcatProperties, LenProperties
<1> QED BY <1>2 DEF AckEnv

LEMMA AsksCome ==
  ASSUME Ground, [Next]_vars, NEW d \in Device, Alone(d), Only(d), faults' = faults,
         NEW u \in Device, NEW v \in Device, NEW m \in Link, NEW i \in DOMAIN wire'[u][v][m],
         wire'[u][v][m][i] \notin Frames
  PROVE  Old(u, v, m, wire'[u][v][m][i]) \/ Newly(d, u, wire'[u][v][m][i])
<1>0. Bonds /\ Marks /\ Inv /\ Rest /\ wire \in Wires
  BY DEF Ground, Rest, Inv, Types
<1>1. faults' # faults + 1
  BY DEF Ground, Base, Secure, Unhurt
<1>2. CASE UNCHANGED wire
  BY <1>2 DEF Old
<1>3. ASSUME NEW x \in Device, SourceStep(x) PROVE Old(u, v, m, wire'[u][v][m][i]) \/ Newly(d, u, wire'[u][v][m][i])
  <2>1. ASSUME NEW f \in Frames, NEW y \in Device, wire' = Put(x, y, f, wire)
        PROVE  Old(u, v, m, wire'[u][v][m][i])
    BY <1>0, <2>1, PutBrings DEF Old
  <2> QED BY <1>2, <1>3, <2>1, SourceSends
<1>4. ASSUME NEW x \in Device, Pull(x) PROVE Old(u, v, m, wire'[u][v][m][i]) \/ Newly(d, u, wire'[u][v][m][i])
  <2>1. CASE x # d
    BY <1>2, <1>4, <2>1, OthersSilent
  <2>2. CASE x = d
    <3>1. ASSUME AskOver(d, Head(todo[d])), Ask(d) \/ FallBack(d)
          PROVE Old(u, v, m, wire'[u][v][m][i]) \/ Newly(d, u, wire'[u][v][m][i])
      <4> DEFINE y == Head(todo[d])
                 f == FetchEnv(Len(part[d]), attempt[d] + 1)
      <4>1. y \in Device
        BY <3>1 DEF Ask, FallBack, Ground, Base, Secure, Known
      <4>2. wire' = Put(d, y, f, wire)
        BY <3>1 DEF AskOver
      <4>3. f.offset <= Len(part'[d])
        <5>1. Len(part[d]) \in Nat /\ part' = part
          BY <3>1 DEF AskOver, Ground, Inv, Types, Prefix
        <5> QED BY <5>1 DEF FetchEnv
      <4> HIDE DEF y, f
      <4> QED BY <1>0, <4>1, <4>2, <4>3, PutBrings DEF Old, Newly
    <3> QED BY <1>0, <1>2, <1>4, <2>2, <3>1, PullIs
  <2> QED BY <2>1, <2>2
<1>5. ASSUME NEW x \in Device, NEW e \in Device, NEW n \in Link,
             FetchStep(x, e, n) \/ AckStep(x, e, n)
      PROVE  Old(u, v, m, wire'[u][v][m][i])
  <2>1. wire' = Taken(x, e, n) /\ wire[e][x][n] # <<>>
    BY <1>5 DEF FetchStep, AckStep
  <2> QED BY <1>0, <2>1, TakeBrings
<1>6. ASSUME NEW x \in Device, NEW e \in Device, NEW n \in Link, DataStep(x, e, n)
      PROVE  Old(u, v, m, wire'[u][v][m][i]) \/ Newly(d, u, wire'[u][v][m][i])
  <2>1. x = d /\ wire[e][x][n] # <<>>
    BY <1>0, <1>6, OnlyHeads DEF DataStep
  <2> DEFINE w == Taken(x, e, n)
             env == Head(wire[e][x][n])
             f == AckEnv(Len(part[x]) + Len(env.data))
             y == Head(todo[x])
  <2>2. w \in Wires
    BY <1>0, <1>6, <2>1, TakenOff DEF Taken
  <2>3. \A j \in DOMAIN w[u][v][m] : Old(u, v, m, w[u][v][m][j])
    BY <1>0, <2>1, TakeBrings
  <2>4. \/ wire' = w
        \/ /\ wire' = Put(x, y, f, w) /\ part' = [part EXCEPT ![x] = @ \o env.data]
           /\ stage[x] = "envelope" /\ Fits(x, env) /\ env \in Frames
    BY Zenon, <1>6 DEF DataStep, TakeData
  <2>5. ASSUME wire' = Put(x, y, f, w), part' = [part EXCEPT ![x] = @ \o env.data],
               stage[x] = "envelope", Fits(x, env), env \in Frames
        PROVE  Old(u, v, m, wire'[u][v][m][i]) \/ Newly(d, u, wire'[u][v][m][i])
    <3>1. y \in Device
      BY Zenon, <2>5 DEF Ground, Base, Secure, Known
    <3>2. f.offset <= Len(part'[d])
      <4>2. part'[d] = part[x] \o env.data
        <5>1. part \in [Device -> Prefix]
          BY <1>0 DEF Inv, Types
        <5> HIDE DEF f, env, y, w
        <5> QED BY <2>1, <2>5, <5>1
      <4>3. f.offset = Len(part[x] \o env.data) /\ f.offset \in Nat
        BY Zenon, <1>0, <2>5, AckLands
      <4> HIDE DEF f, env
      <4> QED BY <4>2, <4>3
    <3> HIDE DEF f, y, w
    <3> QED BY <1>0, <2>1, <2>2, <2>3, <2>5, <3>1, <3>2, PutBrings DEF Newly
  <2> HIDE DEF w, f, y, env
  <2> QED BY <2>3, <2>4, <2>5
<1>7. ASSUME NEW x \in Device, Receive(x) \/ Cancel(x) PROVE UNCHANGED wire
  BY <1>7 DEF Receive, Cancel, serving
<1>8. ASSUME NEW x \in Device, NEW e \in Device, Connect(x, e) \/ NoteAddress(x, e) PROVE UNCHANGED wire
  BY <1>8 DEF Connect, NoteAddress, serving
<1>9. ~ChangeFile /\ \A x \in Device : ~Restart(x) /\ \A e \in Device : ~Break(x, e)
  BY <1>1 DEF ChangeFile, Restart, Break, Fault
<1>10. UNCHANGED vars => UNCHANGED wire
  BY DEF vars
<1>11. ASSUME NEW x \in Device, NEW e \in Device, Deliver(x, e)
       PROVE  Old(u, v, m, wire'[u][v][m][i]) \/ Newly(d, u, wire'[u][v][m][i])
  BY <1>0, <1>5, <1>6, <1>11, DeliverCases
<1> QED BY <1>2, <1>3, <1>4, <1>7, <1>8, <1>9, <1>10, <1>11 DEF Next

LEMMA StepOnly ==
  ASSUME Ground, [Next]_vars, NEW d \in Device, Alone(d), Only(d), faults' = faults
  PROVE  Only(d)'
<1>0. Inv /\ Rest /\ Finite
  BY DEF Ground, Base
<1> SUFFICES ASSUME NEW x \in Device, NEW y \in Device
             PROVE  /\ \A k \in DOMAIN loops'[x] : loops'[x][k].peer = d
                    /\ \A n \in Link : \A i \in DOMAIN wire'[x][y][n] :
                         IF wire'[x][y][n][i] \in Frames THEN y = d ELSE x = d
  BY DEF Only
<1>1. ASSUME NEW k \in DOMAIN loops'[x] PROVE loops'[x][k].peer = d
  <2>1. CASE k \in DOMAIN loops[x] /\ loops'[x][k].peer = loops[x][k].peer
    BY <2>1 DEF Only
  <2>2. ASSUME NEW e \in Device, NEW n \in Link, wire[e][x][n] # <<>>,
               Head(wire[e][x][n]) \in Fetches,
               loops'[x][k] = Request(e, Head(wire[e][x][n]), gen[x] + 1)
        PROVE  loops'[x][k].peer = d
    <3>1. e = d
      BY <1>0, <2>2, OnlyHeads
    <3> QED BY <2>2, <3>1 DEF Request
  <2> QED BY <1>0, <2>1, <2>2, LoopsCome
<1>2. ASSUME NEW n \in Link, NEW i \in DOMAIN wire'[x][y][n]
      PROVE  IF wire'[x][y][n][i] \in Frames THEN y = d ELSE x = d
  <2> DEFINE f == wire'[x][y][n][i]
  <2>1. Old(x, y, n, f) \/ Brought(x, y, f)
    BY <1>2, WireComes
  <2>2. f \notin Frames => Old(x, y, n, f) \/ x = d
    BY <1>2, AsksCome DEF Newly
  <2> HIDE DEF f
  <2>3. f \in Frames => f \notin Fetches /\ f \notin Acks
    BY Apart
  <2>4. CASE Old(x, y, n, f)
    BY <2>4 DEF Old, Only, f
  <2>5. CASE f \in Frames /\ Brought(x, y, f)
    BY <2>3, <2>5 DEF Brought, Only, f
  <2> QED BY <2>1, <2>2, <2>4, <2>5 DEF f
<1> QED BY <1>1, <1>2

=============================================================================
