--------------------------- MODULE TransferStream ---------------------------
(***************************************************************************)
(* The only receiver of a file over links is sent one stream, for any      *)
(* number of devices and links, any file and window: one loop goes on, its *)
(* frames are within the window, and the next one is in its place.         *)
(*                                                                         *)
(* TransferPairs has the invariant and follows a step for each pair of a   *)
(* receiver and a source.  Here a step is followed for the receiver, by    *)
(* what it does itself (StepMode): nothing, an end, a request, or a frame  *)
(* taken. The window needs the acknowledgements as well (Paced): a source  *)
(* has heard of nothing that the receiver has not got, and what it has     *)
(* sent since is from there on.                                            *)
(***************************************************************************)
EXTENDS TransferPairs

-----------------------------------------------------------------------------
(* Steps that leave the receiver where it is. *)

\* what holds of a pair stays, gaps aside
LooseKept(d, s) ==
  Keeping(loops[s], wire[d][s], wire[s][d], loops'[s], wire'[d][s], wire'[s][d],
          d, attempt[d], Len(part[d]), FALSE)

LEMMA StepLoose ==
  ASSUME Ground, [Next]_vars, faults' + opened' <= 1, NEW d \in Device, NEW s \in Device, s # d
  PROVE  LooseKept(d, s) \/ Asking(d, s)
<1>1. CASE PairKept(d, s)
  BY <1>1 DEF PairKept, LooseKept, Keeping
<1>2. CASE Takes(d, s)
  <2>1. PICK n \in Link : DataStep(d, s, n)
    BY <1>2 DEF Takes
  <2>2. After(wire'[d][s], wire[d][s], Fetches) /\ After(wire'[s][d], wire[s][d], Frames)
    BY <2>1, DataGuided
  <2>3. loops'[s] = loops[s]
    BY <2>1 DEF DataStep, serving
  <2>4. Among(loops'[s], loops[s], d) /\ Still(loops'[s], loops[s], d, Nat)
    BY <2>3, SameLoops
  <2>5. attempt[d] \in Nat /\ wire'[d][s] \in Lines /\ wire'[s][d] \in Lines
    BY PairTypes
  <2> QED BY <2>2, <2>4, <2>5, SteadyKeeps DEF LooseKept
<1> QED BY <1>1, <1>2, StepPair

LEMMA StepCounts ==
  ASSUME Ground, [Next]_vars
  PROVE  /\ faults \in Nat /\ opened \in Nat /\ faults' \in Nat /\ opened' \in Nat
         /\ faults' = faults \/ faults' = faults + 1
         /\ \/ opened' = opened
            \/ opened' = opened + 1 /\ faults' = faults /\ \E x, e \in Device : Connect(x, e)
<1>0. Inv /\ Rest /\ faults \in Nat /\ opened \in Nat
  BY DEF Ground, Rest, Base, Secure, Unhurt, Bonds
<1>1. ASSUME NEW x \in Device, SourceStep(x) \/ Pull(x) PROVE opened' = opened /\ (faults' = faults \/ faults' = faults + 1)
  BY <1>0, <1>1, SourceIs, PullIs DEF Fault
<1>2. ASSUME NEW x \in Device, Receive(x) \/ Cancel(x) \/ Restart(x)
      PROVE  opened' = opened /\ (faults' = faults \/ faults' = faults + 1)
  BY <1>2 DEF Receive, Cancel, Restart, Fault
<1>3. ASSUME NEW x \in Device, NEW e \in Device, Deliver(x, e) PROVE opened' = opened /\ faults' = faults
  BY <1>0, <1>3, DeliverCases DEF FetchStep, AckStep, DataStep, bounds
<1>4. ASSUME NEW x \in Device, NEW e \in Device, Break(x, e) \/ NoteAddress(x, e)
      PROVE  opened' = opened /\ (faults' = faults \/ faults' = faults + 1)
  BY <1>4 DEF Break, NoteAddress, Fault, bounds
<1>5. ASSUME NEW x \in Device, NEW e \in Device, Connect(x, e) PROVE opened' = opened + 1 /\ faults' = faults
  BY <1>5 DEF Connect
<1>6. ChangeFile \/ UNCHANGED vars => opened' = opened /\ (faults' = faults \/ faults' = faults + 1)
  BY DEF ChangeFile, vars, bounds, Fault
<1>7. /\ faults' = faults \/ faults' = faults + 1
      /\ \/ opened' = opened
         \/ opened' = opened + 1 /\ faults' = faults /\ \E x, e \in Device : Connect(x, e)
  BY <1>1, <1>2, <1>3, <1>4, <1>5, <1>6 DEF Next
<1> QED BY <1>0, <1>7

\* Links go away by a fault, and come one by one.
LEMMA StepOnline ==
  ASSUME Ground, [Next]_vars, NEW x \in Device, NEW y \in Device
  PROVE  /\ faults' = faults /\ Online(x, y) => Online(x, y)'
         /\ opened' = opened /\ Online(x, y)' => Online(x, y)
         /\ faults' = faults /\ opened' = opened => links' = links
<1>0. Inv /\ Rest
  BY DEF Ground
<1>1. CASE \E u, v \in Device : Connect(u, v)
  <2>1. PICK u \in Device, v \in Device : Connect(u, v)
    BY <1>1
  <2>2. opened' = opened + 1 /\ opened \in Nat /\ links[x][y] \subseteq links'[x][y]
    BY <1>0, <2>1, ConnectIs DEF Ground, Rest, Bonds
  <2> QED BY <2>2 DEF Online
<1>2. ASSUME NEW u \in Device, NEW v \in Device, Break(u, v)
      PROVE  links'[x][y] \subseteq links[x][y] /\ faults' = faults + 1
  <2>1. PICK n \in links[u][v] : Snapped(x, y, u, v, n)
    BY <1>0, <1>2, BreakIs
  <2>2. faults' = faults + 1
    BY <1>2 DEF Break, Fault
  <2> QED BY <2>1, <2>2 DEF Snapped
<1>3. ASSUME NEW u \in Device, Restart(u)
      PROVE  links'[x][y] \subseteq links[x][y] /\ faults' = faults + 1
  BY <1>3 DEF Restart, Fault
<1>4. ASSUME links'[x][y] \subseteq links[x][y] /\ faults' = faults + 1
      PROVE /\ faults' = faults /\ Online(x, y) => Online(x, y)'
            /\ opened' = opened /\ Online(x, y)' => Online(x, y)
            /\ faults' = faults /\ opened' = opened => links' = links
  <2>1. faults' # faults
    BY <1>4 DEF Ground, Base, Secure, Unhurt
  <2> QED BY <1>4, <2>1 DEF Online
<1>5. CASE ~ \E u, v \in Device : Connect(u, v) \/ Break(u, v) \/ Restart(u)
  <2>1. links' = links
    BY <1>0, <1>5, LinksStay DEF Ground
  <2> QED BY <2>1 DEF Online
<1> QED BY <1>1, <1>2, <1>3, <1>4, <1>5

-----------------------------------------------------------------------------
LEMMA NothingMore ==
  ASSUME NEW L, NEW Q, NEW W, NEW d, NEW A \in SUBSET Nat, NEW B \in SUBSET Nat,
         Nothing(L, Q, W, d, A), Nothing(L, Q, W, d, B)
  PROVE  \A C \in SUBSET (A \cup B) : Nothing(L, Q, W, d, C)
BY DEF Nothing, Served, Free, Asks, Sent

LEMMA LoneMore ==
  ASSUME NEW L, NEW Q, NEW W, NEW d, NEW A \in SUBSET Nat, NEW B \in SUBSET Nat,
         Lone(L, Q, d, A), Nothing(L, Q, W, d, B)
  PROVE  \A C \in SUBSET (A \cup B) : Lone(L, Q, d, C)
<1> SUFFICES ASSUME NEW C \in SUBSET (A \cup B) PROVE Lone(L, Q, d, C)
  OBVIOUS
<1>1. Served(L, d, C) \subseteq Served(L, d, A)
  BY DEF Nothing, Served
<1>2. \A n \in Link : \A i \in DOMAIN Q[n] : Q[n][i] \in Asks(C) => Q[n][i] \in Asks(A)
  BY DEF Nothing, Free, Asks
<1>3. OneAsk(Q, C)
  BY <1>2 DEF Lone, OneAsk
<1> QED BY <1>1, <1>2, <1>3 DEF Lone, Free

LEMMA CleanLone ==
  ASSUME Ground, NEW d \in Device, Clean(d), NEW s \in Device \ {d}
  PROVE  LoneAt(d, s, Nat)
<1>0. attempt[d] \in Nat
  BY DEF Ground, Inv, Types
<1>1. CASE Trying(d, s)
  <2>1. LoneAt(d, s, {attempt[d]}) /\ NothingAt(d, s, Others(d))
    BY <1>1 DEF Clean, FlowAt, Flow, LoneAt
  <2>2. Nat \subseteq {attempt[d]} \cup Others(d) /\ {attempt[d]} \subseteq Nat /\ Others(d) \subseteq Nat
    BY <1>0 DEF Others
  <2> QED BY <2>1, <2>2, LoneMore DEF LoneAt, NothingAt
<1>2. CASE ~Trying(d, s)
  BY <1>2 DEF Clean, LoneAt, NothingAt, Nothing, Lone, OneAsk, Free
<1> QED BY <1>1, <1>2

-----------------------------------------------------------------------------
(* What these steps keep of the course. *)

\* what d may be in
Mode(d) == Fresh(d) \/ Spared(d) \/ Over(d) \/ Twice(d)

\* the pull of d stays where it is
Unmoved(d) == UNCHANGED <<state[d], part[d], todo[d], stage[d], attempt[d]>>

\* a step that d does not take, or that leaves it where it is in the pull
Aside(d) ==
  /\ Unmoved(d)
  /\ \A s \in Device \ {d} : LooseKept(d, s) /\ (stage[d] = "envelope" => PairKept(d, s))

LEMMA LooseGives ==
  ASSUME NEW d, NEW s, LooseKept(d, s)
  PROVE  /\ \A A \in SUBSET Nat : /\ LoneAt(d, s, A) => Lone(loops'[s], wire'[d][s], d, A)
                                  /\ NothingAt(d, s, A) => Nothing(loops'[s], wire'[d][s], wire'[s][d], d, A)
         /\ FlowAt(d, s) => Flow(loops'[s], wire'[d][s], wire'[s][d], d, attempt[d], Len(part[d]))
BY DEF LooseKept, Keeping, LoneAt, NothingAt, FlowAt

LEMMA AsideGives ==
  ASSUME NEW d, NEW s, LooseKept(d, s), Unmoved(d)
  PROVE  /\ \A A \in SUBSET Nat : /\ LoneAt(d, s, A) => LoneAt(d, s, A)'
                                  /\ NothingAt(d, s, A) => NothingAt(d, s, A)'
         /\ FlowAt(d, s) => FlowAt(d, s)'
         /\ PairKept(d, s) /\ FlowAt(d, s) /\ GaplessAt(d, s) /\ links'[d][s] # {} => GaplessAt(d, s)'
         /\ Trying(d, s)' <=> Trying(d, s)
         /\ Others(d)' = Others(d) /\ Later(d)' = Later(d)
<1>1. attempt'[d] = attempt[d] /\ part'[d] = part[d] /\ stage'[d] = stage[d] /\ todo'[d] = todo[d]
  BY DEF Unmoved
<1>2. \A A \in SUBSET Nat : /\ LoneAt(d, s, A) => LoneAt(d, s, A)'
                            /\ NothingAt(d, s, A) => NothingAt(d, s, A)'
  BY LooseGives DEF LoneAt, NothingAt
<1>3. FlowAt(d, s) => FlowAt(d, s)'
  BY <1>1, LooseGives DEF FlowAt
<1>4. PairKept(d, s) /\ FlowAt(d, s) /\ GaplessAt(d, s) /\ links'[d][s] # {} => GaplessAt(d, s)'
  BY <1>1 DEF PairKept, Keeping, FlowAt, GaplessAt
<1>5. /\ Trying(d, s)' <=> Trying(d, s)
      /\ Others(d)' = Others(d) /\ Later(d)' = Later(d)
  BY <1>1 DEF Trying, Others, Later
<1> QED BY <1>2, <1>3, <1>4, <1>5

LEMMA OthersAreNumbers == \A d \in Device : Others(d) \in SUBSET Nat /\ Later(d) \in SUBSET Nat /\ Nat \in SUBSET Nat
BY DEF Others, Later

LEMMA AsideClean ==
  ASSUME NEW d \in Device, Clean(d), Aside(d), \A s \in Device : Online(d, s)' => Online(d, s)
  PROVE  Clean(d)'
<1> SUFFICES ASSUME NEW s \in Device \ {d}
             PROVE  IF Trying(d, s)' THEN /\ FlowAt(d, s)' /\ (Online(d, s)' => GaplessAt(d, s)')
                                          /\ NothingAt(d, s, Others(d))'
                                     ELSE NothingAt(d, s, Nat)'
  BY DEF Clean
<1>1. LooseKept(d, s) /\ Unmoved(d) /\ (stage[d] = "envelope" => PairKept(d, s))
  BY DEF Aside
<1>2. CASE Trying(d, s)
  <2>1. /\ FlowAt(d, s) /\ (Online(d, s) => GaplessAt(d, s))
        /\ NothingAt(d, s, Others(d))
    BY <1>2 DEF Clean
  <2>2. Trying(d, s)' /\ FlowAt(d, s)' /\ Others(d)' = Others(d) /\ PairKept(d, s)
    BY <1>1, <1>2, <2>1, AsideGives DEF Trying
  <2>3. NothingAt(d, s, Others(d))'
    <3>1. Others(d) \in SUBSET Nat
      BY OthersAreNumbers
    <3>2. Nothing(loops'[s], wire'[d][s], wire'[s][d], d, Others(d))
      BY <1>1, <2>1, <3>1, LooseGives
    <3> QED BY <2>2, <3>2 DEF NothingAt
  <2>4. Online(d, s)' => GaplessAt(d, s)'
    BY <1>1, <2>1, <2>2, AsideGives DEF Online
  <2> QED BY <2>2, <2>3, <2>4
<1>3. CASE ~Trying(d, s)
  <2>1. NothingAt(d, s, Nat) /\ Nat \in SUBSET Nat
    BY <1>3 DEF Clean
  <2> QED BY <1>1, <1>3, <2>1, AsideGives
<1> QED BY <1>2, <1>3

\* a loop and a request less of the one number
LEMMA AsideOneGen ==
  ASSUME Ground, [Next]_vars, faults' = faults, NEW d \in Device, Only(d), NEW s \in Device, s # d,
         Unmoved(d), LoneAt(d, s, Nat), OneGenAt(d, s)
  PROVE  OneGenAt(d, s)'
<1>1. ~Asking(d, s)
  BY DEF Asking, AskOver, Unmoved, Ground, Inv, Types
<1>2. GuidedKept(d, s)
  BY <1>1, StepGuided
<1> QED BY <1>2 DEF GuidedKept, Guided, LoneAt, OneGenAt

LEMMA NotCheck ==
  ASSUME Ground, [Next]_vars, faults' = faults, NEW d \in Device, Alone(d), Alike(d), stage'[d] # "check"
  PROVE  Alike(d)'
<1>1. Only(d)'
  BY StepOnly DEF Alike
<1>2. version' = 1
  <2>1. faults' # faults + 1
    BY DEF Ground, Base, Secure, Unhurt
  <2>2. ~ChangeFile
    BY <2>1 DEF ChangeFile, Fault
  <2>3. version' = version
    <3>1. ASSUME NEW x \in Device, Pull(x) \/ SourceStep(x) PROVE version' = version
      BY <3>1, PullIs, SourceIs DEF Ground
    <3>2. ASSUME NEW x \in Device, NEW e \in Device, Deliver(x, e) PROVE version' = version
      BY <3>2 DEF Deliver
    <3>3. ASSUME NEW x \in Device, Receive(x) \/ Cancel(x) \/ Restart(x) PROVE version' = version
      BY <3>3 DEF Receive, Cancel, Restart
    <3>4. ASSUME NEW x \in Device, NEW e \in Device, Connect(x, e) \/ Break(x, e) \/ NoteAddress(x, e)
          PROVE version' = version
      BY <3>4 DEF Connect, Break, NoteAddress
    <3> QED BY <2>2, <3>1, <3>2, <3>3, <3>4 DEF Next, vars
  <2> QED BY <2>3 DEF Alike
<1>3. \A s \in Device \ {d} : Online(d, s)'
  BY StepOnline DEF Alike
<1> QED BY <1>1, <1>2, <1>3 DEF Alike

LEMMA AsideFresh ==
  ASSUME Ground, [Next]_vars, faults' + opened' <= 1, NEW d \in Device, Alone(d), Fresh(d), Aside(d),
         faults' = faults
  PROVE  Fresh(d)'
<1>1. Clean(d)'
  <2>1. links'[d][d] = {}
    BY StepTied DEF Tied
  <2>2. \A s \in Device : Online(d, s)' => Online(d, s)
    BY <2>1 DEF Fresh, Alike, Online
  <2> QED BY <2>2, AsideClean DEF Fresh
<1>2. Alike(d)'
  BY NotCheck DEF Fresh, Alike, Aside, Unmoved
<1>3. \A s \in Device \ {d} : OneGenAt(d, s)'
  BY AsideOneGen, CleanLone DEF Fresh, Alike, Aside
<1> QED BY <1>1, <1>2, <1>3 DEF Fresh

LEMMA AsideSpared ==
  ASSUME Ground, [Next]_vars, faults' + opened' <= 1, NEW d \in Device, Spared(d), Aside(d),
         cancelled'[d] = cancelled[d]
  PROVE  Spared(d)'
<1>1. faults' = 1 /\ opened' = 0
  BY StepCounts DEF Spared
<1>2. Clean(d)'
  BY <1>1, StepOnline, AsideClean DEF Spared
<1> QED BY <1>1, <1>2 DEF Spared

LEMMA AsideOver ==
  ASSUME Ground, [Next]_vars, faults' + opened' <= 1, NEW d \in Device, Over(d), Aside(d)
  PROVE  Over(d)'
<1>1. \A s \in Device \ {d} : LoneAt(d, s, Nat)'
  BY AsideGives, OthersAreNumbers DEF Over, Aside
<1>2. attempt'[d] = attempt[d] /\ state'[d] = state[d] /\ stage'[d] = stage[d] /\ part'[d] = part[d]
  BY DEF Aside, Unmoved
<1>3. ASSUME faults = 1, \A s \in Device : ~Online(d, s)
      PROVE  faults' = 1 /\ \A s \in Device : ~Online(d, s)'
  BY <1>3, StepCounts, StepOnline
<1>4. Content(1)' = Content(1)
  BY DEF Content
<1> QED BY <1>1, <1>2, <1>3, <1>4 DEF Over

\* the requests are on the newest link
Newest(d, s) ==
  \A n \in Link : \A i \in DOMAIN wire[d][s][n] : wire[d][s][n][i] \in Fetches => n = Max(links[d][s])

LEMMA NewestStays ==
  ASSUME NEW d, NEW s, Newest(d, s), After(wire'[d][s], wire[d][s], Fetches), links' = links
  PROVE  Newest(d, s)'
BY DEF Newest, After

LEMMA LeftoverIs ==
  \A d, s : Leftover(d, s) <=> LoneAt(d, s, Nat) /\ OneGenAt(d, s) /\ Newest(d, s)
BY DEF Leftover, Newest

LEMMA AsideTwice ==
  ASSUME Ground, [Next]_vars, faults' + opened' <= 1, NEW d \in Device, Alone(d), Twice(d), Aside(d),
         cancelled'[d] = cancelled[d]
  PROVE  Twice(d)'
<1>1. faults' = faults /\ opened' = opened
  BY StepCounts DEF Twice
<1>2. Alike(d)'
  BY <1>1, NotCheck DEF Twice, Alike, Aside, Unmoved
<1>3. links' = links
  <2>1. d \in Device
    OBVIOUS
  <2> QED BY <1>1, <2>1, StepOnline
<1>4. ASSUME NEW s \in Device \ {d}
      PROVE  /\ FlowAt(d, s)' /\ NothingAt(d, s, Later(d))'
             /\ stage'[d] \in {"envelope", "direct"} /\ ~Trying(d, s)' => NothingAt(d, s, {attempt[d]})'
             /\ IF Trying(d, s)' THEN Again(d, s)' ELSE Leftover(d, s)'
  <2>0. LooseKept(d, s) /\ Unmoved(d) /\ (stage[d] = "envelope" => PairKept(d, s))
    BY DEF Aside
  <2>1. /\ \A A \in SUBSET Nat : /\ LoneAt(d, s, A) => LoneAt(d, s, A)'
                                 /\ NothingAt(d, s, A) => NothingAt(d, s, A)'
        /\ FlowAt(d, s) => FlowAt(d, s)'
        /\ PairKept(d, s) /\ FlowAt(d, s) /\ GaplessAt(d, s) /\ links'[d][s] # {} => GaplessAt(d, s)'
        /\ Trying(d, s)' <=> Trying(d, s)
        /\ Others(d)' = Others(d) /\ Later(d)' = Later(d)
    BY <2>0, AsideGives
  <2>2. /\ Others(d) \in SUBSET Nat /\ Later(d) \in SUBSET Nat /\ {attempt[d]} \in SUBSET Nat
        /\ attempt'[d] = attempt[d] /\ stage'[d] = stage[d]
    BY <2>0, OthersAreNumbers DEF Unmoved, Ground, Inv, Types
  <2>3. NothingAt(d, s, Later(d))'
    <3>1. Nothing(loops'[s], wire'[d][s], wire'[s][d], d, Later(d))
      BY <2>1, <2>2 DEF Twice, NothingAt
    <3> QED BY <2>1, <3>1 DEF NothingAt
  <2>4. stage[d] \in {"envelope", "direct"} /\ ~Trying(d, s) => NothingAt(d, s, {attempt[d]})'
    <3>1. stage[d] \in {"envelope", "direct"} /\ ~Trying(d, s) =>
             Nothing(loops'[s], wire'[d][s], wire'[s][d], d, {attempt[d]})
      BY <2>1, <2>2 DEF Twice, NothingAt
    <3> QED BY <2>2, <3>1 DEF NothingAt
  <2>5. ~Asking(d, s)
    BY <2>0 DEF Asking, AskOver, Unmoved, Ground, Inv, Types
  <2>6. GuidedKept(d, s) /\ After(wire'[d][s], wire[d][s], Fetches)
    BY <1>1, <2>5, StepGuided DEF Twice, Alike
  <2>7. CASE Trying(d, s)
    <3>1. Again(d, s) /\ FlowAt(d, s) /\ PairKept(d, s)
      BY <2>0, <2>7 DEF Twice, Trying
    <3>2. GaplessAt(d, s)'
      BY <1>2, <2>1, <3>1 DEF Again, Alike, Online
    <3>3. LoneAt(d, s, Others(d))'
      <4>1. Lone(loops'[s], wire'[d][s], d, Others(d))
        BY <2>1, <2>2, <3>1 DEF Again, LoneAt
      <4> QED BY <2>1, <4>1 DEF LoneAt
    <3>4. BesideAt(d, s)'
      <4>1. Beside(loops'[s], wire'[d][s], wire'[s][d], d, attempt[d], gen'[s], Max(links[d][s]))
        BY <2>6, <3>1 DEF GuidedKept, Guided, Again, FlowAt, LoneAt, Others, BesideAt
      <4> QED BY <1>3, <2>2, <4>1 DEF BesideAt
    <3>5. Again(d, s)' /\ Trying(d, s)'
      BY <2>1, <2>7, <3>2, <3>3, <3>4 DEF Again
    <3> QED BY <2>1, <2>3, <2>7, <3>1, <3>5
  <2>8. CASE ~Trying(d, s)
    <3>1. Leftover(d, s) /\ FlowAt(d, s)
      BY <2>8 DEF Twice
    <3>2. LoneAt(d, s, Nat)' /\ Newest(d, s)'
      BY <1>3, <2>1, <2>6, <3>1, LeftoverIs, NewestStays
    <3>3. OneGenAt(d, s)'
      BY <1>1, <2>0, <3>1, LeftoverIs, AsideOneGen DEF Twice, Alike
    <3>4. Leftover(d, s)'
      BY <3>2, <3>3 DEF Leftover, Newest
    <3> QED BY <2>1, <2>2, <2>3, <2>4, <2>8, <3>1, <3>4
  <2> QED BY <2>7, <2>8
<1>5. faults' + opened' = 1 /\ ~cancelled'[d]
  BY <1>1 DEF Twice
<1> QED BY <1>2, <1>4, <1>5 DEF Twice

\* d is cancelled, or something goes wrong elsewhere
LEMMA AsideHurt ==
  ASSUME Ground, [Next]_vars, faults' + opened' <= 1, NEW d \in Device, Alone(d), Fresh(d), Aside(d),
         faults' # faults, cancelled'[d] = cancelled[d]
  PROVE  Spared(d)'
<1>1. faults = 0 /\ faults' = 1 /\ opened' = 0 /\ opened = 0
  BY StepCounts
<1>2. ~cancelled'[d]
  BY <1>1 DEF Ground, Base, Secure, Unhurt
<1>3. Clean(d)'
  BY <1>1, StepOnline, AsideClean DEF Fresh
<1> QED BY <1>1, <1>2, <1>3 DEF Spared

LEMMA AsideMode ==
  ASSUME Ground, [Next]_vars, faults' + opened' <= 1, NEW d \in Device, Alone(d), Mode(d), Aside(d),
         cancelled'[d] = cancelled[d]
  PROVE  Mode(d)'
BY AsideFresh, AsideSpared, AsideOver, AsideTwice, AsideHurt DEF Mode

-----------------------------------------------------------------------------
(* The steps of the receiver that send and take nothing. *)

\* d stays out of a pull over a link, and leaves what is under way alone
Quietly(d) == UNCHANGED <<version, serving, wire, links, opened>> /\ stage'[d] # "envelope"

LEMMA Whole ==
  ASSUME NEW p \in Prefix, Original(p), Len(p) >= Chunks
  PROVE  p = Content(1)
<1>1. Len(p) \in 0 .. Chunks /\ Chunks \in Nat /\ p \in Seq(Piece)
  BY PrefixLength, TransferAssumption DEF Prefix
<1>2. Len(p) = Chunks /\ DOMAIN p = 1 .. Chunks
  BY <1>1
<1>3. ASSUME NEW i \in 1 .. Chunks PROVE p[i] = <<i, 1>>
  <2>1. p[i] \in Piece /\ p[i][1] = i /\ p[i][2] = 1
    BY <1>1, <1>2 DEF Prefix, Original
  <2> QED BY <2>1 DEF Piece
<1>4. p = [i \in 1 .. Chunks |-> p[i]]
  BY <1>1, <1>2
<1> QED BY <1>3, <1>4 DEF Content, Chunk

LEMMA QuietSame ==
  ASSUME NEW d, Quietly(d), NEW s
  PROVE  /\ ~Trying(d, s)'
         /\ \A A : (LoneAt(d, s, A) <=> Lone(loops'[s], wire'[d][s], d, A))
                   /\ (NothingAt(d, s, A) <=> Nothing(loops'[s], wire'[d][s], wire'[s][d], d, A))
         /\ OneGenAt(d, s) <=> OneGenAt(d, s)'
         /\ Newest(d, s) <=> Newest(d, s)'
         /\ Leftover(d, s) <=> Leftover(d, s)'
         /\ Online(d, s) <=> Online(d, s)'
         /\ Only(d) <=> Only(d)'
<1>1. UNCHANGED <<version, loops, gen, wire, links, opened>> /\ stage'[d] # "envelope"
  BY DEF Quietly, serving
<1> QED BY <1>1 DEF Trying, LoneAt, NothingAt, OneGenAt, Newest, Leftover, Online, Only

LEMMA QuietClean ==
  ASSUME NEW d \in Device, Clean(d), Quietly(d), \A s \in Device \ {d} : Trying(d, s) => NothingAt(d, s, Nat)
  PROVE  Clean(d)'
<1> SUFFICES ASSUME NEW s \in Device \ {d} PROVE ~Trying(d, s)' /\ NothingAt(d, s, Nat)'
  BY DEF Clean
<1>1. NothingAt(d, s, Nat)
  BY DEF Clean
<1>2. Nothing(loops'[s], wire'[d][s], wire'[s][d], d, Nat) /\ ~Trying(d, s)'
  BY <1>1, QuietSame
<1> QED BY <1>2 DEF NothingAt

LEMMA QuietFresh ==
  ASSUME NEW d \in Device, Fresh(d), Quietly(d), \A s \in Device \ {d} : Trying(d, s) => NothingAt(d, s, Nat),
         stage'[d] # "check"
  PROVE  Fresh(d)'
<1>1. Clean(d)' /\ \A s \in Device \ {d} : OneGenAt(d, s)' /\ Online(d, s)'
  BY QuietClean, QuietSame DEF Fresh, Alike
<1>2. Only(d)' /\ version' = 1
  BY QuietSame DEF Fresh, Alike, Quietly
<1> QED BY <1>1, <1>2 DEF Fresh, Alike

\* the pull has all of the file
LEMMA ComesToCheck ==
  ASSUME Ground, [Next]_vars, NEW d \in Device, version' = 1, attempt'[d] = 0, stage'[d] = "check",
         Len(part'[d]) >= Chunks, \A s \in Device \ {d} : Lone(loops'[s], wire'[d][s], d, Nat)
  PROVE  Over(d)'
<1>1. Ground'
  BY StepGround
<1>2. part'[d] \in Prefix /\ Original(part'[d])
  BY <1>1 DEF Ground, Inv, Types, Base, Pristine, Original
<1>3. part'[d] = Content(1)'
  BY <1>2, Whole DEF Content
<1> QED BY <1>3 DEF Over, LoneAt

LEMMA NothingLone ==
  ASSUME NEW L, NEW Q, NEW W, NEW d, NEW A, Nothing(L, Q, W, d, A) PROVE Lone(L, Q, d, A)
BY DEF Nothing, Lone, OneAsk, Free

\* d starts, goes on to the next source, or ends, without an answer to wait for
LEMMA OwnIsQuiet ==
  ASSUME Ground, NEW d \in Device,
         \/ Receive(d) \/ Dial(d) \/ Skip(d) \/ TakeDirect(d) \/ DirectEnds(d) \/ DirectRefused(d)
         \/ FallBack(d) /\ ~Online(d, Head(todo[d]))
         \/ Stall(d) \/ Check(d)
  PROVE  /\ Quietly(d)
         /\ stage'[d] = "check" => DirectEnds(d)
         /\ stage[d] = "envelope" => Stall(d)
         /\ cancelled'[d] => cancelled[d]
<1>0. /\ DOMAIN stage = Device /\ DOMAIN state = Device /\ stage \in [Device -> Stages]
      /\ cancelled \in [Device -> BOOLEAN]
  BY DEF Ground, Inv, Types, Rest, Sources
<1>1. ASSUME NEW st, Ends(d, st) PROVE stage'[d] \in {"next", "idle"} /\ ~cancelled'[d]
  BY <1>0, <1>1 DEF Ends
<1>2. CASE Receive(d)
  BY <1>0, <1>2 DEF Receive, MayStart, Quietly
<1>3. CASE Dial(d)
  BY <1>0, <1>3 DEF Dial, Quietly, bounds
<1>4. CASE Skip(d)
  BY <1>0, <1>4 DEF Skip, Quietly, bounds
<1>5. CASE TakeDirect(d)
  <2>1. UNCHANGED <<version, serving, wire, links, opened>> /\ stage[d] = "direct"
    BY <1>5 DEF TakeDirect, bounds
  <2>2. stage'[d] \in {"next", "idle", "direct"} /\ (cancelled'[d] => cancelled[d])
    BY <1>0, <1>1, <1>5 DEF TakeDirect
  <2> QED BY <2>1, <2>2 DEF Quietly
<1>6. CASE DirectEnds(d)
  BY <1>0, <1>6 DEF DirectEnds, Quietly, bounds
<1>7. CASE DirectRefused(d)
  BY <1>0, <1>1, <1>7 DEF DirectRefused, Quietly, bounds
<1>8. CASE FallBack(d) /\ ~Online(d, Head(todo[d]))
  BY <1>0, <1>1, <1>8 DEF FallBack, Quietly
<1>9. CASE Stall(d)
  BY <1>0, <1>1, <1>9 DEF Stall, Quietly
<1>10. CASE Check(d)
  BY <1>0, <1>1, <1>10 DEF Check, Quietly, bounds
<1> QED BY <1>2, <1>3, <1>4, <1>5, <1>6, <1>7, <1>8, <1>9, <1>10

\* the steps of a receiver that neither ask nor take
Inward(d) ==
  \/ Receive(d) \/ Dial(d) \/ Skip(d) \/ TakeDirect(d) \/ DirectEnds(d) \/ DirectRefused(d)
  \/ FallBack(d) /\ ~Online(d, Head(todo[d]))
  \/ Stall(d) \/ Check(d)

LEMMA CleanFlow ==
  ASSUME Ground, NEW d \in Device, Clean(d), NEW s \in Device \ {d}
  PROVE  FlowAt(d, s) /\ NothingAt(d, s, Others(d)) /\ NothingAt(d, s, Later(d))
<1>1. Others(d) \in SUBSET Nat /\ Later(d) \in SUBSET Others(d) /\ {attempt[d]} \in SUBSET Nat
  BY DEF Others, Later, Ground, Inv, Types
<1>2. FlowAt(d, s) /\ NothingAt(d, s, Others(d))
  <2>1. CASE Trying(d, s)
    BY <2>1 DEF Clean
  <2>2. CASE ~Trying(d, s)
    <3>1. NothingAt(d, s, Nat)
      BY <2>2 DEF Clean
    <3>2. \A C \in SUBSET Nat : NothingAt(d, s, C)
      BY <3>1, NothingMore DEF NothingAt
    <3> QED BY <1>1, <3>2, NothingFlows DEF FlowAt, NothingAt
  <2> QED BY <2>1, <2>2
<1>3. NothingAt(d, s, Later(d))
  BY <1>1, <1>2, NothingMore DEF NothingAt
<1> QED BY <1>2, <1>3

\* With nothing under way the rest holds.
LEMMA NothingLeft ==
  ASSUME NEW d \in Device, NEW s \in Device, Inv, NothingAt(d, s, Nat)
  PROVE  LoneAt(d, s, Nat) /\ OneGenAt(d, s) /\ Newest(d, s) /\ Leftover(d, s)
<1>1. LoneAt(d, s, Nat)
  BY NothingLone DEF NothingAt, LoneAt
<1>2. OneGenAt(d, s)
  BY DEF NothingAt, Nothing, OneGenAt, OneGen
<1>3. Newest(d, s)
  BY DEF NothingAt, Nothing, Free, Newest, Asks, Fetches
<1> QED BY <1>1, <1>2, <1>3, LeftoverIs

LEMMA QuietlyNothing ==
  ASSUME Inv, NEW d \in Device, NEW s \in Device, Quiet(d, s), \A k \in DOMAIN loops[s] : loops[s][k].peer # d
  PROVE  NothingAt(d, s, Nat)
<1>1. DOMAIN <<>> = {}
  OBVIOUS
<1> QED BY <1>1 DEF Quiet, NothingAt, Nothing, Served, Free

\* a pull that stalled left nothing behind, unless the answers are just slow
LEMMA StallIs ==
  ASSUME Ground, NEW d \in Device, Stall(d), faults' = faults, NEW s \in Device, Trying(d, s)
  PROVE  NothingAt(d, s, Nat)
<1>1. faults' # faults + 1 /\ Inv
  BY DEF Ground, Base, Secure, Unhurt
<1> QED BY <1>1, QuietlyNothing DEF Stall, Fault, Trying

LEMMA ComesTwice ==
  ASSUME NEW d \in Device, faults' + opened' = 1, Alike(d)', ~cancelled'[d], stage'[d] \in {"next", "idle"},
         \A s \in Device \ {d} : /\ FlowAt(d, s)' /\ NothingAt(d, s, Later(d))' /\ LoneAt(d, s, Nat)'
                                 /\ OneGenAt(d, s)' /\ Newest(d, s)'
  PROVE  Twice(d)'
<1>1. \A s \in Device \ {d} : ~Trying(d, s)' /\ Leftover(d, s)'
  BY DEF Trying, Leftover, Newest
<1> QED BY <1>1 DEF Twice

LEMMA InwardStage ==
  ASSUME Ground, NEW d \in Device, Inward(d)
  PROVE  /\ Quietly(d)
         /\ stage'[d] = "check" => DirectEnds(d)
         /\ stage[d] = "envelope" => Stall(d)
         /\ cancelled'[d] => cancelled[d]
         /\ Stall(d) \/ Receive(d) \/ Skip(d) \/ DirectRefused(d) \/ (FallBack(d) /\ ~Online(d, Head(todo[d])))
            => /\ stage'[d] \in {"next", "idle"}
               /\ attempt'[d] = attempt[d] /\ part'[d] = part[d]
<1>0. /\ DOMAIN stage = Device /\ DOMAIN state = Device /\ DOMAIN cancelled = Device
  BY DEF Ground, Inv, Types, Rest, Sources
<1>1. ASSUME NEW st, Ends(d, st) PROVE stage'[d] \in {"next", "idle"} /\ ~cancelled'[d]
  BY <1>0, <1>1 DEF Ends
<1>2. CASE Stall(d) \/ DirectRefused(d) \/ (FallBack(d) /\ ~Online(d, Head(todo[d])))
  BY Zenon, <1>1, <1>2, OwnIsQuiet DEF Stall, DirectRefused, FallBack, Inward
<1>3. CASE Receive(d) \/ Skip(d)
  BY <1>0, <1>3, OwnIsQuiet DEF Receive, Skip, Inward
<1> QED BY <1>2, <1>3, OwnIsQuiet DEF Inward

LEMMA InwardFresh ==
  ASSUME Ground, [Next]_vars, faults' + opened' <= 1, NEW d \in Device, Alone(d), Fresh(d), Inward(d)
  PROVE  Mode(d)'
<1>0. /\ Quietly(d)
      /\ stage'[d] = "check" => DirectEnds(d)
      /\ stage[d] = "envelope" => Stall(d)
      /\ cancelled'[d] => cancelled[d]
      /\ Inv /\ opened' = opened
  BY InwardStage DEF Quietly, Ground
<1>1. CASE DirectEnds(d)
  <2>1. /\ version' = 1 /\ attempt'[d] = 0 /\ stage'[d] = "check" /\ Len(part'[d]) >= Chunks
    BY <1>0, <1>1 DEF DirectEnds, Fresh, Alike, Inv, Types
  <2>2. \A s \in Device \ {d} : Lone(loops'[s], wire'[d][s], d, Nat)
    BY <1>0, CleanLone, QuietSame DEF Fresh
  <2>3. Over(d)'
    BY <2>1, <2>2, ComesToCheck
  <2> QED BY <2>3 DEF Mode
<1>2. CASE ~DirectEnds(d) /\ faults' = faults
  <2>1. \A s \in Device \ {d} : Trying(d, s) => NothingAt(d, s, Nat)
    BY <1>0, <1>2, StallIs DEF Trying
  <2>2. Fresh(d)'
    BY <1>0, <1>2, <2>1, QuietFresh
  <2> QED BY <2>2 DEF Mode
<1>3. CASE faults' # faults
  <2>1. faults = 0 /\ faults' = 1 /\ opened' = 0 /\ opened = 0
    BY <1>3, StepCounts
  <2>2. ~cancelled'[d]
    BY <1>0, <2>1 DEF Ground, Base, Secure, Unhurt
  <2>3. CASE stage[d] # "envelope"
    <3>1. Clean(d)'
      BY <1>0, <2>3, QuietClean DEF Fresh, Trying
    <3>2. Spared(d)'
      BY <2>1, <2>2, <3>1 DEF Spared
    <3> QED BY <3>2 DEF Mode
  <2>4. CASE stage[d] = "envelope"
    <3>1. /\ Stall(d) /\ stage'[d] \in {"next", "idle"}
          /\ attempt'[d] = attempt[d] /\ part'[d] = part[d]
      BY <1>0, <2>4, InwardStage
    <3>2. Alike(d)'
      BY <1>0, <3>1, QuietSame DEF Quietly, Fresh, Alike
    <3>3. ASSUME NEW s \in Device \ {d}
          PROVE /\ FlowAt(d, s)' /\ NothingAt(d, s, Later(d))' /\ LoneAt(d, s, Nat)'
                /\ OneGenAt(d, s)' /\ Newest(d, s)'
      <4>1. FlowAt(d, s) /\ NothingAt(d, s, Later(d)) /\ LoneAt(d, s, Nat) /\ OneGenAt(d, s)
        BY CleanFlow, CleanLone DEF Fresh
      <4>2. loops' = loops /\ wire' = wire
        BY <1>0 DEF Quietly, serving
      <4>3. FlowAt(d, s)' /\ NothingAt(d, s, Later(d))' /\ LoneAt(d, s, Nat)'
        BY <3>1, <4>1, <4>2 DEF FlowAt, NothingAt, LoneAt, Later
      <4>4. OneGenAt(d, s)'
        BY <1>0, <4>1, QuietSame
      <4>5. Newest(d, s)
        <5>1. Online(d, s) /\ links[d][s] \subseteq {0}
          BY <2>1 DEF Fresh, Alike, Ground, Base, Tied
        <5>2. Max(links[d][s]) \in links[d][s]
          BY <5>1, NewestIs DEF Ground, Rest
        <5>3. \A n \in Link : \A i \in DOMAIN wire[d][s][n] : n \in links[d][s]
          BY DEF Ground, Base, Tied
        <5> QED BY <5>1, <5>2, <5>3 DEF Newest
      <4> QED BY <1>0, <4>3, <4>4, <4>5, QuietSame
    <3>4. Twice(d)'
      BY <2>1, <2>2, <3>1, <3>2, <3>3, ComesTwice
    <3> QED BY <3>4 DEF Mode
  <2> QED BY <2>3, <2>4
<1> QED BY <1>1, <1>2, <1>3

LEMMA InwardSpared ==
  ASSUME Ground, [Next]_vars, faults' + opened' <= 1, NEW d \in Device, Spared(d), Inward(d)
  PROVE  Spared(d)'
<1>0. /\ Quietly(d)
      /\ stage[d] = "envelope" => Stall(d)
      /\ cancelled'[d] => cancelled[d]
  BY InwardStage
<1>1. faults' = faults /\ faults' = 1 /\ opened' = 0
  BY StepCounts DEF Spared
<1>2. \A s \in Device \ {d} : Trying(d, s) => NothingAt(d, s, Nat)
  BY <1>0, <1>1, StallIs DEF Trying
<1>3. Clean(d)'
  BY <1>0, <1>2, QuietClean DEF Spared
<1> QED BY <1>0, <1>1, <1>3 DEF Spared

\* what goes on beside the receiver's own part of a second try
LEMMA QuietLeftover ==
  ASSUME Ground, NEW d \in Device, Twice(d), Quietly(d), stage[d] = "envelope" => Stall(d), faults' = faults,
         NEW s \in Device \ {d}
  PROVE  Leftover(d, s)' /\ ~Trying(d, s)'
<1>1. CASE Trying(d, s)
  <2>1. NothingAt(d, s, Nat)
    BY <1>1, StallIs DEF Trying
  <2>2. Leftover(d, s)
    BY <2>1, NothingLeft DEF Ground
  <2> QED BY <2>2, QuietSame
<1>2. CASE ~Trying(d, s)
  <2>1. Leftover(d, s)
    BY <1>2 DEF Twice
  <2> QED BY <2>1, QuietSame
<1> QED BY <1>1, <1>2

LEMMA GoesTwice ==
  ASSUME Ground, NEW d \in Device, Twice(d), Quietly(d), stage[d] = "envelope" => Stall(d), faults' = faults,
         Alike(d)', ~cancelled'[d],
         attempt'[d] \in Nat, attempt'[d] >= attempt[d],
         \A s \in Device \ {d} :
            /\ Flow(loops[s], wire[d][s], wire[s][d], d, attempt'[d], Len(part'[d]))
            /\ stage'[d] = "direct" => NothingAt(d, s, {attempt'[d]})
  PROVE  Twice(d)'
<1>1. loops' = loops /\ wire' = wire /\ opened' = opened /\ stage'[d] # "envelope"
  BY DEF Quietly, serving
<1>2. attempt[d] \in Nat
  BY DEF Ground, Inv, Types
<1>3. ASSUME NEW s \in Device \ {d}
      PROVE /\ FlowAt(d, s)' /\ NothingAt(d, s, Later(d))'
            /\ stage'[d] = "direct" => NothingAt(d, s, {attempt[d]})'
            /\ ~Trying(d, s)' /\ Leftover(d, s)'
  <2>1. FlowAt(d, s)'
    BY <1>1, <1>3 DEF FlowAt
  <2>2. NothingAt(d, s, Later(d))'
    <3>1. NothingAt(d, s, Later(d)) /\ Later(d) \in SUBSET Nat
      BY DEF Twice, Later
    <3>2. Later(d)' \in SUBSET Later(d)
      BY <1>2 DEF Later
    <3>3. \A C \in SUBSET Later(d) : NothingAt(d, s, C)
      BY <3>1, NothingMore DEF NothingAt
    <3>4. NothingAt(d, s, Later(d)')
      BY <3>2, <3>3
    <3> QED BY <1>1, <3>4 DEF NothingAt
  <2>3. stage'[d] = "direct" => NothingAt(d, s, {attempt[d]})'
    BY <1>1, <1>3 DEF NothingAt
  <2> QED BY <2>1, <2>2, <2>3, QuietLeftover
<1>4. faults' + opened' = 1
  BY <1>1 DEF Twice
<1> QED BY <1>1, <1>3, <1>4 DEF Twice

LEMMA InwardTwice ==
  ASSUME Ground, [Next]_vars, faults' + opened' <= 1, NEW d \in Device, Alone(d), Twice(d), Inward(d)
  PROVE  Mode(d)'
<1>0. /\ Quietly(d)
      /\ stage'[d] = "check" => DirectEnds(d)
      /\ stage[d] = "envelope" => Stall(d)
      /\ ~cancelled'[d]
      /\ Inv /\ opened' = opened /\ faults' = faults
      /\ attempt \in [Device -> Nat] /\ part \in [Device -> Prefix] /\ stage \in [Device -> Stages]
  BY InwardStage, StepCounts DEF Quietly, Ground, Inv, Types, Twice
<1>1. CASE DirectEnds(d)
  <2>1. /\ version' = 1 /\ attempt'[d] = 0 /\ stage'[d] = "check" /\ Len(part'[d]) >= Chunks /\ stage[d] = "direct"
    BY <1>0, <1>1 DEF DirectEnds, Twice, Alike
  <2>2. \A s \in Device \ {d} : Lone(loops'[s], wire'[d][s], d, Nat)
    BY <1>0, <2>1, QuietSame DEF Twice, Trying, Leftover
  <2>3. Over(d)'
    BY <2>1, <2>2, ComesToCheck
  <2> QED BY <2>3 DEF Mode
<1>2. CASE ~DirectEnds(d)
  <2>1. Alike(d)'
    BY <1>0, <1>2, NotCheck DEF Twice
  <2>2. CASE Stall(d) \/ Receive(d) \/ Skip(d) \/ DirectRefused(d) \/ (FallBack(d) /\ ~Online(d, Head(todo[d])))
    <3>1. /\ stage'[d] \in {"next", "idle"}
          /\ attempt'[d] = attempt[d] /\ part'[d] = part[d]
      BY <2>2, InwardStage
    <3>2. attempt'[d] \in Nat /\ attempt'[d] >= attempt[d] /\ stage'[d] # "direct"
      BY <1>0, <3>1
    <3>3. \A s \in Device \ {d} : Flow(loops[s], wire[d][s], wire[s][d], d, attempt'[d], Len(part'[d]))
      BY <3>1 DEF Twice, FlowAt
    <3>4. Twice(d)'
      BY <1>0, <2>1, <3>2, <3>3, GoesTwice
    <3> QED BY <3>4 DEF Mode
  <2>3. CASE Dial(d)
    <3>1. /\ stage'[d] = "direct" /\ attempt'[d] = attempt[d] + 1 /\ part'[d] = part[d]
      BY <1>0, <2>3 DEF Dial
    <3>2. ASSUME NEW s \in Device \ {d}
          PROVE /\ Flow(loops[s], wire[d][s], wire[s][d], d, attempt'[d], Len(part'[d]))
                /\ NothingAt(d, s, {attempt'[d]})
      <4>1. NothingAt(d, s, Later(d)) /\ {attempt'[d]} \in SUBSET Later(d) /\ Later(d) \in SUBSET Nat
        BY <1>0, <3>1 DEF Twice, Later
      <4>2. NothingAt(d, s, {attempt'[d]})
        BY <4>1, NothingMore DEF NothingAt
      <4> QED BY <4>2, NothingFlows DEF NothingAt
    <3>3. attempt'[d] \in Nat /\ attempt'[d] >= attempt[d]
      BY <1>0, <3>1
    <3>4. Twice(d)'
      BY <1>0, <2>1, <3>2, <3>3, GoesTwice
    <3> QED BY <3>4 DEF Mode
  <2>4. CASE TakeDirect(d)
    <3>1. /\ stage'[d] = "direct" /\ attempt'[d] = attempt[d] /\ stage[d] = "direct"
      BY <1>0, <2>4 DEF TakeDirect, Twice
    <3>2. ASSUME NEW s \in Device \ {d}
          PROVE /\ Flow(loops[s], wire[d][s], wire[s][d], d, attempt'[d], Len(part'[d]))
                /\ NothingAt(d, s, {attempt'[d]})
      <4>1. NothingAt(d, s, {attempt'[d]})
        BY <3>1 DEF Twice, Trying
      <4> QED BY <4>1, NothingFlows DEF NothingAt
    <3>3. attempt'[d] \in Nat /\ attempt'[d] >= attempt[d]
      BY <1>0, <3>1
    <3>4. Twice(d)'
      BY <1>0, <2>1, <3>2, <3>3, GoesTwice
    <3> QED BY <3>4 DEF Mode
  <2>5. ~Check(d)
    BY DEF Check, Twice, Alike
  <2> QED BY <1>2, <2>2, <2>3, <2>4, <2>5 DEF Inward
<1> QED BY <1>1, <1>2

\* Offline, it does not matter what d does.
LEMMA CutOff ==
  ASSUME Ground, [Next]_vars, faults' + opened' <= 1, NEW d \in Device, faults = 1,
         \A s \in Device : ~Online(d, s), \A s \in Device \ {d} : LoneAt(d, s, Nat)
  PROVE  Over(d)'
<1>1. faults' = 1 /\ opened' = opened
  BY StepCounts
<1>2. \A s \in Device : ~Online(d, s)'
  BY <1>1, StepOnline
<1>3. ASSUME NEW s \in Device \ {d} PROVE LoneAt(d, s, Nat)'
  <2>1. CASE LooseKept(d, s)
    BY <2>1, LooseGives DEF LoneAt
  <2>2. CASE Asking(d, s)
    <3>1. wire' = wire /\ loops' = loops
      BY Zenon, <2>2 DEF Asking, AskOver, Put, Ask, FallBack, serving
    <3> QED BY <3>1 DEF LoneAt
  <2> QED BY <2>1, <2>2, StepLoose
<1> QED BY <1>1, <1>2, <1>3 DEF Over

LEMMA InwardOver ==
  ASSUME Ground, [Next]_vars, faults' + opened' <= 1, NEW d \in Device, Over(d), Inward(d)
  PROVE  Over(d)'
<1>0. Quietly(d) /\ Inv /\ Rest /\ DOMAIN state = Device /\ DOMAIN stage = Device
  BY InwardStage DEF Ground, Inv, Types
<1>1. CASE faults = 1 /\ \A s \in Device : ~Online(d, s)
  BY <1>1, CutOff DEF Over
<1>2. CASE attempt[d] = 0 /\ state[d] = "done"
  <2>1. stage[d] = "idle"
    BY <1>0, <1>2 DEF Inv, DoneIsIdle
  <2> QED BY <1>2, <2>1 DEF Inward, Receive, MayStart, Dial, Skip, TakeDirect, DirectEnds,
             DirectRefused,
                                FallBack, Stall, Check
<1>3. CASE attempt[d] = 0 /\ stage[d] = "check" /\ part[d] = Content(1)
  <2>1. Check(d)
    BY <1>3 DEF Inward, Receive, MayStart, Dial, Skip, TakeDirect, DirectEnds, DirectRefused,
                FallBack, Stall
  <2>2. Ends(d, "done") /\ attempt'[d] = 0
    BY <1>3, <2>1 DEF Check, Announced
  <2>3. state'[d] = "done"
    BY <1>0, <2>2 DEF Ends
  <2>4. \A s \in Device \ {d} : LoneAt(d, s, Nat)'
    BY <1>0, QuietSame DEF Over, LoneAt
  <2> QED BY <2>2, <2>3, <2>4 DEF Over
<1> QED BY <1>1, <1>2, <1>3 DEF Over

-----------------------------------------------------------------------------
(* The receiver asks. *)

\* d sends a request
AsksNow(d) == (Ask(d) \/ FallBack(d)) /\ AskOver(d, Head(todo[d]))

\* the request
Question(d) == FetchEnv(Len(part[d]), attempt[d] + 1)

LEMMA AskFacts ==
  ASSUME Ground, [Next]_vars, NEW d \in Device, AsksNow(d)
  PROVE  /\ Head(todo[d]) \in Device /\ stage[d] \in {"next", "direct"} /\ stage'[d] = "envelope"
         /\ attempt'[d] = attempt[d] + 1 /\ part' = part /\ todo' = todo /\ cancelled' = cancelled
         /\ loops' = loops /\ gen' = gen /\ links' = links /\ opened' = opened /\ version' = version
         /\ wire' = Put(d, Head(todo[d]), Question(d), wire)
         /\ Question(d) \in Asks({attempt[d] + 1}) /\ Question(d).offset = Len(part[d])
         /\ attempt[d] \in Nat /\ Len(part[d]) \in Nat
<1>0. /\ DOMAIN stage = Device /\ DOMAIN attempt = Device /\ attempt[d] \in Nat
      /\ part[d] \in Prefix /\ Secure
  BY DEF Ground, Base, Inv, Types
<1>1. Len(part[d]) \in 0 .. Chunks /\ Chunks \in Nat
  BY <1>0, PrefixLength, TransferAssumption
<1>2. Question(d) \in Asks({attempt[d] + 1}) /\ Question(d).offset = Len(part[d])
  BY <1>0, <1>1 DEF Question, FetchEnv, Asks, Fetches
<1>3. Head(todo[d]) \in Device /\ stage[d] \in {"next", "direct"}
  BY <1>0 DEF AsksNow, Ask, FallBack, Secure, Known
<1>4. /\ stage'[d] = "envelope" /\ attempt'[d] = attempt[d] + 1 /\ part' = part /\ todo' = todo
      /\ cancelled' = cancelled /\ wire' = Put(d, Head(todo[d]), Question(d), wire)
  BY <1>0 DEF AsksNow, AskOver, Question
<1>5. loops' = loops /\ gen' = gen /\ links' = links /\ opened' = opened /\ version' = version
  BY DEF AsksNow, Ask, FallBack, serving, bounds
<1> QED BY <1>0, <1>1, <1>2, <1>3, <1>4, <1>5

LEMMA AskWire ==
  ASSUME Ground, [Next]_vars, NEW d \in Device, AsksNow(d), NEW s \in Device \ {d}
  PROVE  /\ wire'[s][d] = wire[s][d]
         /\ s # Head(todo[d]) \/ ~Online(d, s) => wire'[d][s] = wire[d][s]
         /\ s = Head(todo[d]) /\ Online(d, s) =>
              Added(wire'[d][s], wire[d][s], Max(links[d][s]), Question(d)) /\ Max(links[d][s]) \in Link
<1>0. Bonds /\ wire \in Wires /\ Head(todo[d]) \in Device
  BY AskFacts DEF Ground, Rest, Inv, Types
<1>1. wire' = Put(d, Head(todo[d]), Question(d), wire)
  BY AskFacts
<1> DEFINE q == Question(d)
           e == Head(todo[d])
<1> HIDE DEF q, e
<1>2. /\ \A u, v \in Device : u # d \/ v # e => wire'[u][v] = wire[u][v]
      /\ Online(d, e) => Added(wire'[d][e], wire[d][e], Max(links[d][e]), q)
      /\ ~Online(d, e) => wire' = wire
  BY <1>0, <1>1, PutIs DEF e, q
<1>3. Online(d, e) => Max(links[d][e]) \in Link
  BY <1>0, NewestIs DEF e
<1> QED BY <1>2, <1>3 DEF e, q

LEMMA AskPair ==
  ASSUME Ground, [Next]_vars, NEW d \in Device, AsksNow(d), NEW s \in Device \ {d}
  PROVE  /\ NothingAt(d, s, {attempt[d] + 1}) => FlowAt(d, s)' /\ GaplessAt(d, s)'
         /\ \A A \in SUBSET (Nat \ {attempt[d] + 1}) :
              /\ LoneAt(d, s, A) => Lone(loops'[s], wire'[d][s], d, A)
              /\ NothingAt(d, s, A) => Nothing(loops'[s], wire'[d][s], wire'[s][d], d, A)
<1>0. /\ wire[d][s] \in Lines /\ wire[s][d] \in Lines /\ wire'[d][s] \in Lines
  BY PairTypes
<1>1. /\ attempt'[d] = attempt[d] + 1 /\ part' = part /\ loops' = loops /\ attempt[d] \in Nat
      /\ Question(d) \in Asks({attempt[d] + 1}) /\ Question(d).offset = Len(part[d])
  BY AskFacts
<1>2. wire'[s][d] = wire[s][d]
  BY AskWire
<1>3. ASSUME NothingAt(d, s, {attempt[d] + 1}) PROVE FlowAt(d, s)' /\ GaplessAt(d, s)'
  <2> DEFINE L == loops[s]
             Q == wire[d][s]
             V == wire'[d][s]
             W == wire[s][d]
             a == attempt[d] + 1
             p == Len(part[d])
             f == Question(d)
  <2>1. Nothing(L, Q, W, d, {a}) /\ a \in Nat /\ Q \in Lines /\ f \in Asks({a}) /\ f.offset = p
    BY <1>0, <1>1, <1>3 DEF NothingAt
  <2>2. V = Q \/ \E n \in Link : Added(V, Q, n, f)
    BY AskWire
  <2> HIDE DEF L, Q, V, W, a, p, f
  <2>3. Flow(L, V, W, d, a, p) /\ Gapless(L, W, d, a, p)
    BY <2>1, <2>2, NothingFlows, Requested
  <2> QED BY <1>1, <1>2, <2>3 DEF FlowAt, GaplessAt, L, Q, V, W, a, p, f
<1>4. ASSUME NEW A \in SUBSET (Nat \ {attempt[d] + 1})
      PROVE  /\ LoneAt(d, s, A) => Lone(loops'[s], wire'[d][s], d, A)
             /\ NothingAt(d, s, A) => Nothing(loops'[s], wire'[d][s], wire'[s][d], d, A)
  <2>1. Question(d) \notin Asks(A)
    BY <1>1 DEF Asks
  <2>2. After(wire'[d][s], wire[d][s], Asks(A)) /\ After(wire'[s][d], wire[s][d], Sent(A))
    <3>1. wire'[d][s] = wire[d][s] \/ \E n \in Link : Added(wire'[d][s], wire[d][s], n, Question(d))
      BY AskWire
    <3> QED BY <1>0, <1>2, <2>1, <3>1, AddedAfter, AfterSame
  <2>3. Among(loops'[s], loops[s], d) /\ A \subseteq Nat
    BY <1>1 DEF Among
  <2>4. Served(loops'[s], d, A) \subseteq Served(loops[s], d, A)
    BY <1>1
  <2>5. LoneAt(d, s, A) => Lone(loops'[s], wire'[d][s], d, A)
    BY <1>0, <2>2, <2>4, StaysLone DEF LoneAt, Lines
  <2>6. NothingAt(d, s, A) => Nothing(loops'[s], wire'[d][s], wire'[s][d], d, A)
    BY <2>2, <2>3, StaysNothing DEF NothingAt
  <2> QED BY <2>5, <2>6
<1> QED BY <1>3, <1>4

LEMMA AskClean ==
  ASSUME Ground, [Next]_vars, NEW d \in Device, AsksNow(d), Clean(d)
  PROVE  Clean(d)'
<1>0. /\ attempt'[d] = attempt[d] + 1 /\ attempt[d] \in Nat /\ stage[d] \in {"next", "direct"}
      /\ stage'[d] = "envelope" /\ todo' = todo /\ loops' = loops
  BY AskFacts
<1> SUFFICES ASSUME NEW s \in Device \ {d}
             PROVE  IF Trying(d, s)' THEN /\ FlowAt(d, s)' /\ (Online(d, s)' => GaplessAt(d, s)')
                                          /\ NothingAt(d, s, Others(d))'
                                     ELSE NothingAt(d, s, Nat)'
  BY DEF Clean
<1>1. \A C \in SUBSET Nat : NothingAt(d, s, C)
  <2>1. NothingAt(d, s, Nat)
    BY <1>0 DEF Clean, Trying
  <2> QED BY <2>1, NothingMore DEF NothingAt
<1>2. CASE Trying(d, s)'
  <2>1. FlowAt(d, s)' /\ GaplessAt(d, s)'
    <3>1. {attempt[d] + 1} \in SUBSET Nat
      BY <1>0
    <3> QED BY <1>1, <3>1, AskPair
  <2>2. Nothing(loops'[s], wire'[d][s], wire'[s][d], d, Nat \ {attempt[d] + 1})
    BY <1>1, AskPair
  <2>3. NothingAt(d, s, Others(d))'
    BY <1>0, <2>2 DEF NothingAt, Others
  <2> QED BY <1>2, <2>1, <2>3
<1>3. CASE ~Trying(d, s)'
  <2>1. wire'[d][s] = wire[d][s] /\ wire'[s][d] = wire[s][d]
    BY <1>0, <1>3, AskWire DEF Trying
  <2>2. NothingAt(d, s, Nat)'
    BY <1>0, <1>1, <2>1 DEF NothingAt
  <2> QED BY <1>3, <2>2
<1> QED BY <1>2, <1>3

LEMMA AskMode ==
  ASSUME Ground, [Next]_vars, faults' + opened' <= 1, NEW d \in Device, Alone(d), Mode(d), AsksNow(d)
  PROVE  Mode(d)'
<1>0. /\ attempt'[d] = attempt[d] + 1 /\ attempt[d] \in Nat /\ stage[d] \in {"next", "direct"}
      /\ stage'[d] = "envelope" /\ todo' = todo /\ loops' = loops /\ gen' = gen /\ links' = links
      /\ cancelled' = cancelled /\ opened' = opened /\ Inv
  BY AskFacts DEF Ground
<1>1. CASE Fresh(d) /\ faults' = faults
  <2>1. Clean(d)' /\ Alike(d)'
    BY <1>0, <1>1, AskClean, NotCheck DEF Fresh
  <2>2. \A s \in Device \ {d} : OneGenAt(d, s)'
    BY <1>0, <1>1 DEF Fresh, OneGenAt
  <2>3. Fresh(d)'
    BY <2>1, <2>2 DEF Fresh
  <2> QED BY <2>3 DEF Mode
<1>2. CASE Fresh(d) /\ faults' # faults
  <2>1. faults = 0 /\ faults' = 1 /\ opened' = 0
    BY <1>2, StepCounts
  <2>2. ~cancelled'[d]
    BY <1>0, <2>1 DEF Ground, Base, Secure, Unhurt
  <2>3. Spared(d)'
    BY <1>2, <2>1, <2>2, AskClean DEF Fresh, Spared
  <2> QED BY <2>3 DEF Mode
<1>3. CASE Spared(d)
  <2>1. faults' = 1 /\ opened' = 0
    BY <1>3, StepCounts DEF Spared
  <2>2. Spared(d)'
    BY <1>0, <1>3, <2>1, AskClean DEF Spared
  <2> QED BY <2>2 DEF Mode
<1>4. CASE Over(d)
  <2>1. faults = 1 /\ \A s \in Device : ~Online(d, s)
    BY <1>0, <1>4 DEF Over, Inv, DoneIsIdle
  <2>2. Over(d)'
    BY <1>4, <2>1, CutOff DEF Over
  <2> QED BY <2>2 DEF Mode
<1>5. CASE Twice(d)
  <2>1. faults' = faults
    BY <1>5, StepCounts DEF Twice
  <2>2. Alike(d)'
    BY <1>0, <1>5, <2>1, NotCheck DEF Twice
  <2>3. ASSUME NEW s \in Device \ {d}
        PROVE  /\ FlowAt(d, s)' /\ NothingAt(d, s, Later(d))'
               /\ ~Trying(d, s)' => NothingAt(d, s, {attempt[d]})'
               /\ IF Trying(d, s)' THEN Again(d, s)' ELSE Leftover(d, s)'
    <3>0. Leftover(d, s) /\ Newest(d, s) /\ NothingAt(d, s, Later(d)) /\ ~Trying(d, s)
      BY <1>0, <1>5 DEF Twice, Trying, Newest, Leftover
    <3>1. {attempt[d] + 1} \in SUBSET Later(d) /\ Later(d) \in SUBSET Nat
      BY <1>0 DEF Later
    <3>2. \A C \in SUBSET Later(d) : NothingAt(d, s, C)
      BY <3>0, <3>1, NothingMore DEF NothingAt
    <3>3. NothingAt(d, s, {attempt[d] + 1})
      BY <3>1, <3>2
    <3>4. FlowAt(d, s)' /\ GaplessAt(d, s)'
      BY <3>3, AskPair
    <3>5. NothingAt(d, s, Later(d))'
      <4>1. Later(d)' \in SUBSET Later(d) /\ Later(d)' \in SUBSET (Nat \ {attempt[d] + 1})
        BY <1>0 DEF Later
      <4>2. NothingAt(d, s, Later(d)')
        BY <3>2, <4>1
      <4> DEFINE C == Later(d)'
      <4>3. NothingAt(d, s, C) /\ C \in SUBSET (Nat \ {attempt[d] + 1})
        BY <4>1, <4>2
      <4> HIDE DEF C
      <4>4. Nothing(loops'[s], wire'[d][s], wire'[s][d], d, C)
        BY <4>3, AskPair
      <4> QED BY <4>4 DEF NothingAt, C
    <3>6. CASE Trying(d, s)'
      <4>1. s = Head(todo[d]) /\ Online(d, s)
        BY <1>0, <1>5, <3>6 DEF Trying, Twice, Alike
      <4>2. LoneAt(d, s, Others(d))'
        <5>1. LoneAt(d, s, Nat) /\ Nothing(loops[s], wire[d][s], wire[s][d], d, {})
          BY <3>0 DEF Leftover, Nothing, Served, Free, Asks, Sent
        <5>2. \A C \in SUBSET Nat : LoneAt(d, s, C)
          <6>1. {} \in SUBSET Nat /\ Nat \in SUBSET Nat /\ Nat \cup {} = Nat
            OBVIOUS
          <6>2. \A C \in SUBSET (Nat \cup {}) : Lone(loops[s], wire[d][s], d, C)
            BY <5>1, <6>1, LoneMore DEF LoneAt
          <6> QED BY <6>1, <6>2 DEF LoneAt
        <5>3. Lone(loops'[s], wire'[d][s], d, Nat \ {attempt[d] + 1})
          BY <5>2, AskPair
        <5> QED BY <1>0, <5>3 DEF LoneAt, Others
      <4>3. BesideAt(d, s)'
        <5> DEFINE L == loops[s]
                   Q == wire[d][s]
                   V == wire'[d][s]
                   W == wire[s][d]
                   a == attempt[d] + 1
                   f == Question(d)
                   n == Max(links[d][s])
                   g == gen[s]
        <5>1. /\ Nothing(L, Q, W, d, {a}) /\ a \in Nat /\ Q \in Lines /\ f \in Asks({a})
              /\ n \in Link /\ Added(V, Q, n, f) /\ OneGen(L, d, g)
              /\ \A m \in Link : \A i \in DOMAIN Q[m] : Q[m][i] \in Fetches => m = n
          BY <1>0, <3>0, <3>3, <4>1, AskFacts, AskWire, PairTypes DEF NothingAt, Leftover,
             OneGenAt
        <5> HIDE DEF L, Q, V, W, a, f, n, g
        <5>2. Beside(L, V, W, d, a, g, n)
          BY <5>1, RequestedBeside
        <5>3. wire'[s][d] = wire[s][d]
          BY AskWire
        <5> QED BY <1>0, <5>2, <5>3 DEF BesideAt, L, Q, V, W, a, f, n, g
      <4>4. Again(d, s)'
        BY <3>4, <4>2, <4>3 DEF Again
      <4> QED BY <3>4, <3>5, <3>6, <4>4
    <3>7. CASE ~Trying(d, s)'
      <4>1. wire'[d][s] = wire[d][s] /\ wire'[s][d] = wire[s][d]
        BY <1>0, <3>7, AskWire DEF Trying
      <4>2. NothingAt(d, s, {attempt[d]})'
        BY <1>0, <3>3, <4>1 DEF NothingAt
      <4>3. Leftover(d, s)'
        BY <1>0, <3>0, <4>1 DEF Leftover, LoneAt, OneGenAt
      <4> QED BY <3>4, <3>5, <3>7, <4>2, <4>3
    <3> QED BY <3>6, <3>7
  <2>4. faults' + opened' = 1 /\ ~cancelled'[d]
    BY <1>0, <1>5, <2>1 DEF Twice
  <2>5. Twice(d)'
    BY <2>2, <2>3, <2>4 DEF Twice
  <2> QED BY <2>5 DEF Mode
<1> QED BY <1>1, <1>2, <1>3, <1>4, <1>5 DEF Mode

-----------------------------------------------------------------------------
(* The receiver is sent a frame. *)

\* A frame that is not of what d asked for last changes nothing of a pair.
LEMMA DataPair ==
  ASSUME Ground, [Next]_vars, NEW x \in Device, NEW e \in Device, NEW n \in Link, DataStep(x, e, n),
         NEW d \in Device, NEW s \in Device, s # d
  PROVE  PairKept(d, s) \/ (x = d /\ e = s /\ Head(wire[e][x][n]) \in Sent({attempt[d]}))
<1>0. /\ attempt[d] \in Nat /\ Len(part[d]) \in Nat /\ wire[d][s] \in Lines /\ wire[s][d] \in Lines
      /\ wire'[d][s] \in Lines /\ wire'[s][d] \in Lines /\ wire' \in Wires /\ wire \in Wires
      /\ Bonds /\ Marks /\ Inv /\ Finite
  BY PairTypes DEF Ground, Base
<1> DEFINE w == Taken(x, e, n)
           env == Head(wire[e][x][n])
<1>1. wire[e][x][n] # <<>> /\ w \in Wires
  BY <1>0, TakenOff DEF DataStep, Taken
<1>2. \A S : env \notin S \/ ~(x = d /\ e = s) => Keeps(w[s][d], wire[s][d], S)
  BY <1>0, <1>1, TakeAfter
<1> HIDE DEF w, env
<1>3. DataWire(x, w) /\ loops'[s] = loops[s]
  BY DataWires DEF DataStep, serving, w
<1>4. After(wire'[d][s], wire[d][s], Fetches) /\ After(wire'[s][d], wire[s][d], Frames)
  BY DataGuided
<1>5. ASSUME env \notin Sent({attempt[d]}) \/ ~(x = d /\ e = s)
      PROVE  Keeps(wire'[s][d], wire[s][d], Sent({attempt[d]}))
  <2>1. Keeps(w[s][d], wire[s][d], Sent({attempt[d]}))
    BY <1>2, <1>5
  <2>2. ASSUME NEW f \in Acks, NEW y \in Device, wire' = Put(x, y, f, w)
        PROVE  Keeps(wire'[s][d], wire[s][d], Sent({attempt[d]}))
    <3>1. Keeps(wire'[s][d], w[s][d], Sent({attempt[d]}))
      BY <1>0, <1>1, <2>2, PutAfter
    <3> QED BY <2>1, <3>1, KeepsTwice
  <2> QED BY <1>3, <2>1, <2>2 DEF DataWire
<1>6. CASE x = d /\ e = s /\ env \in Sent({attempt[d]})
  BY <1>6 DEF env
<1>7. CASE ~(x = d /\ e = s /\ env \in Sent({attempt[d]}))
  <2>1. Steady(d, s)
    BY <1>3, <1>4, <1>5, <1>7, SameLoops DEF Steady
  <2> QED BY <2>1, SteadyPair
<1> QED BY <1>6, <1>7

LEMMA FrameFacts ==
  ASSUME Ground, [Next]_vars, faults' + opened' <= 1, NEW d \in Device, NEW u \in Device, NEW n \in Link,
         DataStep(d, u, n)
  PROVE  /\ u # d /\ n \in links[d][u]
         /\ loops' = loops /\ gen' = gen /\ links' = links /\ version' = version
         /\ faults' = faults /\ opened' = opened
         /\ wire[u][d][n] # <<>> /\ Head(wire[u][d][n]) \in Frames
         /\ Cut(wire'[u][d], wire[u][d], n)
         /\ \A s \in Device \ {d} : LooseKept(d, s) /\ (s # u => wire'[s][d] = wire[s][d])
<1>0. /\ wire' \in Wires /\ wire \in Wires /\ Bonds /\ Inv
  BY PairTypes
<1>1. wire[u][d][n] # <<>> /\ Head(wire[u][d][n]) \in Frames
  BY DEF DataStep
<1>2. /\ loops' = loops /\ gen' = gen /\ links' = links /\ version' = version
      /\ faults' = faults /\ opened' = opened
  BY DEF DataStep, serving, bounds
<1>3. u # d /\ n \in links[d][u]
  BY <1>1 DEF Ground, Base, Tied
<1> DEFINE w == Taken(d, u, n)
<1>4. w \in Wires /\ (\A x, y \in Device : x # u \/ y # d => w[x][y] = wire[x][y])
      /\ Cut(w[u][d], wire[u][d], n)
  <2>1. Taken(d, u, n) \in Wires
    BY <1>0, <1>1, TakenOff DEF Taken
  <2>2. /\ \A x, y \in Device : x # u \/ y # d => Taken(d, u, n)[x][y] = wire[x][y]
        /\ Cut(Taken(d, u, n)[u][d], wire[u][d], n)
    BY <1>0, TakenIs DEF Taken
  <2> QED BY <2>1, <2>2
<1>5. DataWire(d, w)
  BY DataWires
<1> HIDE DEF w
<1>6. \A x \in Device \ {d} : wire'[x][d] = w[x][d]
  <2>1. ASSUME NEW f \in Acks, NEW y \in Device, wire' = Put(d, y, f, w), NEW x \in Device \ {d}
        PROVE  wire'[x][d] = w[x][d]
    BY <1>0, <1>4, <2>1, PutIs
  <2> QED BY <1>5, <2>1 DEF DataWire
<1>7. Cut(wire'[u][d], wire[u][d], n) /\ \A s \in Device \ {d} : s # u => wire'[s][d] = wire[s][d]
  BY <1>3, <1>4, <1>6
<1>8. ASSUME NEW s \in Device \ {d} PROVE LooseKept(d, s)
  <2>1. ~Asking(d, s)
    <3>1. attempt'[d] \in {attempt[d], 0} /\ attempt[d] \in Nat
      BY Zenon DEF DataStep, TakeData, pulling, Ground, Inv, Types
    <3>2. Asking(d, s) => attempt'[d] = attempt[d] + 1
      BY DEF Asking, AskOver, Ground, Inv, Types
    <3> QED BY <3>1, <3>2
  <2> QED BY <2>1, StepLoose
<1> QED BY <1>1, <1>2, <1>3, <1>7, <1>8

\* what d does with the frame
Ignored(d, env) == UNCHANGED <<pulling, cancelled>> /\ (stage[d] = "envelope" => env \notin Sent({attempt[d]}))
Failing(d, env) ==
  /\ stage[d] = "envelope" /\ (Ends(d, "pending") \/ Ends(d, "failed"))
  /\ UNCHANGED <<file, part, attempt>>
  /\ cancelled[d] \/ (env \in Sent({attempt[d]}) /\ ~Fits(d, env))
Fitting(d, env) ==
  /\ stage[d] = "envelope" /\ env \in Sent({attempt[d]}) /\ Fits(d, env) /\ ~cancelled[d]
  /\ part' = [part EXCEPT ![d] = @ \o env.data]
  /\ stage' = [stage EXCEPT ![d] = IF env.last THEN "check" ELSE @]
  /\ attempt' = [attempt EXCEPT ![d] = IF env.last THEN 0 ELSE @]
  /\ UNCHANGED <<state, file, todo, cancelled>>

LEMMA FrameCases ==
  ASSUME NEW d \in Device, NEW u \in Device, NEW n \in Link, DataStep(d, u, n)
  PROVE  LET env == Head(wire[u][d][n]) IN Ignored(d, env) \/ Failing(d, env) \/ Fitting(d, env)
BY Zenon DEF DataStep, TakeData, Ignored, Failing, Fitting, Sent

LEMMA IgnoredAside ==
  ASSUME Ground, [Next]_vars, faults' + opened' <= 1, NEW d \in Device,
         NEW u \in Device, NEW n \in Link, DataStep(d, u, n), Ignored(d, Head(wire[u][d][n]))
  PROVE  Aside(d) /\ cancelled'[d] = cancelled[d]
<1>1. Unmoved(d) /\ cancelled'[d] = cancelled[d]
  BY DEF Ignored, Unmoved, pulling
<1>2. ASSUME NEW s \in Device \ {d} PROVE LooseKept(d, s) /\ (stage[d] = "envelope" => PairKept(d, s))
  <2>1. LooseKept(d, s)
    BY FrameFacts
  <2>2. stage[d] = "envelope" => PairKept(d, s)
    BY DataPair DEF Ignored
  <2> QED BY <2>1, <2>2
<1> QED BY <1>1, <1>2 DEF Aside

LEMMA IgnoredMode ==
  ASSUME Ground, [Next]_vars, faults' + opened' <= 1, NEW d \in Device, Alone(d), Mode(d),
         NEW u \in Device, NEW n \in Link, DataStep(d, u, n), Ignored(d, Head(wire[u][d][n]))
  PROVE  Mode(d)'
BY IgnoredAside, AsideMode

\* What d waits for comes from the source it tries, and is next.
LEMMA InPlace ==
  ASSUME Ground, NEW d \in Device, NEW u \in Device, NEW n \in Link, wire[u][d][n] # <<>>,
         Head(wire[u][d][n]) \in Sent({attempt[d]}), FlowAt(d, u), GaplessAt(d, u),
         \A m \in Link : \A i \in DOMAIN wire[u][d][m] : wire[u][d][m][i] \in Sent({attempt[d]}) => m = n
  PROVE  Fits(d, Head(wire[u][d][n]))
<1>1. attempt[d] \in Nat /\ Len(part[d]) \in Nat /\ wire[u][d] \in Lines
  BY DEF Ground, Inv, Types, Wires, Lines
<1> DEFINE a == attempt[d]
           p == Len(part[d])
           L == loops[u]
           Q == wire[d][u]
           W == wire[u][d]
<1>2. /\ a \in Nat /\ p \in Nat /\ W \in Lines /\ W[n] # <<>> /\ Head(W[n]) \in Sent({a})
      /\ Flow(L, Q, W, d, a, p) /\ Gapless(L, W, d, a, p)
      /\ \A m \in Link : \A i \in DOMAIN W[m] : W[m][i] \in Sent({a}) => m = n
  BY <1>1 DEF FlowAt, GaplessAt
<1> HIDE DEF a, p, L, Q, W
<1>3. Head(W[n]).offset = p
  <2>1. OnLink(W, n, Sent({a}))
    BY <1>2 DEF OnLink
  <2> QED BY <1>2, <2>1, InOrder
<1> QED BY <1>3 DEF Fits, W, p

LEMMA FrameThere ==
  ASSUME Ground, NEW d \in Device, NEW u \in Device, NEW n \in Link, wire[u][d][n] # <<>>,
         Head(wire[u][d][n]) \in Frames
  PROVE  /\ Head(wire[u][d][n]).attempt \in Nat
         /\ \A A : Head(wire[u][d][n]) \in Sent(A) => ~Free(wire[u][d], Sent(A))
<1>1. 1 \in DOMAIN wire[u][d][n] /\ Head(wire[u][d][n]) = wire[u][d][n][1]
  BY HeadIs DEF Ground
<1> QED BY <1>1 DEF Frames, Free

\* As long as it is clean, the frame is one d waits for.
LEMMA CleanFrame ==
  ASSUME Ground, NEW d \in Device, Clean(d), NEW u \in Device \ {d}, NEW n \in Link,
         wire[u][d][n] # <<>>, Head(wire[u][d][n]) \in Frames
  PROVE  /\ Trying(d, u) /\ Head(wire[u][d][n]) \in Sent({attempt[d]})
         /\ FlowAt(d, u) /\ (Online(d, u) => GaplessAt(d, u)) /\ NothingAt(d, u, Others(d))
<1> DEFINE env == Head(wire[u][d][n])
<1>1. env.attempt \in Nat /\ env \in Frames /\ \A A : env \in Sent(A) => ~Free(wire[u][d], Sent(A))
  BY FrameThere
<1> HIDE DEF env
<1>2. Trying(d, u)
  <2>1. env \in Sent(Nat)
    BY <1>1 DEF Sent
  <2> QED BY <1>1, <2>1 DEF Clean, NothingAt, Nothing
<1>3. FlowAt(d, u) /\ (Online(d, u) => GaplessAt(d, u)) /\ NothingAt(d, u, Others(d))
  BY <1>2 DEF Clean
<1>4. env \notin Sent(Others(d))
  BY <1>1, <1>3 DEF NothingAt, Nothing
<1>5. env \in Sent({attempt[d]})
  BY <1>1, <1>4 DEF Sent, Others
<1> QED BY <1>2, <1>3, <1>5 DEF env

LEMMA CleanInPlace ==
  ASSUME Ground, NEW d \in Device, Clean(d), NEW u \in Device \ {d}, NEW n \in links[d][u], n \in Link,
         wire[u][d][n] # <<>>, Head(wire[u][d][n]) \in Frames, opened = 0
  PROVE  Fits(d, Head(wire[u][d][n]))
<1>1. links[d][u] \subseteq {0} /\ links[u][d] = links[d][u]
  BY DEF Ground, Base, Tied
<1>2. \A m \in Link : wire[u][d][m] # <<>> => m = n
  BY <1>1 DEF Ground, Base, Tied
<1>3. \A m \in Link : \A i \in DOMAIN wire[u][d][m] : m = n
  <2>1. DOMAIN <<>> = {}
    OBVIOUS
  <2> QED BY <1>2, <2>1
<1>4. /\ Head(wire[u][d][n]) \in Sent({attempt[d]})
      /\ FlowAt(d, u) /\ GaplessAt(d, u)
  BY CleanFrame DEF Online
<1> QED BY <1>3, <1>4, InPlace

LEMMA TwiceInPlace ==
  ASSUME Ground, NEW d \in Device, Twice(d), stage[d] = "envelope", NEW u \in Device \ {d}, NEW n \in Link,
         wire[u][d][n] # <<>>, Head(wire[u][d][n]) \in Sent({attempt[d]})
  PROVE  Trying(d, u) /\ Fits(d, Head(wire[u][d][n]))
<1>1. Trying(d, u)
  <2>1. ~Free(wire[u][d], Sent({attempt[d]}))
    BY FrameThere DEF Sent
  <2> QED BY <2>1 DEF Twice, NothingAt, Nothing
<1>2. Again(d, u) /\ FlowAt(d, u)
  BY <1>1 DEF Twice
<1>3. \A m \in Link : \A i \in DOMAIN wire[u][d][m] : wire[u][d][m][i] \in Sent({attempt[d]}) => m = Max(links[d][u])
  BY <1>2 DEF Again, BesideAt, Beside
<1>4. 1 \in DOMAIN wire[u][d][n] /\ Head(wire[u][d][n]) = wire[u][d][n][1]
  BY HeadIs DEF Ground
<1>5. \A m \in Link : \A i \in DOMAIN wire[u][d][m] : wire[u][d][m][i] \in Sent({attempt[d]}) => m = n
  BY <1>3, <1>4
<1>6. Fits(d, Head(wire[u][d][n]))
  BY <1>2, <1>5, InPlace DEF Again
<1> QED BY <1>1, <1>6

LEMMA OverNoFrame ==
  ASSUME Ground, NEW d \in Device, Over(d), NEW u \in Device, links[d][u] # {}
  PROVE  stage[d] # "envelope"
<1>1. (attempt[d] = 0 /\ state[d] = "done") \/ stage[d] = "check"
  BY DEF Over, Online
<1>2. state[d] = "done" => stage[d] = "idle"
  BY DEF Ground, Inv, DoneIsIdle
<1> QED BY <1>1, <1>2

LEMMA FailStage ==
  ASSUME Ground, NEW d \in Device, NEW env, Failing(d, env)
  PROVE  /\ stage'[d] \in {"next", "idle"} /\ ~cancelled'[d]
         /\ attempt' = attempt /\ part' = part
         /\ Others(d)' = Others(d) /\ Later(d)' = Later(d)
<1>0. /\ DOMAIN stage = Device /\ DOMAIN cancelled = Device
  BY DEF Ground, Inv, Types, Rest, Sources
<1>1. ASSUME NEW st, Ends(d, st) PROVE stage'[d] \in {"next", "idle"} /\ ~cancelled'[d]
  BY <1>0, <1>1 DEF Ends
<1> QED BY <1>1 DEF Failing, Others, Later

LEMMA FailMode ==
  ASSUME Ground, [Next]_vars, faults' + opened' <= 1, NEW d \in Device, Alone(d), Mode(d),
         NEW u \in Device, NEW n \in Link, DataStep(d, u, n), Failing(d, Head(wire[u][d][n]))
  PROVE  Mode(d)'
<1> DEFINE env == Head(wire[u][d][n])
<1>0. /\ u # d /\ n \in links[d][u]
      /\ loops' = loops /\ gen' = gen /\ links' = links /\ version' = version
      /\ faults' = faults /\ opened' = opened
      /\ wire[u][d][n] # <<>> /\ env \in Frames
      /\ \A s \in Device \ {d} : LooseKept(d, s)
  BY FrameFacts
<1>1. /\ stage[d] = "envelope" /\ (cancelled[d] \/ (env \in Sent({attempt[d]}) /\ ~Fits(d, env)))
      /\ stage'[d] \in {"next", "idle"} /\ ~cancelled'[d]
      /\ attempt' = attempt /\ part' = part
      /\ Others(d)' = Others(d) /\ Later(d)' = Later(d)
  BY FailStage DEF Failing
<1>2. ~Over(d)
  BY <1>0, <1>1, OverNoFrame
<1>3. ~Spared(d)
  BY <1>0, <1>1, CleanInPlace DEF Spared
<1>4. ~Twice(d)
  BY <1>0, <1>1, TwiceInPlace DEF Twice
<1>5. Fresh(d)
  BY <1>2, <1>3, <1>4 DEF Mode
<1>6. faults' + opened' = 1
  <2>1. faults \in Nat /\ opened \in Nat
    BY StepCounts
  <2>2. CASE faults = 0 /\ opened = 0
    <3>1. ~cancelled[d]
      BY <2>2 DEF Ground, Base, Secure, Unhurt
    <3> QED BY <1>0, <1>1, <1>5, <2>2, <3>1, CleanInPlace DEF Fresh
  <2> QED BY <1>0, <2>1, <2>2
<1>7. Alike(d)'
  BY <1>0, <1>1, <1>5, NotCheck DEF Fresh
<1>8. ASSUME NEW s \in Device \ {d}
      PROVE /\ FlowAt(d, s)' /\ NothingAt(d, s, Later(d))' /\ LoneAt(d, s, Nat)'
            /\ OneGenAt(d, s)' /\ Newest(d, s)'
  <2>1. FlowAt(d, s) /\ NothingAt(d, s, Later(d)) /\ LoneAt(d, s, Nat) /\ OneGenAt(d, s)
    BY <1>5, CleanFlow, CleanLone DEF Fresh
  <2>2. /\ Flow(loops'[s], wire'[d][s], wire'[s][d], d, attempt[d], Len(part[d]))
        /\ Nothing(loops'[s], wire'[d][s], wire'[s][d], d, Later(d))
        /\ Lone(loops'[s], wire'[d][s], d, Nat)
    <3>1. Later(d) \in SUBSET Nat /\ Nat \in SUBSET Nat
      BY OthersAreNumbers
    <3> QED BY <1>0, <2>1, <3>1, LooseGives
  <2>3. FlowAt(d, s)' /\ NothingAt(d, s, Later(d))' /\ LoneAt(d, s, Nat)'
    BY <1>1, <2>2 DEF FlowAt, NothingAt, LoneAt
  <2>4. OneGenAt(d, s)'
    BY <1>0, <2>1 DEF OneGenAt
  <2>5. Newest(d, s)
    <3>1. CASE s = u
      <4>1. env \in Sent({attempt[d]}) /\ FlowAt(d, u) /\ NothingAt(d, u, Others(d))
        BY <1>0, <1>5, CleanFrame DEF Fresh
      <4>2. ~Free(wire[u][d], Sent({attempt[d]}))
        BY <1>0, <4>1, FrameThere
      <4>3. Free(wire[d][u], Asks({attempt[d]})) /\ Free(wire[d][u], Asks(Others(d)))
        BY <4>1, <4>2 DEF FlowAt, Flow, NothingAt, Nothing
      <4>4. \A f \in Fetches : f \in Asks({attempt[d]}) \/ f \in Asks(Others(d))
        BY DEF Fetches, Asks, Others
      <4> QED BY <3>1, <4>3, <4>4 DEF Newest, Free
    <3>2. CASE s # u
      <4>0. Trying(d, u)
        BY <1>0, <1>5, CleanFrame DEF Fresh
      <4>1. ~Trying(d, s)
        BY <3>2, <4>0 DEF Trying
      <4>2. NothingAt(d, s, Nat)
        BY <1>5, <4>1 DEF Fresh, Clean
      <4> QED BY <4>2, NothingLeft DEF Ground
    <3> QED BY <3>1, <3>2
  <2>6. Newest(d, s)'
    BY <1>0, <2>5, DataGuided, NewestStays
  <2> QED BY <2>3, <2>4, <2>6
<1>9. Twice(d)'
  BY <1>1, <1>6, <1>7, <1>8, ComesTwice
<1> QED BY <1>9 DEF Mode

\* the stream without its first frame, which d has now
LEMMA FitFlow ==
  ASSUME Ground, [Next]_vars, faults' + opened' <= 1, NEW d \in Device, NEW u \in Device, NEW n \in Link,
         DataStep(d, u, n), Fitting(d, Head(wire[u][d][n])), FlowAt(d, u)
  PROVE  LET env == Head(wire[u][d][n]) IN
         /\ env.last => /\ stage'[d] = "check" /\ attempt'[d] = 0 /\ Len(part'[d]) >= Chunks
                        /\ Nothing(loops'[u], wire'[d][u], wire'[u][d], d, {attempt[d]})
         /\ ~env.last => /\ stage'[d] = "envelope" /\ attempt'[d] = attempt[d] /\ FlowAt(d, u)'
                         /\ GaplessAt(d, u) => GaplessAt(d, u)'
<1>0. /\ u # d /\ loops' = loops /\ wire[u][d][n] # <<>> /\ Head(wire[u][d][n]) \in Frames
      /\ Cut(wire'[u][d], wire[u][d], n)
  BY FrameFacts
<1>1. After(wire'[d][u], wire[d][u], Asks({attempt[d]}))
  <2>1. After(wire'[d][u], wire[d][u], Fetches)
    BY <1>0, DataGuided
  <2>2. Asks({attempt[d]}) \subseteq Fetches
    BY DEF Asks
  <2> QED BY <2>1, <2>2, AfterLess
<1>2. /\ attempt[d] \in Nat /\ Len(part[d]) \in Nat /\ wire[u][d] \in Lines /\ wire'[u][d] \in Lines
      /\ \A k \in DOMAIN loops[u] : loops[u][k].off \in Nat
      /\ part[d] \in Prefix /\ DOMAIN part = Device /\ DOMAIN stage = Device /\ DOMAIN attempt = Device
  <2>1. \A k \in DOMAIN loops[u] : loops[u][k] \in Loop
    BY DEF Ground, Inv, Serves, Loops
  <2>2. \A k \in DOMAIN loops[u] : loops[u][k].off \in Nat
    BY <2>1 DEF Loop
  <2> QED BY <2>2, PairTypes DEF Ground, Inv, Types
<1> DEFINE a == attempt[d]
           p == Len(part[d])
           L == loops[u]
           Q == wire[d][u]
           R == wire'[d][u]
           W == wire[u][d]
           V == wire'[u][d]
           env == Head(wire[u][d][n])
<1>3. /\ a \in Nat /\ p \in Nat /\ W \in Lines /\ V \in Lines /\ W[n] # <<>> /\ Head(W[n]) \in Sent({a})
      /\ Head(W[n]).offset = p /\ Cut(V, W, n) /\ Flow(L, Q, W, d, a, p)
      /\ Offsets(L)
      /\ After(R, Q, Asks({a})) /\ Head(W[n]) = env
  BY Zenon, <1>0, <1>1, <1>2 DEF FlowAt, Fitting, Fits, Offsets
<1>4. /\ part'[d] = part[d] \o env.data /\ env \in Frames
      /\ env.last => stage'[d] = "check" /\ attempt'[d] = 0
      /\ ~env.last => stage'[d] = "envelope" /\ attempt'[d] = attempt[d]
  BY Zenon, <1>0, <1>2 DEF Fitting
<1>5. Len(part'[d]) = p + Len(env.data)
  <2>1. env.data \in Seq(Piece) /\ part[d] \in Seq(Piece)
    BY <1>2, <1>4 DEF Frames, Prefix
  <2> HIDE DEF env
  <2> QED BY <1>4, <2>1
<1>6. GaplessAt(d, u) <=> Gapless(L, W, d, a, p)
  BY DEF GaplessAt
<1> HIDE DEF a, p, L, Q, R, W, V, env
<1>7. /\ env.last =>
           /\ Nothing(L, R, V, d, {a})
           /\ p + Len(env.data) = (IF p < Chunks THEN Chunks ELSE p)
      /\ ~env.last =>
           /\ Len(env.data) = 1
           /\ Flow(L, R, V, d, a, p + 1)
           /\ Gapless(L, W, d, a, p) => Gapless(L, V, d, a, p + 1)
  <2>1. Received(L, R, W, V, n, d, a, p)
    BY <1>3, ReceivedFlow
  <2> QED BY <1>3, <2>1 DEF Received
<1>8. CASE env.last
  <2>1. Len(part'[d]) >= Chunks
    BY <1>3, <1>5, <1>7, <1>8, TransferAssumption
  <2>2. Nothing(loops'[u], wire'[d][u], wire'[u][d], d, {attempt[d]})
    BY <1>0, <1>7, <1>8 DEF a, L, R, V
  <2> QED BY <1>4, <1>8, <2>1, <2>2 DEF env
<1>9. CASE ~env.last
  <2>1. Len(part'[d]) = p + 1
    BY <1>5, <1>7, <1>9
  <2>2. FlowAt(d, u)'
    <3>1. Flow(L, R, V, d, a, p + 1)
      BY <1>7, <1>9
    <3> QED BY <1>0, <1>4, <1>9, <2>1, <3>1 DEF FlowAt, a, L, R, V
  <2>3. GaplessAt(d, u) => GaplessAt(d, u)'
    <3>1. Gapless(L, W, d, a, p) => Gapless(L, V, d, a, p + 1)
      BY <1>7, <1>9
    <3> QED BY <1>0, <1>4, <1>6, <1>9, <2>1, <3>1 DEF GaplessAt, a, L, V
  <2> QED BY <1>4, <1>9, <2>2, <2>3 DEF env
<1> QED BY <1>8, <1>9

\* With the last frame d has all of the file.
LEMMA FitEnds ==
  ASSUME Ground, [Next]_vars, faults' + opened' <= 1, NEW d \in Device, NEW u \in Device, NEW n \in Link,
         DataStep(d, u, n), Fitting(d, Head(wire[u][d][n])), Head(wire[u][d][n]).last, FlowAt(d, u),
         version = 1,
         \A s \in Device \ {d} : \/ LoneAt(d, s, Nat)
                                 \/ s = u /\ LoneAt(d, s, Others(d))
  PROVE  Over(d)'
<1>0. /\ version' = version /\ \A s \in Device \ {d} : LooseKept(d, s)
  BY FrameFacts
<1>1. /\ stage'[d] = "check" /\ attempt'[d] = 0 /\ Len(part'[d]) >= Chunks
      /\ Nothing(loops'[u], wire'[d][u], wire'[u][d], d, {attempt[d]})
  BY FitFlow
<1>2. ASSUME NEW s \in Device \ {d} PROVE Lone(loops'[s], wire'[d][s], d, Nat)
  <2>0. /\ LoneAt(d, s, Nat) => Lone(loops'[s], wire'[d][s], d, Nat)
        /\ LoneAt(d, s, Others(d)) => Lone(loops'[s], wire'[d][s], d, Others(d))
    BY <1>0, LooseGives, OthersAreNumbers
  <2>1. CASE s = u /\ LoneAt(d, s, Others(d))
    <3>1. {attempt[d]} \in SUBSET Nat /\ Others(d) \in SUBSET Nat /\ Nat \in SUBSET (Others(d) \cup {attempt[d]})
      BY DEF Others, Ground, Inv, Types
    <3>2. \A C \in SUBSET (Others(d) \cup {attempt[d]}) : Lone(loops'[s], wire'[d][s], d, C)
      BY <1>1, <2>0, <2>1, <3>1, LoneMore
    <3> QED BY <3>1, <3>2
  <2> QED BY <2>0, <2>1
<1> QED BY <1>0, <1>1, <1>2, ComesToCheck

LEMMA FitFresh ==
  ASSUME Ground, [Next]_vars, faults' + opened' <= 1, NEW d \in Device, Alone(d), Clean(d),
         NEW u \in Device, NEW n \in Link, DataStep(d, u, n), Fitting(d, Head(wire[u][d][n]))
  PROVE  Clean(d)'
<1> DEFINE env == Head(wire[u][d][n])
<1>0. /\ u \in Device \ {d} /\ n \in links[d][u] /\ links' = links
      /\ wire[u][d][n] # <<>> /\ env \in Frames
      /\ \A s \in Device \ {d} : LooseKept(d, s)
  BY FrameFacts
<1>1. /\ Trying(d, u) /\ FlowAt(d, u) /\ (Online(d, u) => GaplessAt(d, u)) /\ NothingAt(d, u, Others(d))
  BY <1>0, CleanFrame
<1>2. /\ {attempt[d]} \in SUBSET Nat /\ Others(d) \in SUBSET Nat /\ Nat \in SUBSET Nat
      /\ Nat \in SUBSET (Others(d) \cup {attempt[d]})
  BY DEF Others, Ground, Inv, Types
<1>3. todo' = todo
  BY DEF Fitting
<1>4. /\ env.last => /\ stage'[d] = "check"
                     /\ Nothing(loops'[u], wire'[d][u], wire'[u][d], d, {attempt[d]})
      /\ ~env.last => /\ stage'[d] = "envelope" /\ attempt'[d] = attempt[d] /\ FlowAt(d, u)'
                      /\ GaplessAt(d, u) => GaplessAt(d, u)'
  BY <1>1, FitFlow
<1> HIDE DEF env
<1>5. Nothing(loops'[u], wire'[d][u], wire'[u][d], d, Others(d))
  BY <1>0, <1>1, <1>2, LooseGives
<1>6. ASSUME NEW s \in Device \ {d}, s # u PROVE ~Trying(d, s)' /\ NothingAt(d, s, Nat)'
  <2>1. ~Trying(d, s)
    BY <1>1, <1>6 DEF Trying
  <2>2. NothingAt(d, s, Nat)
    BY <2>1 DEF Clean
  <2>3. Nothing(loops'[s], wire'[d][s], wire'[s][d], d, Nat)
    BY <1>0, <1>2, <2>2, LooseGives
  <2>4. ~Trying(d, s)'
    BY <1>1, <1>3, <1>6 DEF Trying
  <2> QED BY <2>3, <2>4 DEF NothingAt
<1>7. CASE env.last
  <2>1. ~Trying(d, u)'
    BY <1>4, <1>7 DEF Trying
  <2>2. \A C \in SUBSET (Others(d) \cup {attempt[d]}) : Nothing(loops'[u], wire'[d][u], wire'[u][d], d, C)
    BY <1>2, <1>4, <1>5, <1>7, NothingMore
  <2>3. NothingAt(d, u, Nat)'
    BY <1>2, <2>2 DEF NothingAt
  <2> QED BY <1>6, <2>1, <2>3 DEF Clean
<1>8. CASE ~env.last
  <2>1. Trying(d, u)'
    BY <1>1, <1>3, <1>4, <1>8 DEF Trying
  <2>2. NothingAt(d, u, Others(d))'
    BY <1>4, <1>5, <1>8 DEF NothingAt, Others
  <2>3. FlowAt(d, u)' /\ (Online(d, u)' => GaplessAt(d, u)')
    BY <1>0, <1>1, <1>4, <1>8 DEF Online
  <2> QED BY <1>6, <2>1, <2>2, <2>3 DEF Clean
<1> QED BY <1>7, <1>8

LEMMA FitTwice ==
  ASSUME Ground, [Next]_vars, faults' + opened' <= 1, NEW d \in Device, Alone(d), Twice(d),
         NEW u \in Device, NEW n \in Link, DataStep(d, u, n), Fitting(d, Head(wire[u][d][n])),
         ~Head(wire[u][d][n]).last
  PROVE  Twice(d)'
<1>0. /\ u \in Device \ {d} /\ n \in links[d][u] /\ links' = links /\ loops' = loops /\ gen' = gen
      /\ faults' = faults /\ opened' = opened
      /\ wire[u][d][n] # <<>>
      /\ \A s \in Device \ {d} : LooseKept(d, s)
  BY FrameFacts
<1>1. /\ stage[d] = "envelope" /\ Head(wire[u][d][n]) \in Sent({attempt[d]})
      /\ todo' = todo /\ cancelled' = cancelled
  BY DEF Fitting
<1>2. Trying(d, u)
  BY <1>0, <1>1, TwiceInPlace
<1>3. FlowAt(d, u) /\ Again(d, u) /\ Alike(d)
  BY <1>0, <1>2 DEF Twice
<1>4. /\ stage'[d] = "envelope" /\ attempt'[d] = attempt[d] /\ FlowAt(d, u)' /\ GaplessAt(d, u)'
      /\ Others(d)' = Others(d) /\ Later(d)' = Later(d)
  BY <1>3, FitFlow DEF Again, Others, Later
<1>5. Alike(d)'
  BY <1>0, <1>3, <1>4, NotCheck
<1>6. /\ {attempt[d]} \in SUBSET Nat /\ Others(d) \in SUBSET Nat /\ Nat \in SUBSET Nat /\ Later(d) \in SUBSET Nat
  BY OthersAreNumbers DEF Ground, Inv, Types
<1>7. ASSUME NEW s \in Device \ {d} PROVE NothingAt(d, s, Later(d))'
  <2>1. NothingAt(d, s, Later(d))
    BY DEF Twice
  <2>2. Nothing(loops'[s], wire'[d][s], wire'[s][d], d, Later(d))
    BY <1>0, <1>6, <2>1, LooseGives
  <2> QED BY <1>4, <2>2 DEF NothingAt
<1>8. Again(d, u)'
  <2>1. LoneAt(d, u, Others(d))'
    <3>1. Lone(loops'[u], wire'[d][u], d, Others(d))
      BY <1>0, <1>3, <1>6, LooseGives DEF Again
    <3> QED BY <1>4, <3>1 DEF LoneAt
  <2>2. BesideAt(d, u)'
    <3>1. GuidedKept(d, u)
      BY <1>0, DataGuided
    <3>2. Beside(loops'[u], wire'[d][u], wire'[u][d], d, attempt[d], gen'[u], Max(links[d][u]))
      BY <1>3, <3>1 DEF GuidedKept, Guided, Again, FlowAt, LoneAt, Others, BesideAt
    <3> QED BY <1>0, <1>4, <3>2 DEF BesideAt
  <2> QED BY <1>4, <2>1, <2>2 DEF Again
<1>9. ASSUME NEW s \in Device \ {d}, s # u
      PROVE  ~Trying(d, s)' /\ FlowAt(d, s)' /\ NothingAt(d, s, {attempt[d]})' /\ Leftover(d, s)'
  <2>1. ~Trying(d, s) /\ ~Trying(d, s)'
    BY <1>1, <1>2, <1>9 DEF Trying
  <2>2. NothingAt(d, s, {attempt[d]}) /\ LoneAt(d, s, Nat) /\ OneGenAt(d, s) /\ Newest(d, s)
    BY <1>1, <2>1, LeftoverIs DEF Twice
  <2>3. /\ Nothing(loops'[s], wire'[d][s], wire'[s][d], d, {attempt[d]})
        /\ Lone(loops'[s], wire'[d][s], d, Nat)
    BY <1>0, <1>6, <2>2, LooseGives
  <2>4. NothingAt(d, s, {attempt[d]})' /\ LoneAt(d, s, Nat)'
    BY <1>4, <2>3 DEF NothingAt, LoneAt
  <2>5. FlowAt(d, s)'
    <3>1. \A p : Flow(loops'[s], wire'[d][s], wire'[s][d], d, attempt[d], p)
      BY <2>3, NothingFlows
    <3> QED BY <1>4, <3>1 DEF FlowAt
  <2>6. OneGenAt(d, s)'
    BY <1>0, <2>2 DEF OneGenAt
  <2>7. Newest(d, s)'
    BY <1>0, <2>2, DataGuided, NewestStays
  <2>8. Leftover(d, s)'
    BY <2>4, <2>6, <2>7 DEF Leftover, Newest
  <2> QED BY <2>1, <2>4, <2>5, <2>8
<1>10. Trying(d, u)'
  BY <1>1, <1>2, <1>4 DEF Trying
<1>11. faults' + opened' = 1 /\ ~cancelled'[d]
  BY <1>0, <1>1 DEF Twice
<1> QED BY <1>4, <1>5, <1>7, <1>8, <1>9, <1>10, <1>11 DEF Twice

LEMMA FitMode ==
  ASSUME Ground, [Next]_vars, faults' + opened' <= 1, NEW d \in Device, Alone(d), Mode(d),
         NEW u \in Device, NEW n \in Link, DataStep(d, u, n), Fitting(d, Head(wire[u][d][n]))
  PROVE  Mode(d)'
<1> DEFINE env == Head(wire[u][d][n])
<1>0. /\ u \in Device \ {d} /\ n \in links[d][u] /\ loops' = loops /\ gen' = gen
      /\ faults' = faults /\ opened' = opened
      /\ wire[u][d][n] # <<>> /\ env \in Frames
  BY FrameFacts
<1>1. stage[d] = "envelope" /\ env \in Sent({attempt[d]}) /\ cancelled' = cancelled
  BY DEF Fitting
<1>2. ~Over(d)
  BY <1>0, <1>1, OverNoFrame
<1>3. CASE Fresh(d)
  <2>1. Clean(d)' /\ FlowAt(d, u) /\ Alike(d)
    BY <1>0, <1>3, FitFresh, CleanFrame DEF Fresh
  <2>2. CASE env.last
    <3>1. \A s \in Device \ {d} : LoneAt(d, s, Nat)
      BY <1>3, CleanLone DEF Fresh
    <3>2. Over(d)'
      BY <2>1, <2>2, <3>1, FitEnds DEF Alike
    <3> QED BY <3>2 DEF Mode
  <2>3. CASE ~env.last
    <3>1. stage'[d] = "envelope"
      BY <2>1, <2>3, FitFlow
    <3>2. Alike(d)'
      BY <1>0, <2>1, <3>1, NotCheck
    <3>3. \A s \in Device \ {d} : OneGenAt(d, s)'
      BY <1>0, <1>3 DEF Fresh, OneGenAt
    <3>4. Fresh(d)'
      BY <2>1, <3>2, <3>3 DEF Fresh
    <3> QED BY <3>4 DEF Mode
  <2> QED BY <2>2, <2>3
<1>4. CASE Spared(d)
  <2>1. Clean(d)'
    BY <1>4, FitFresh DEF Spared
  <2>2. Spared(d)'
    BY <1>0, <1>1, <1>4, <2>1 DEF Spared
  <2> QED BY <2>2 DEF Mode
<1>5. CASE Twice(d)
  <2>1. CASE env.last
    <3>1. Trying(d, u)
      BY <1>0, <1>1, <1>5, TwiceInPlace
    <3>2. FlowAt(d, u) /\ LoneAt(d, u, Others(d)) /\ version = 1
      BY <1>0, <1>5, <3>1 DEF Twice, Again, Alike
    <3>3. ASSUME NEW s \in Device \ {d}, s # u PROVE LoneAt(d, s, Nat)
      BY <1>5, <3>1, <3>3 DEF Twice, Leftover, Trying
    <3>4. Over(d)'
      BY <2>1, <3>2, <3>3, FitEnds
    <3> QED BY <3>4 DEF Mode
  <2>2. CASE ~env.last
    BY <1>5, <2>2, FitTwice DEF Mode
  <2> QED BY <2>1, <2>2
<1> QED BY <1>2, <1>3, <1>4, <1>5 DEF Mode

LEMMA FrameMode ==
  ASSUME Ground, [Next]_vars, faults' + opened' <= 1, NEW d \in Device, Alone(d), Mode(d),
         NEW u \in Device, NEW n \in Link, DataStep(d, u, n)
  PROVE  Mode(d)'
BY FrameCases, IgnoredMode, FailMode, FitMode
-----------------------------------------------------------------------------
(* The receiver is cancelled, or starts again. *)

LEMMA CancelMode ==
  ASSUME Ground, [Next]_vars, faults' + opened' <= 1, NEW d \in Device, Alone(d), Mode(d), Cancel(d)
  PROVE  Mode(d)'
<1>1. faults = 0 /\ faults' = 1 /\ opened = 0
  BY StepCounts DEF Cancel, Fault
<1>2. UNCHANGED <<version, pulling, serving, links, wire>>
  BY DEF Cancel
<1>3. CASE Fresh(d)
  BY <1>2, <1>3 DEF Mode, Fresh, Clean, Alike, Only, OneGenAt, Trying, FlowAt, GaplessAt,
     NothingAt,
                    Others, Online, pulling, serving
<1>4. CASE Over(d)
  BY <1>1, <1>2, <1>4 DEF Mode, Over, LoneAt, pulling, serving, Content
<1>5. ~Spared(d) /\ ~Twice(d)
  <2>1. ~Spared(d)
    BY <1>1 DEF Spared
  <2>2. ~Twice(d)
    BY <1>1 DEF Twice
  <2> QED BY <2>1, <2>2
<1> QED BY <1>3, <1>4, <1>5 DEF Mode

LEMMA RestartMode ==
  ASSUME Ground, [Next]_vars, faults' + opened' <= 1, NEW d \in Device, Alone(d), Mode(d), Restart(d)
  PROVE  Mode(d)'
<1>1. faults = 0 /\ faults' = 1
  BY StepCounts DEF Restart, Fault
<1>2. ~Spared(d) /\ ~Twice(d)
  <2>1. ~Spared(d)
    BY <1>1 DEF Spared
  <2>2. opened' = opened
    BY DEF Restart
  <2>3. ~Twice(d)
    BY <1>1, <2>2, StepCounts DEF Twice
  <2> QED BY <2>1, <2>3
<1>3. ASSUME NEW s \in Device \ {d} PROVE LoneAt(d, s, Nat)'
  <2>1. LoneAt(d, s, Nat)
    BY <1>2, CleanLone DEF Mode, Fresh, Over
  <2>2. PairKept(d, s)
    BY OutsidePair
  <2>3. Lone(loops'[s], wire'[d][s], d, Nat)
    BY <2>1, <2>2 DEF PairKept, Keeping, LoneAt
  <2> QED BY <2>3 DEF LoneAt
<1>4. \A s \in Device : ~Online(d, s)'
  BY DEF Restart, Online
<1>5. Over(d)'
  BY <1>1, <1>3, <1>4 DEF Over
<1> QED BY <1>5 DEF Mode

-----------------------------------------------------------------------------
(* All steps. *)

\* the steps of d
Onset(d) == Receive(d) \/ Pull(d) \/ Cancel(d) \/ Restart(d) \/ \E u \in Device, n \in Link : DataStep(d, u, n)

\* what the others do leaves d where it is
LEMMA Elsewhere ==
  ASSUME Ground, [Next]_vars, NEW d \in Device, ~Onset(d)
  PROVE  Unmoved(d) /\ cancelled'[d] = cancelled[d]
<1>0. /\ Inv /\ Rest
      /\ DOMAIN state = Device /\ DOMAIN part = Device /\ DOMAIN todo = Device /\ DOMAIN stage = Device
      /\ DOMAIN attempt = Device /\ DOMAIN cancelled = Device
  BY DEF Ground, Inv, Types, Rest, Sources
<1>1. CASE UNCHANGED <<pulling, cancelled>>
  BY <1>1 DEF Unmoved, pulling
<1>2. ASSUME NEW x \in Device, SourceStep(x) PROVE UNCHANGED <<pulling, cancelled>>
  BY <1>2, SourceIs
<1>3. ASSUME NEW x \in Device, Pull(x) PROVE Unmoved(d) /\ cancelled'[d] = cancelled[d]
  <2>1. OwnOf(x) /\ x # d
    BY <1>0, <1>3, PullIs DEF Onset
  <2> QED BY <2>1 DEF OwnOf, Pulls, Unmoved
<1>4. ASSUME NEW x \in Device, NEW e \in Device, Deliver(x, e) PROVE Unmoved(d) /\ cancelled'[d] = cancelled[d]
  <2>1. PICK n \in Link : FetchStep(x, e, n) \/ AckStep(x, e, n) \/ DataStep(x, e, n)
    BY <1>0, <1>4, DeliverCases
  <2>2. CASE FetchStep(x, e, n) \/ AckStep(x, e, n)
    BY <1>1, <2>2 DEF FetchStep, AckStep
  <2>3. CASE DataStep(x, e, n)
    <3>1. x # d
      BY <2>3 DEF Onset
    <3>2. OwnOf(x)
      BY <1>0, <2>3, DataIsOwn DEF DataStep
    <3> QED BY <3>1, <3>2 DEF OwnOf, Pulls, Unmoved
  <2> QED BY <2>1, <2>2, <2>3
<1>5. ASSUME NEW x \in Device, Receive(x) \/ Cancel(x) \/ Restart(x)
      PROVE Unmoved(d) /\ cancelled'[d] = cancelled[d]
  <2>1. x # d
    BY <1>5 DEF Onset
  <2>2. CASE Receive(x)
    BY <1>0, <2>1, <2>2 DEF Receive, Unmoved
  <2>3. CASE Cancel(x)
    BY <1>0, <2>1, <2>3 DEF Cancel, Unmoved, pulling
  <2>4. CASE Restart(x)
    BY <1>0, <2>1, <2>4 DEF Restart, Unmoved
  <2> QED BY <1>5, <2>2, <2>3, <2>4
<1>6. ASSUME NEW x \in Device, NEW e \in Device, Connect(x, e) \/ Break(x, e) \/ NoteAddress(x, e)
      PROVE UNCHANGED <<pulling, cancelled>>
  BY <1>6 DEF Connect, Break, NoteAddress
<1>7. ChangeFile \/ UNCHANGED vars => UNCHANGED <<pulling, cancelled>>
  BY DEF ChangeFile, vars
<1> QED BY <1>1, <1>2, <1>3, <1>4, <1>5, <1>6, <1>7 DEF Next

LEMMA ElsewhereAside ==
  ASSUME Ground, [Next]_vars, faults' + opened' <= 1, NEW d \in Device, ~Onset(d)
  PROVE  Aside(d) /\ cancelled'[d] = cancelled[d]
<1>1. Unmoved(d) /\ cancelled'[d] = cancelled[d]
  BY Elsewhere
<1>2. ASSUME NEW s \in Device \ {d} PROVE LooseKept(d, s) /\ PairKept(d, s)
  <2>1. ~Asking(d, s)
    BY <1>1 DEF Asking, AskOver, Unmoved, Ground, Inv, Types
  <2>2. ~Takes(d, s)
    BY DEF Takes, Onset
  <2> QED BY <2>1, <2>2, StepLoose, StepPair
<1> QED BY <1>1, <1>2 DEF Aside

LEMMA ElsewhereMode ==
  ASSUME Ground, [Next]_vars, faults' + opened' <= 1, NEW d \in Device, Alone(d), Mode(d), ~Onset(d)
  PROVE  Mode(d)'
BY ElsewhereAside, AsideMode

LEMMA StepMode ==
  ASSUME Ground, [Next]_vars, faults' + opened' <= 1, NEW d \in Device, Alone(d), Mode(d)
  PROVE  Mode(d)'
<1>1. CASE Inward(d)
  BY <1>1, InwardFresh, InwardSpared, InwardTwice, InwardOver DEF Mode
<1>2. CASE AsksNow(d)
  BY <1>2, AskMode
<1>3. CASE Pull(d) \/ Receive(d)
  <2>1. Inward(d) \/ AsksNow(d)
    BY <1>3 DEF Pull, Inward, AsksNow, Ask, FallBack
  <2> QED BY <1>1, <1>2, <2>1
<1>4. CASE Cancel(d) \/ Restart(d)
  BY <1>4, CancelMode, RestartMode
<1>5. CASE \E u \in Device, n \in Link : DataStep(d, u, n)
  BY <1>5, FrameMode
<1>6. CASE ~Onset(d)
  BY <1>6, ElsewhereMode
<1> QED BY <1>3, <1>4, <1>5, <1>6 DEF Onset

LEMMA InitMode == ASSUME Init, NEW d \in Device PROVE Fresh(d)
<1>1. DOMAIN <<>> = {}
  OBVIOUS
<1>2. /\ \A x \in Device : loops[x] = <<>> /\ stage[x] = "idle"
      /\ \A x, y \in Device : \A n \in Link : wire[x][y][n] = <<>>
      /\ version = 1 /\ \A s \in Device \ {d} : links[d][s] = {0}
  BY DEF Init
<1>3. \A s \in Device \ {d} : NothingAt(d, s, Nat) /\ OneGenAt(d, s)
  BY <1>1, <1>2 DEF NothingAt, Nothing, Served, Free, OneGenAt, OneGen
<1>4. Clean(d)
  BY <1>2, <1>3 DEF Clean, Trying
<1>5. Alike(d)
  BY <1>1, <1>2 DEF Alike, Only, Online
<1> QED BY <1>3, <1>4, <1>5 DEF Fresh

LEMMA StepCourse == ASSUME Ground, [Next]_vars, Course PROVE Course'
<1> SUFFICES ASSUME NEW d \in Device, Alone(d), faults' + opened' <= 1 PROVE Mode(d)'
  BY DEF Course, Mode, Alone
<1>1. faults + opened <= 1
  BY StepCounts
<1>2. Mode(d)
  BY <1>1 DEF Course, Mode
<1> QED BY <1>2, StepMode

\* With one fault or one more link at most, the only receiver stays in its course.
THEOREM CourseKept == Spec => [](Ground /\ Course)
<1>1. Init => Ground /\ Course
  BY InitGround, InitMode DEF Course
<1>2. Ground /\ Course /\ [Next]_vars => Ground' /\ Course'
  BY StepGround, StepCourse
<1> QED BY <1>1, <1>2, PTL DEF Spec

-----------------------------------------------------------------------------
(* One loop goes on. *)

LEMMA AtMostOne ==
  ASSUME NEW S, \A x, y \in S : x = y
  PROVE  Cardinality(S) <= 1
<1>1. CASE S = {}
  BY <1>1, FS_EmptySet
<1>2. CASE S # {}
  <2>1. PICK x \in S : TRUE
    BY <1>2
  <2>2. S = {x}
    BY <2>1
  <2> QED BY <2>2, FS_Singleton
<1> QED BY <1>1, <1>2

LEMMA OneGoesOn ==
  ASSUME Ground, NEW d \in Device, Mode(d), NEW s \in Device
  PROVE  OneLoop(s, d)
<1> DEFINE Going == {k \in DOMAIN loops[s] : /\ loops[s][k].peer = d /\ loops[s][k].at # "open"
                                             /\ IsCurrent(loops[s][k], gen[s])}
<1>1. \A k \in DOMAIN loops[s] : loops[s][k].attempt \in Nat /\ loops[s][k].gen # 0
  BY DEF Ground, Inv, Serves, Loops, Loop, Base, Positive
<1>2. Going \subseteq Served(loops[s], d, Nat)
  BY <1>1 DEF Served
<1>3. ASSUME NEW k \in Going, NEW j \in Going PROVE k = j
  <2>1. CASE s = d
    BY <1>3, <2>1 DEF Ground, Base, Tied
  <2>2. CASE s # d /\ LoneAt(d, s, Nat)
    BY <1>2, <1>3, <2>2 DEF LoneAt, Lone
  <2>3. CASE s # d /\ ~LoneAt(d, s, Nat)
    <3>1. Twice(d)
      BY <2>3, CleanLone DEF Mode, Fresh, Spared, Over
    <3>2. Trying(d, s)
      BY <2>3, <3>1 DEF Twice, Leftover
    <3>3. FlowAt(d, s) /\ LoneAt(d, s, Others(d)) /\ BesideAt(d, s)
      BY <2>3, <3>1, <3>2 DEF Twice, Again
    <3>4. \A i \in Going : i \in Served(loops[s], d, {attempt[d]}) \/ i \in Served(loops[s], d, Others(d))
      BY <1>1 DEF Served, Others
    <3>5. ASSUME NEW i \in Going, NEW l \in Going, i \in Served(loops[s], d, {attempt[d]}),
                 l \in Served(loops[s], d, Others(d))
          PROVE  FALSE
      <4>1. loops[s][i].gen = gen[s] /\ loops[s][l].gen # gen[s]
        BY <3>3, <3>5 DEF BesideAt, Beside, Others
      <4> QED BY <1>1, <4>1 DEF IsCurrent
    <3>6. \A i, l \in Served(loops[s], d, {attempt[d]}) : i = l
      BY <3>3 DEF FlowAt, Flow, Lone
    <3>7. \A i, l \in Served(loops[s], d, Others(d)) : i = l
      BY <3>3 DEF LoneAt, Lone
    <3> HIDE DEF Going
    <3> QED BY <1>3, <3>4, <3>5, <3>6, <3>7
  <2> QED BY <2>1, <2>2, <2>3
<1>4. Cardinality(Going) <= 1
  <2> HIDE DEF Going
  <2> QED BY <1>3, AtMostOne
<1> QED BY <1>4 DEF OneLoop

-----------------------------------------------------------------------------
(* A loop goes on reading as acknowledgements allow. *)

Slowed(s, k) ==
  LET m == loops'[s][k]
      o == loops[s][k]
  IN /\ k \in DOMAIN loops[s] /\ m.peer = o.peer /\ m.attempt = o.attempt /\ m.gen = o.gen
     /\ lastAck'[s] >= lastAck[s]
     /\ m.at = "read" => (o.at = "read" /\ m.off = o.off) \/ ~Full(m.off, lastAck'[s])

\* Begun, going on, or one of a number that _serveGen has only now
Goes(s, k) ==
  \/ Slowed(s, k)
  \/ loops'[s][k].at = "open" /\ lastAck'[s] # None
  \/ k \in DOMAIN loops[s] /\ loops[s][k].gen = gen[s] + 1 /\ loops'[s][k].attempt = loops[s][k].attempt
     /\ loops'[s][k].peer = loops[s][k].peer

LEMMA SameSlowed ==
  ASSUME Ground, NEW s \in Device, loops'[s] = loops[s], lastAck'[s] = lastAck[s], NEW k \in DOMAIN loops'[s]
  PROVE  Slowed(s, k)
<1>1. lastAck[s] \in Int
  BY DEF Ground, Rest, Marks, Mark, None
<1> QED BY <1>1 DEF Slowed

LEMMA TurnSlowed ==
  ASSUME Ground, NEW s \in Device, NEW j \in DOMAIN loops[s], NEW ls, Turned(s, ls, j, gen[s], lastAck[s]),
         Onward(loops'[s], loops[s], j, gen[s], gen'[s]), gen'[s] # 0, NEW k \in DOMAIN loops'[s]
  PROVE  Slowed(s, k)
<1>1. lastAck[s] \in Int /\ lastAck'[s] = lastAck[s]
  BY DEF Ground, Rest, Marks, Mark, None, Turned
<1>2. CASE k # j
  BY <1>1, <1>2 DEF Onward, Slowed
<1>3. CASE k = j
  BY <1>1, <1>3 DEF Onward, Slowed, Turned
<1> QED BY <1>2, <1>3

LEMMA SourceGoes ==
  ASSUME Ground, NEW x \in Device, SourceStep(x), NEW s \in Device, gen'[s] # 0,
         NEW k \in DOMAIN loops'[s]
  PROVE  Goes(s, k)
<1>0. Inv /\ Rest /\ Marks
  BY DEF Ground, Rest
<1>1. PICK j \in DOMAIN loops[x] : Open(x, j) \/ SendChunk(x, j) \/ GiveUp(x, j)
  BY DEF SourceStep
<1>2. Same(x) /\ Onward(loops'[x], loops[x], j, gen[x], gen'[x])
  BY <1>0, <1>1, SourceLoops
<1>3. \E ls : Turned(x, ls, j, gen[x], lastAck[x])
  <2>1. CASE Open(x, j)
    BY <1>0, <2>1, OpenIs
  <2>2. CASE SendChunk(x, j)
    BY <1>0, <2>2, SendChunkIs
  <2>3. CASE GiveUp(x, j)
    BY <1>0, <2>3, GiveUpIs
  <2> QED BY <1>1, <2>1, <2>2, <2>3
<1>4. CASE s # x
  BY <1>2, <1>4, SameSlowed DEF Same, Goes
<1>5. CASE s = x
  BY <1>2, <1>3, <1>5, TurnSlowed DEF Goes
<1> QED BY <1>4, <1>5

LEMMA DeliverGoes ==
  ASSUME Ground, NEW x \in Device, NEW e \in Device, Deliver(x, e), NEW s \in Device, gen'[s] # 0,
         NEW k \in DOMAIN loops'[s], loops'[s][k].gen = gen'[s]
  PROVE  Goes(s, k)
<1>0. Inv /\ Rest /\ Marks /\ Finite /\ lastAck[s] \in Int
  BY DEF Ground, Rest, Base, Marks, Mark, None
<1>1. PICK n \in Link : FetchStep(x, e, n) \/ AckStep(x, e, n) \/ DataStep(x, e, n)
  BY <1>0, DeliverCases
<1> DEFINE env == Head(wire[e][x][n])
<1>2. CASE DataStep(x, e, n)
  BY <1>2, SameSlowed DEF DataStep, serving, Goes
<1>3. CASE FetchStep(x, e, n)
  <2>1. env \in Fetches /\ TakeFetch(x, e, env)
    BY <1>3 DEF FetchStep
  <2>2. env.offset \in Nat
    BY <2>1 DEF Fetches
  <2> HIDE DEF env
  <2>3. /\ Same(x) /\ Numbered(x, gen[x] + 1, env.offset)
        /\ \E j \in Nat \ {0} : j \notin DOMAIN loops[x] /\ Follows(x, j, Request(e, env, gen[x] + 1), env.offset)
    BY <1>0, <2>1, FetchIs
  <2>4. CASE s # x
    BY <2>3, <2>4, SameSlowed DEF Same, Goes
  <2>5. CASE s = x
    <3>1. gen'[s] = gen[s] + 1 /\ lastAck'[s] # None
      BY <2>2, <2>3, <2>5 DEF Numbered, None
    <3>2. PICK j : Follows(s, j, Request(e, env, gen[s] + 1), env.offset)
      BY <2>3, <2>5
    <3>3. CASE k = j /\ loops'[s][k] = Request(e, env, gen[s] + 1)
      BY <3>1, <3>3 DEF Request, Goes
    <3>4. CASE ~(k = j /\ loops'[s][k] = Request(e, env, gen[s] + 1))
      BY <3>1, <3>2, <3>4 DEF Follows, Goes
    <3> QED BY <3>3, <3>4
  <2> QED BY <2>4, <2>5
<1>4. CASE AckStep(x, e, n)
  <2>1. env \in Acks /\ TakeAck(x, env)
    BY <1>4 DEF AckStep
  <2>2. env.offset \in Nat
    BY <2>1 DEF Acks
  <2> HIDE DEF env
  <2> DEFINE ack == IF env.offset > (IF lastAck[x] = None THEN 0 ELSE lastAck[x])
                    THEN env.offset ELSE lastAck[x]
  <2>3. /\ Same(x) /\ Numbered(x, gen[x], ack)
        /\ DOMAIN loops'[x] \subseteq DOMAIN loops[x]
        /\ \A j : j \notin DOMAIN loops[x] => \A l : Follows(x, j, l, ack)
    BY <1>0, <2>1, AckIs
  <2>4. CASE s # x
    BY <2>3, <2>4, SameSlowed DEF Same, Goes
  <2>5. CASE s = x
    <3>1. ack >= lastAck[s]
      BY <1>0, <2>2, <2>5 DEF None
    <3> HIDE DEF ack
    <3>2. gen'[s] = gen[s] /\ lastAck'[s] = ack
      BY <2>3, <2>5 DEF Numbered
    <3>3. 0 \notin DOMAIN loops[s] /\ k \in DOMAIN loops[s] /\ k # 0
      BY <1>0, <2>3, <2>5 DEF Finite
    <3>4. Follows(s, 0, loops, ack)
      BY <2>3, <2>5, <3>3
    <3>5. Slowed(s, k)
      BY <3>1, <3>2, <3>3, <3>4 DEF Follows, Slowed, Moved
    <3> QED BY <3>5 DEF Goes
  <2> QED BY <2>4, <2>5
<1> QED BY <1>1, <1>2, <1>3, <1>4

LEMMA LoopGoes ==
  ASSUME Ground, [Next]_vars, faults' = faults, NEW s \in Device, gen'[s] # 0,
         NEW k \in DOMAIN loops'[s], loops'[s][k].gen = gen'[s]
  PROVE  Goes(s, k)
<1>1. ~\E x \in Device : Restart(x)
  BY DEF Restart, Fault, Ground, Base, Secure, Unhurt
<1>2. Inv /\ Rest
  BY DEF Ground
<1>3. CASE UNCHANGED serving
  BY <1>3, SameSlowed DEF serving, Goes
<1> QED BY <1>1, <1>2, <1>3, SourceGoes, DeliverGoes, LoopsStay

-----------------------------------------------------------------------------
(* The window of the only receiver, as long as nothing goes wrong. *)

LEMMA NothingWrong ==
  ASSUME Ground, [Next]_vars, faults' = 0
  PROVE  /\ faults = 0 /\ opened \in Nat /\ opened <= opened'
         /\ \A d \in Device : ~Cancel(d) /\ ~Restart(d)
<1>1. faults = 0 /\ opened \in Nat /\ opened <= opened'
  BY StepCounts
<1> QED BY <1>1 DEF Cancel, Restart, Fault

\* A pull that is at its end stays there.
LEMMA OverStays ==
  ASSUME Ground, [Next]_vars, faults' = 0, opened' <= 1, NEW d \in Device, Over(d)
  PROVE  Over(d)'
<1>0. faults = 0 /\ faults' + opened' <= 1 /\ ~Cancel(d) /\ ~Restart(d) /\ Inv
  BY NothingWrong, StepCounts DEF Ground
<1>1. stage[d] \in {"check", "idle"}
  BY <1>0 DEF Over, Inv, DoneIsIdle
<1>2. CASE Inward(d)
  BY <1>0, <1>2, InwardOver
<1>3. ~AsksNow(d)
  BY <1>1, AskFacts
<1>4. CASE Pull(d) \/ Receive(d)
  <2>1. Inward(d)
    BY <1>3, <1>4 DEF Pull, Inward, AsksNow, Ask, FallBack
  <2> QED BY <1>2, <2>1
<1>5. ASSUME NEW u \in Device, NEW n \in Link, DataStep(d, u, n) PROVE Over(d)'
  <2>1. Ignored(d, Head(wire[u][d][n]))
    BY <1>1, <1>5, FrameCases DEF Failing, Fitting
  <2> QED BY <1>0, <1>5, <2>1, IgnoredAside, AsideOver
<1>6. CASE ~Onset(d)
  BY <1>0, <1>6, ElsewhereAside, AsideOver
<1> QED BY <1>0, <1>4, <1>5, <1>6 DEF Onset

LEMMA PartGrows ==
  ASSUME Ground, [Next]_vars, faults' = 0, NEW d \in Device, stage[d] # "check"
  PROVE  Len(part[d]) \in Nat /\ Len(part'[d]) \in Nat /\ Len(part[d]) <= Len(part'[d])
<1>0. ~Cancel(d) /\ ~Restart(d) /\ Ground' /\ DOMAIN part = Device
  BY NothingWrong, StepGround DEF Ground, Inv, Types
<1>1. part[d] \in Seq(Piece) /\ Len(part[d]) \in Nat /\ Len(part'[d]) \in Nat
  BY <1>0 DEF Ground, Inv, Types, Prefix
<1>2. CASE part'[d] = part[d]
  BY <1>1, <1>2
<1>3. CASE TakeDirect(d)
  <2> DEFINE c == ReadAt(Head(todo[d]), Len(part[d]))
             T == Piece \cup {c}
  <2>1. part'[d] = part[d] \/ part'[d] = Append(part[d], c)
    BY <1>0, <1>3 DEF TakeDirect
  <2>2. part[d] \in Seq(T) /\ c \in T
    BY <1>1
  <2> HIDE DEF c, T
  <2>3. Len(Append(part[d], c)) = Len(part[d]) + 1
    BY <2>2, AppendProperties
  <2> QED BY <1>1, <2>1, <2>3
<1>4. ASSUME NEW u \in Device, NEW n \in Link, DataStep(d, u, n)
      PROVE  Len(part[d]) <= Len(part'[d])
  <2> DEFINE env == Head(wire[u][d][n])
  <2>1. env \in Frames
    BY <1>4 DEF DataStep
  <2>2. Ignored(d, env) \/ Failing(d, env) \/ Fitting(d, env)
    BY <1>4, FrameCases
  <2> HIDE DEF env
  <2>3. env.data \in Seq(Piece) /\ Len(env.data) \in Nat
    BY <2>1 DEF Frames
  <2>4. Len(part[d] \o env.data) = Len(part[d]) + Len(env.data)
    BY <1>1, <2>3, ConcatProperties
  <2>5. part'[d] = part[d] \/ part'[d] = part[d] \o env.data
    <3>1. CASE Ignored(d, env) \/ Failing(d, env)
      <4>1. part' = part
        BY <3>1 DEF Ignored, Failing, pulling
      <4> QED BY <4>1
    <3>2. CASE Fitting(d, env)
      BY <1>0, <3>2 DEF Fitting
    <3> QED BY <2>2, <3>1, <3>2
  <2>6. CASE part'[d] = part[d] \o env.data
    <3> DEFINE x == Len(part[d])
               y == Len(env.data)
               z == Len(part'[d])
    <3>1. z = x + y /\ x \in Nat /\ y \in Nat
      BY <1>1, <2>3, <2>4, <2>6
    <3> HIDE DEF x, y, z
    <3>2. x <= z
      BY <3>1
    <3> QED BY <3>2 DEF x, z
  <2> QED BY <1>2, <2>5, <2>6
<1>5. CASE ~Onset(d)
  BY <1>2, <1>5, Elsewhere DEF Unmoved
<1>6. CASE Receive(d) \/ (Pull(d) /\ ~TakeDirect(d))
  <2>1. part' = part
    BY <1>6 DEF Receive, Pull, Ask, AskOver, Dial, Skip, DirectEnds, DirectRefused,
       FallBack, Stall, Check
  <2> QED BY <1>2, <2>1
<1> QED BY <1>0, <1>1, <1>3, <1>4, <1>5, <1>6 DEF Onset

\* d goes on to what it asks for next, with nothing of that under way, or to the end.
Onto(d) ==
  \/ attempt'[d] \in {attempt[d], 0}
  \/ attempt'[d] = attempt[d] + 1 /\ loops' = loops /\ \A s \in Device \ {d} : wire'[s][d] = wire[s][d]

LEMMA AttemptMoves ==
  ASSUME Ground, [Next]_vars, faults' = 0, NEW d \in Device
  PROVE  Onto(d)
<1>0. ~Cancel(d) /\ ~Restart(d) /\ Inv /\ Rest /\ DOMAIN attempt = Device /\ attempt[d] \in Nat
  BY NothingWrong DEF Ground, Inv, Types
<1>1. CASE ~Onset(d)
  BY <1>1, Elsewhere DEF Unmoved, Onto
<1>2. CASE AsksNow(d)
  BY <1>2, AskFacts, AskWire DEF Onto
<1>3. CASE Dial(d)
  BY <1>0, <1>3 DEF Dial, serving, Onto
<1>4. CASE Receive(d) \/ (Pull(d) /\ ~Dial(d) /\ ~AsksNow(d))
  <2>1. attempt' = attempt \/ attempt' = [attempt EXCEPT ![d] = 0]
    BY <1>4 DEF Receive, Pull, Ask, Skip, TakeDirect, DirectEnds, DirectRefused, FallBack,
       Stall, Check, AsksNow
  <2> QED BY <1>0, <2>1 DEF Onto
<1>5. ASSUME NEW u \in Device, NEW n \in Link, DataStep(d, u, n) PROVE Onto(d)
  <2>1. attempt'[d] \in {attempt[d], 0}
    <3> DEFINE env == Head(wire[u][d][n])
    <3>1. Ignored(d, env) \/ Failing(d, env) \/ Fitting(d, env)
      BY <1>5, FrameCases
    <3> HIDE DEF env
    <3>2. Ignored(d, env) \/ Failing(d, env) => attempt' = attempt
      BY DEF Ignored, Failing, pulling
    <3>3. Fitting(d, env) => attempt'[d] \in {attempt[d], 0}
      BY <1>0 DEF Fitting
    <3> QED BY <3>1, <3>2, <3>3
  <2> QED BY <2>1 DEF Onto
<1> QED BY <1>0, <1>1, <1>2, <1>3, <1>4, <1>5 DEF Onset

\* As long as nothing goes wrong, and d has not come to an end.
Pulling(d) == Only(d) /\ stage[d] # "check" /\ (Fresh(d) \/ Twice(d))

LEMMA PullingIs ==
  ASSUME Ground, NEW d \in Device, Mode(d), faults = 0, ~Over(d)
  PROVE  Pulling(d)
BY DEF Mode, Spared, Pulling, Fresh, Twice, Alike

LEMMA PullingFlow ==
  ASSUME Ground, NEW d \in Device, Pulling(d), NEW s \in Device \ {d}
  PROVE  FlowAt(d, s) /\ NothingAt(d, s, Later(d))
<1>1. CASE Fresh(d)
  BY <1>1, CleanFlow DEF Fresh
<1>2. CASE Twice(d)
  BY <1>2 DEF Twice
<1> QED BY <1>1, <1>2 DEF Pulling

\* the number of a loop for what d asked for last
Numbers(L, d, a, g) == \A k \in Served(L, d, {a}) : L[k].gen = g /\ g # 0

LEMMA OneGenNumbers ==
  ASSUME NEW L, NEW d, NEW a \in Nat, NEW g, \A k \in DOMAIN L : L[k].gen # 0, OneGen(L, d, g)
  PROVE  Numbers(L, d, a, g)
BY DEF OneGen, Served, Numbers

LEMMA BesideNumbers ==
  ASSUME NEW L, NEW Q, NEW W, NEW d, NEW a \in Nat, NEW g, NEW newest, \A k \in DOMAIN L : L[k].gen # 0,
         Beside(L, Q, W, d, a, g, newest)
  PROVE  Numbers(L, d, a, g)
BY DEF Beside, Served, Numbers

LEMMA NumbersNow ==
  ASSUME Ground, NEW d \in Device, Pulling(d), NEW s \in Device \ {d}
  PROVE  Numbers(loops[s], d, attempt[d], gen[s])
<1>1. attempt[d] \in Nat /\ \A k \in DOMAIN loops[s] : loops[s][k].gen # 0
  BY DEF Ground, Inv, Types, Base, Positive
<1>2. CASE OneGenAt(d, s)
  BY <1>1, <1>2, OneGenNumbers DEF OneGenAt
<1>3. CASE BesideAt(d, s)
  BY <1>1, <1>3, BesideNumbers DEF BesideAt
<1> QED BY <1>2, <1>3 DEF Pulling, Fresh, Twice, Again, Leftover

LEMMA NumbersNext ==
  ASSUME Ground', NEW d \in Device, Pulling(d)', NEW s \in Device \ {d}
  PROVE  Numbers(loops'[s], d, attempt'[d], gen'[s])
<1>1. attempt'[d] \in Nat /\ \A k \in DOMAIN loops'[s] : loops'[s][k].gen # 0
  BY DEF Ground, Inv, Types, Base, Positive
<1>2. CASE OneGenAt(d, s)'
  BY <1>1, <1>2, OneGenNumbers DEF OneGenAt
<1>3. CASE BesideAt(d, s)'
  BY <1>1, <1>3, BesideNumbers DEF BesideAt
<1> QED BY <1>2, <1>3 DEF Pulling, Fresh, Twice, Again, Leftover

\* What a source has heard of: of a request or an acknowledgement that it has taken.
Heard(s) ==
  \/ lastAck'[s] \in {lastAck[s], None}
  \/ \E e \in Device, n \in Link :
       /\ wire[e][s][n] # <<>> /\ Head(wire[e][s][n]) \in Fetches \cup Acks
       /\ lastAck'[s] = Head(wire[e][s][n]).offset

LEMMA AckComes ==
  ASSUME Ground, [Next]_vars, faults' = 0, NEW s \in Device
  PROVE  Heard(s)
<1>0. Inv /\ Rest /\ Marks /\ Finite /\ ~\E x \in Device : Restart(x)
  BY NothingWrong DEF Ground, Rest, Base
<1>1. CASE UNCHANGED serving
  BY <1>1 DEF serving, Heard
<1>2. ASSUME NEW x \in Device, SourceStep(x) PROVE Heard(s)
  <2>1. PICK j \in DOMAIN loops[x] : Open(x, j) \/ SendChunk(x, j) \/ GiveUp(x, j)
    BY <1>2 DEF SourceStep
  <2>2. \E ls : Turned(x, ls, j, gen[x], lastAck[x])
    <3>1. CASE Open(x, j)
      BY <1>0, <3>1, OpenIs
    <3>2. CASE SendChunk(x, j)
      BY <1>0, <3>2, SendChunkIs
    <3>3. CASE GiveUp(x, j)
      BY <1>0, <3>3, GiveUpIs
    <3> QED BY <2>1, <3>1, <3>2, <3>3
  <2>3. lastAck'[s] \in {lastAck[s], None}
    BY <2>2 DEF Turned
  <2> QED BY <2>3 DEF Heard
<1>3. ASSUME NEW x \in Device, NEW e \in Device, Deliver(x, e) PROVE Heard(s)
  <2>1. PICK n \in Link : FetchStep(x, e, n) \/ AckStep(x, e, n) \/ DataStep(x, e, n)
    BY <1>0, <1>3, DeliverCases
  <2> DEFINE env == Head(wire[e][x][n])
  <2>2. CASE DataStep(x, e, n)
    BY <2>2, <1>1 DEF DataStep
  <2>3. CASE FetchStep(x, e, n)
    <3>1. env \in Fetches /\ TakeFetch(x, e, env) /\ wire[e][x][n] # <<>>
      BY <2>3 DEF FetchStep
    <3> HIDE DEF env
    <3>2. Same(x) /\ Numbered(x, gen[x] + 1, env.offset)
      BY <1>0, <3>1, FetchIs
    <3>3. lastAck'[s] = lastAck[s] \/ (s = x /\ lastAck'[s] \in {env.offset, None})
      BY <3>2 DEF Same, Numbered
    <3> QED BY <3>1, <3>3 DEF Heard, env
  <2>4. CASE AckStep(x, e, n)
    <3>1. env \in Acks /\ TakeAck(x, env) /\ wire[e][x][n] # <<>>
      BY <2>4 DEF AckStep
    <3> HIDE DEF env
    <3> DEFINE ack == IF env.offset > (IF lastAck[x] = None THEN 0 ELSE lastAck[x])
                      THEN env.offset ELSE lastAck[x]
    <3>2. Same(x) /\ Numbered(x, gen[x], ack)
      BY <1>0, <3>1, AckIs
    <3>3. lastAck'[s] = lastAck[s] \/ (s = x /\ lastAck'[s] \in {ack, None})
      BY <3>2 DEF Same, Numbered
    <3>4. ack \in {env.offset, lastAck[x]}
      OBVIOUS
    <3> HIDE DEF ack
    <3> QED BY <3>1, <3>3, <3>4 DEF Heard, env
  <2> QED BY <2>1, <2>2, <2>3, <2>4
<1> QED BY <1>0, <1>1, <1>2, <1>3, LoopsStay

-----------------------------------------------------------------------------
(* What d has come to, and what a source reads and sends. *)

LEMMA AnsweredStays ==
  ASSUME Ground, [Next]_vars, faults' = 0, NEW d \in Device, Alone(d), Pulling(d),
         NEW s \in Device \ {d}, Answered(d, s)
  PROVE  Answered(d, s)'
<1> DEFINE p == Len(part[d])
           q == Len(part'[d])
<1>0. faults' = faults /\ Inv /\ Only(d) /\ Ground' /\ Finite
  BY NothingWrong, StepGround DEF Ground, Pulling, Base
<1>1. p \in Nat /\ q \in Nat /\ p <= q
  BY PartGrows DEF Pulling
<1>2. lastAck[s] \in Int /\ lastAck'[s] \in Int /\ lastAck[s] <= p
  BY <1>0 DEF Ground, Rest, Marks, Mark, None, Answered
<1>3. \A n \in Link : \A i \in DOMAIN wire[d][s][n] : wire[d][s][n][i] \in Fetches \cup Acks =>
        wire[d][s][n][i].offset \in Int /\ wire[d][s][n][i].offset <= p
  <2>1. \A f \in Fetches \cup Acks : f.offset \in Int
    BY DEF Fetches, Acks
  <2> QED BY <2>1 DEF Answered
<1> HIDE DEF p, q
<1>4. lastAck'[s] <= q
  <2>1. CASE lastAck'[s] \in {lastAck[s], None}
    BY <1>1, <1>2, <2>1 DEF None
  <2>2. ASSUME NEW e \in Device, NEW n \in Link, wire[e][s][n] # <<>>,
               Head(wire[e][s][n]) \in Fetches \cup Acks, lastAck'[s] = Head(wire[e][s][n]).offset
        PROVE  lastAck'[s] <= q
    <3>1. e = d
      BY <1>0, <2>2, OnlyHeads
    <3>2. 1 \in DOMAIN wire[d][s][n] /\ Head(wire[d][s][n]) = wire[d][s][n][1]
      BY <1>0, <2>2, <3>1, HeadIs
    <3>3. lastAck'[s] <= p
      BY <1>3, <2>2, <3>1, <3>2
    <3> QED BY <1>1, <1>2, <3>3
  <2> QED BY <2>1, <2>2, AckComes DEF Heard
<1>5. ASSUME NEW n \in Link, NEW i \in DOMAIN wire'[d][s][n], wire'[d][s][n][i] \in Fetches \cup Acks
      PROVE  wire'[d][s][n][i].offset <= q
  <2> DEFINE f == wire'[d][s][n][i]
  <2>1. f \notin Frames
    BY <1>5, Apart
  <2>2. f.offset \in Int
    BY <1>5 DEF Fetches, Acks
  <2>3. Old(d, s, n, f) \/ Newly(d, d, f)
    BY <1>0, <2>1, AsksCome
  <2>4. CASE Old(d, s, n, f)
    <3>1. PICK j \in DOMAIN wire[d][s][n] : wire[d][s][n][j] = f
      BY <2>4 DEF Old
    <3>2. f.offset <= p
      BY <1>3, <1>5, <3>1
    <3> HIDE DEF f
    <3> QED BY <1>1, <2>2, <3>2 DEF f
  <2>5. CASE Newly(d, d, f)
    BY <2>5 DEF Newly, q
  <2> QED BY <2>3, <2>4, <2>5
<1> QED BY <1>4, <1>5 DEF Answered, q

\* With nothing of what it asks for under way, there is nothing to hold.
LEMMA OntoIs ==
  ASSUME Ground, [Next]_vars, faults' = 0, NEW d \in Device, Pulling(d), NEW s \in Device \ {d},
         attempt'[d] # attempt[d]
  PROVE  Served(loops'[s], d, {attempt'[d]}) = {} /\ Free(wire'[s][d], Sent({attempt'[d]}))
<1>1. CASE attempt'[d] = 0
  <2>1. Positive'
    BY StepGround DEF Ground, Base
  <2> QED BY <1>1, <2>1 DEF Positive, Served, Free, Sent
<1>2. CASE attempt'[d] # 0
  <2>1. attempt'[d] = attempt[d] + 1 /\ loops' = loops /\ wire'[s][d] = wire[s][d]
    BY <1>2, AttemptMoves DEF Onto
  <2>2. attempt'[d] \in Later(d)
    BY <2>1 DEF Ground, Inv, Types, Later
  <2>3. NothingAt(d, s, Later(d))
    BY PullingFlow
  <2> QED BY <2>1, <2>2, <2>3 DEF NothingAt, Nothing, Served, Free, Sent
<1> QED BY <1>1, <1>2

LEMMA AllowedStays ==
  ASSUME Ground, [Next]_vars, faults' = 0, NEW d \in Device, Pulling(d), Pulling(d)',
         NEW s \in Device \ {d}, Allowed(d, s)
  PROVE  Allowed(d, s)'
<1>0. faults' = faults /\ Ground'
  BY NothingWrong, StepGround
<1> SUFFICES ASSUME NEW k \in Served(loops'[s], d, {attempt'[d]})
             PROVE  /\ lastAck'[s] # None
                    /\ loops'[s][k].at = "read" => loops'[s][k].off - lastAck'[s] < Window
  BY DEF Allowed
<1>1. attempt'[d] = attempt[d]
  BY OntoIs
<1>2. k \in DOMAIN loops'[s] /\ loops'[s][k].peer = d /\ loops'[s][k].attempt = attempt[d]
  BY <1>1 DEF Served
<1>3. loops'[s][k].gen = gen'[s] /\ gen'[s] # 0
  BY <1>0, NumbersNext DEF Numbers
<1>4. Goes(s, k)
  BY <1>0, <1>2, <1>3, LoopGoes
<1>5. /\ lastAck[s] \in Mark /\ lastAck'[s] \in Mark /\ gen[s] \in Nat
      /\ loops'[s][k].off \in Nat
  BY <1>0, <1>2 DEF Ground, Rest, Marks, Inv, Types, Serves, Loops, Loop
<1>6. k \in DOMAIN loops[s] /\ loops[s][k].peer = d /\ loops[s][k].attempt = attempt[d] =>
        /\ k \in Served(loops[s], d, {attempt[d]})
        /\ loops[s][k].gen = gen[s]
        /\ lastAck[s] # None
        /\ loops[s][k].at = "read" => loops[s][k].off - lastAck[s] < Window
  BY NumbersNow DEF Served, Numbers, Allowed
<1>7. CASE Slowed(s, k)
  <2>1. lastAck'[s] # None /\ lastAck[s] # None /\ lastAck'[s] >= lastAck[s]
    BY <1>2, <1>5, <1>6, <1>7 DEF Slowed, Mark, None
  <2>2. ASSUME loops'[s][k].at = "read" PROVE loops'[s][k].off - lastAck'[s] < Window
    <3>1. CASE loops[s][k].at = "read" /\ loops'[s][k].off = loops[s][k].off
      <4>1. loops'[s][k].off - lastAck[s] < Window
        BY <1>2, <1>6, <1>7, <3>1 DEF Slowed
      <4> QED BY <1>5, <2>1, <4>1, TransferAssumption DEF Mark, None
    <3>2. CASE ~Full(loops'[s][k].off, lastAck'[s])
      BY <1>5, <2>1, <3>2, TransferAssumption DEF Full, Mark, None
    <3> QED BY <1>7, <2>2, <3>1, <3>2 DEF Slowed
  <2> QED BY <2>1, <2>2
<1>8. CASE loops'[s][k].at = "open" /\ lastAck'[s] # None
  BY <1>8
<1>9. CASE k \in DOMAIN loops[s] /\ loops[s][k].gen = gen[s] + 1 /\ loops'[s][k].attempt = loops[s][k].attempt
           /\ loops'[s][k].peer = loops[s][k].peer
  BY <1>2, <1>5, <1>6, <1>9
<1> QED BY <1>4, <1>7, <1>8, <1>9 DEF Goes

\* a frame that a loop for v sends
SentBy(u, v, f) == \E k \in DOMAIN loops[u] :
  /\ loops[u][k].peer = v /\ loops[u][k].attempt = f.attempt
  /\ loops[u][k].off = f.offset /\ loops[u][k].at \in {"open", "read"}

LEMMA SourceFrames ==
  ASSUME Ground, NEW x \in Device, SourceStep(x),
         NEW u \in Device, NEW v \in Device, NEW m \in Link, NEW i \in DOMAIN wire'[u][v][m]
  PROVE  Old(u, v, m, wire'[u][v][m][i]) \/ SentBy(u, v, wire'[u][v][m][i])
<1>0. Inv /\ Rest /\ Marks /\ Bonds /\ wire \in Wires
  BY DEF Ground, Rest, Inv, Types
<1>1. PICK k \in DOMAIN loops[x] : Open(x, k) \/ SendChunk(x, k) \/ GiveUp(x, k)
  BY DEF SourceStep
<1>2. loops[x][k].peer \in Device
  BY <1>0 DEF Inv, Serves, Loops, Loop
<1>3. CASE wire' = wire
  BY <1>3 DEF Old
<1>4. ASSUME NEW f, Sends(x, k, f), loops[x][k].at \in {"open", "read"}
      PROVE  Old(u, v, m, wire'[u][v][m][i]) \/ SentBy(u, v, wire'[u][v][m][i])
  <2>1. /\ wire' = Put(x, loops[x][k].peer, f, wire)
        /\ f.attempt = loops[x][k].attempt /\ f.offset = loops[x][k].off
    BY <1>4 DEF Sends, Sent
  <2>2. \/ i \in DOMAIN wire[u][v][m] /\ wire'[u][v][m][i] = wire[u][v][m][i]
        \/ u = x /\ v = loops[x][k].peer /\ m \in links[u][v] /\ wire'[u][v][m][i] = f
    BY <1>0, <1>2, <2>1, PutBrings
  <2> QED BY Zenon, <1>4, <2>1, <2>2 DEF Old, SentBy
<1>5. CASE Open(x, k)
  <2>1. loops[x][k].at = "open" /\ (wire' = wire \/ \E f : Sends(x, k, f))
    BY <1>0, <1>5, OpenIs
  <2> QED BY <1>3, <1>4, <2>1
<1>6. CASE SendChunk(x, k)
  <2>1. loops[x][k].at = "read" /\ \E f : Sends(x, k, f)
    BY <1>0, <1>6, SendChunkIs
  <2> QED BY <1>4, <2>1
<1>7. CASE GiveUp(x, k)
  BY <1>3, <1>7 DEF GiveUp
<1> QED BY <1>1, <1>5, <1>6, <1>7

LEMMA FramesCome ==
  ASSUME Ground, [Next]_vars, faults' = faults,
         NEW u \in Device, NEW v \in Device, NEW m \in Link, NEW i \in DOMAIN wire'[u][v][m],
         wire'[u][v][m][i] \in Frames
  PROVE  Old(u, v, m, wire'[u][v][m][i]) \/ SentBy(u, v, wire'[u][v][m][i])
<1>0. Inv /\ Rest /\ Secure /\ Bonds /\ wire \in Wires /\ faults' # faults + 1
  BY DEF Ground, Rest, Inv, Types, Base, Secure, Unhurt
<1> DEFINE g == wire'[u][v][m][i]
           Goal == Old(u, v, m, g) \/ SentBy(u, v, g)
<1>1. g \notin Fetches /\ g \notin Acks
  BY Apart
<1>2. ASSUME NEW f \in Fetches \cup Acks, NEW x \in Device, NEW y \in Device, NEW w \in Wires,
             wire' = Put(x, y, f, w), \A j \in DOMAIN w[u][v][m] : Old(u, v, m, w[u][v][m][j])
      PROVE  Old(u, v, m, g)
  <2>1. \/ i \in DOMAIN w[u][v][m] /\ wire'[u][v][m][i] = w[u][v][m][i]
        \/ u = x /\ v = y /\ m \in links[x][y] /\ wire'[u][v][m][i] = f
    BY <1>0, <1>2, PutBrings
  <2> QED BY <1>1, <1>2, <2>1
<1> HIDE DEF g
<1>3. UNCHANGED wire => Goal
  BY DEF Old, g
<1>4. ASSUME NEW x \in Device, SourceStep(x) PROVE Goal
  BY <1>4, SourceFrames DEF g
<1>5. ASSUME NEW x \in Device, Pull(x) PROVE Goal
  <2>1. ASSUME AskOver(x, Head(todo[x])), Ask(x) \/ FallBack(x) PROVE Goal
    <3> DEFINE y == Head(todo[x])
               f == FetchEnv(Len(part[x]), attempt[x] + 1)
    <3>1. y \in Device
      BY <1>0, <2>1 DEF Ask, FallBack, Secure, Known
    <3>2. wire' = Put(x, y, f, wire)
      BY <2>1 DEF AskOver
    <3>3. f \in Fetches
      <4>1. Len(part[x]) \in 0 .. Chunks /\ attempt[x] \in Nat
        BY <1>0, PrefixLength DEF Inv, Types
      <4> QED BY <4>1 DEF FetchEnv, Fetches
    <3>4. \A j \in DOMAIN wire[u][v][m] : Old(u, v, m, wire[u][v][m][j])
      BY DEF Old
    <3> HIDE DEF y, f
    <3> QED BY <1>0, <1>2, <3>1, <3>2, <3>3, <3>4
  <2> QED BY <1>0, <1>3, <1>5, <2>1, PullIs
<1>6. ASSUME NEW x \in Device, NEW e \in Device, Deliver(x, e) PROVE Goal
  <2>1. PICK n \in Link : FetchStep(x, e, n) \/ AckStep(x, e, n) \/ DataStep(x, e, n)
    BY <1>0, <1>6, DeliverCases
  <2> DEFINE w == Taken(x, e, n)
  <2>2. wire[e][x][n] # <<>> /\ w \in Wires
    BY <1>0, <2>1, TakenOff DEF FetchStep, AckStep, DataStep, Taken
  <2>3. \A j \in DOMAIN w[u][v][m] : Old(u, v, m, w[u][v][m][j])
    BY <1>0, <2>2, TakeBrings
  <2>4. FetchStep(x, e, n) \/ AckStep(x, e, n) => wire' = w
    BY DEF FetchStep, AckStep
  <2>5. DataStep(x, e, n) =>
          \/ wire' = w
          \/ /\ wire' = Put(x, Head(todo[x]), AckEnv(Len(part[x]) + Len(Head(wire[e][x][n]).data)), w)
             /\ stage[x] = "envelope" /\ Fits(x, Head(wire[e][x][n])) /\ Head(wire[e][x][n]) \in Frames
    BY Zenon DEF DataStep, TakeData
  <2> HIDE DEF w
  <2>6. CASE wire' = w
    BY <2>3, <2>6 DEF g
  <2>7. CASE /\ wire' = Put(x, Head(todo[x]), AckEnv(Len(part[x]) + Len(Head(wire[e][x][n]).data)), w)
             /\ stage[x] = "envelope" /\ Fits(x, Head(wire[e][x][n])) /\ Head(wire[e][x][n]) \in Frames
    <3> DEFINE f == AckEnv(Len(part[x]) + Len(Head(wire[e][x][n]).data))
               y == Head(todo[x])
    <3>1. f \in Acks
      <4> DEFINE env == Head(wire[e][x][n])
      <4>1. env \in Frames /\ Fits(x, env) /\ Inv
        BY <1>0, <2>7 DEF Ground
      <4> HIDE DEF env
      <4>2. AckEnv(Len(part[x]) + Len(env.data)) \in Acks
        BY <4>1, AckMade
      <4> QED BY <4>2 DEF env
    <3>2. y \in Device /\ wire' = Put(x, y, f, w)
      BY <1>0, <2>7 DEF Secure, Known
    <3> HIDE DEF f, y
    <3> QED BY <1>2, <2>2, <2>3, <3>1, <3>2
  <2> QED BY <2>1, <2>4, <2>5, <2>6, <2>7
<1>7. ASSUME NEW x \in Device, Receive(x) \/ Cancel(x) PROVE UNCHANGED wire
  BY <1>7 DEF Receive, Cancel
<1>8. ASSUME NEW x \in Device, NEW e \in Device, Connect(x, e) \/ NoteAddress(x, e) PROVE UNCHANGED wire
  BY <1>8 DEF Connect, NoteAddress
<1>9. ~ChangeFile /\ \A x \in Device : ~Restart(x) /\ \A e \in Device : ~Break(x, e)
  BY <1>0 DEF ChangeFile, Restart, Break, Fault
<1>10. UNCHANGED vars => UNCHANGED wire
  BY DEF vars
<1> HIDE DEF Goal
<1>11. Goal
  BY <1>3, <1>4, <1>5, <1>6, <1>7, <1>8, <1>9, <1>10 DEF Next
<1> QED BY <1>11 DEF Goal, g

\* What is under way of attempt a on X was so on W, or is of place o.
Gains(X, W, a, o) == \A n \in Link : \A i \in DOMAIN X[n] : X[n][i] \in Sent({a}) =>
  (\E j \in DOMAIN W[n] : W[n][j] = X[n][i]) \/ X[n][i].offset = o

\* What is under way of attempt a is of a window, if the loop that sends it reads within one.
LEMMA LoopWithin ==
  ASSUME NEW a \in Nat, NEW L, NEW Q, NEW W \in Lines, NEW X \in Lines, NEW d, NEW p \in Nat, NEW c,
         Flow(L, Q, W, d, a, p), NEW k \in Served(L, d, {a}), L[k].off \in Nat,
         L[k].at \in {"open", "read"},
         L[k].at = "read" => c \in Nat /\ c <= p /\ L[k].off - c < Window,
         Gains(X, W, a, L[k].off)
  PROVE  Within(X, a)
<1>0. Window \in Nat \ {0} /\ \A f \in Sent({a}) : f.offset \in Nat
  BY TransferAssumption DEF Sent, Frames
<1>1. Serving(L[k], W, a, p) /\ L[k].off >= p
  BY DEF Flow, Serving
<1>2. \A n \in Link : \A j \in DOMAIN W[n] : W[n][j] \in Sent({a}) =>
        W[n][j].offset >= p /\ W[n][j].offset < L[k].off
  BY <1>1 DEF Flow, Streamed, Proper, Serving
<1>3. CASE L[k].at = "read"
  <2>1. \A n \in Link : \A i \in DOMAIN X[n] : X[n][i] \in Sent({a}) =>
          X[n][i].offset \in c .. c + Window - 1
    <3> SUFFICES ASSUME NEW n \in Link, NEW i \in DOMAIN X[n], X[n][i] \in Sent({a})
                 PROVE  X[n][i].offset \in c .. c + Window - 1
      OBVIOUS
    <3> DEFINE o == X[n][i].offset
    <3>1. o \in Nat /\ p <= o /\ o <= L[k].off
      <4>1. CASE \E j \in DOMAIN W[n] : W[n][j] = X[n][i]
        <5>1. PICK j \in DOMAIN W[n] : W[n][j] = X[n][i]
          BY <4>1
        <5>2. p <= o /\ o < L[k].off /\ o \in Nat
          BY <1>0, <1>2, <5>1
        <5> QED BY <5>2
      <4>2. CASE o = L[k].off
        BY <1>1, <4>2
      <4> QED BY <4>1, <4>2 DEF Gains
    <3>2. c \in Nat /\ c <= p /\ L[k].off - c < Window
      BY <1>3
    <3> HIDE DEF o
    <3>3. o \in c .. c + Window - 1
      BY <1>0, <3>1, <3>2
    <3> QED BY <3>3 DEF o
  <2> QED BY <1>3, <2>1 DEF Within
<1>4. CASE L[k].at = "open"
  <2>1. Free(W, Sent({a}))
    BY <1>1, <1>4 DEF Serving
  <2>2. \A n \in Link : \A i \in DOMAIN X[n] : X[n][i] \in Sent({a}) => X[n][i].offset = L[k].off
    BY <2>1 DEF Free, Gains
  <2>3. L[k].off \in L[k].off .. L[k].off + Window - 1
    BY <1>0
  <2> QED BY <2>2, <2>3 DEF Within
<1> QED BY <1>3, <1>4

LEMMA WithinStays ==
  ASSUME Ground, [Next]_vars, faults' = 0, NEW d \in Device, Pulling(d), NEW s \in Device \ {d}, Near(d, s)
  PROVE  Within(wire'[s][d], attempt'[d])
<1> DEFINE a == attempt[d]
           W == wire[s][d]
           X == wire'[s][d]
<1>0. faults' = faults /\ a \in Nat /\ W \in Lines /\ X \in Lines /\ Len(part[d]) \in Nat
  BY NothingWrong, PairTypes
<1>1. CASE attempt'[d] # a
  BY <1>1, OntoIs DEF Within, Free
<1>2. CASE attempt'[d] = a
  <2>1. \A n \in Link : \A i \in DOMAIN X[n] : X[n][i] \in Sent({a}) =>
          Old(s, d, n, X[n][i]) \/ SentBy(s, d, X[n][i])
    BY <1>0, FramesCome DEF Sent
  <2>2. CASE \E n \in Link : \E i \in DOMAIN X[n] : X[n][i] \in Sent({a}) /\ SentBy(s, d, X[n][i])
    <3>1. PICK n \in Link : \E i \in DOMAIN X[n] : X[n][i] \in Sent({a}) /\ SentBy(s, d, X[n][i])
      BY <2>2
    <3>2. PICK i \in DOMAIN X[n] : X[n][i] \in Sent({a}) /\ SentBy(s, d, X[n][i])
      BY <3>1
    <3>3. PICK k \in DOMAIN loops[s] : /\ loops[s][k].peer = d /\ loops[s][k].attempt = a
                                       /\ loops[s][k].at \in {"open", "read"}
      BY <3>2 DEF SentBy, Sent
    <3>4. k \in Served(loops[s], d, {a})
      BY <3>3 DEF Served
    <3>5. Flow(loops[s], wire[d][s], W, d, a, Len(part[d]))
      BY PullingFlow DEF FlowAt
    <3>6. \A j \in Served(loops[s], d, {a}) : j = k
      BY <3>4, <3>5 DEF Flow, Lone
    <3>7. \A f \in Sent({a}) : SentBy(s, d, f) => f.offset = loops[s][k].off
      BY <3>6 DEF SentBy, Sent, Served
    <3>8. loops[s][k].off \in Nat
      BY DEF Ground, Inv, Serves, Loops, Loop
    <3>9. loops[s][k].at = "read" =>
            lastAck[s] \in Nat /\ lastAck[s] <= Len(part[d]) /\ loops[s][k].off - lastAck[s] < Window
      BY <3>4, TransferAssumption DEF Near, Allowed, Answered, Ground, Rest, Marks, Mark
    <3>10. Gains(X, W, a, loops[s][k].off)
      BY <2>1, <3>7 DEF Old, Gains
    <3> DEFINE L == loops[s]
               Q == wire[d][s]
               p == Len(part[d])
               c == lastAck[s]
    <3>11. /\ a \in Nat /\ W \in Lines /\ X \in Lines /\ p \in Nat
           /\ Flow(L, Q, W, d, a, p) /\ k \in Served(L, d, {a}) /\ L[k].off \in Nat
           /\ L[k].at \in {"open", "read"}
           /\ L[k].at = "read" => c \in Nat /\ c <= p /\ L[k].off - c < Window
      BY <1>0, <3>3, <3>4, <3>5, <3>8, <3>9
    <3>12. Gains(X, W, a, L[k].off)
      BY <3>10
    <3> HIDE DEF a, W, X, L, Q, p, c
    <3>13. Within(X, a)
      BY <3>11, <3>12, LoopWithin
    <3> QED BY <1>2, <3>13 DEF X
  <2>3. CASE ~\E n \in Link : \E i \in DOMAIN X[n] : X[n][i] \in Sent({a}) /\ SentBy(s, d, X[n][i])
    <3>1. PICK m \in Nat : \A n \in Link : \A i \in DOMAIN W[n] :
            W[n][i] \in Sent({a}) => W[n][i].offset \in m .. m + Window - 1
      BY DEF Near, Within
    <3>2. \A n \in Link : \A i \in DOMAIN X[n] : X[n][i] \in Sent({a}) => \E j \in DOMAIN W[n] : W[n][j] = X[n][i]
      BY <2>1, <2>3 DEF Old
    <3> HIDE DEF a, W, X
    <3>3. \A n \in Link : \A i \in DOMAIN X[n] : X[n][i] \in Sent({a}) => X[n][i].offset \in m .. m + Window - 1
      BY <3>1, <3>2
    <3>4. Within(X, a)
      BY <3>3 DEF Within
    <3> QED BY <1>2, <3>4 DEF X
  <2> QED BY <2>2, <2>3
<1> QED BY <1>1, <1>2

LEMMA StepPaced ==
  ASSUME Ground, [Next]_vars, Course, Course', Paced
  PROVE  Paced'
<1> SUFFICES ASSUME NEW d \in Device, Alone(d), faults' = 0, opened' <= 1, ~Over(d)', NEW s \in Device \ {d}
             PROVE  Near(d, s)'
  BY DEF Paced, Alone
<1>1. /\ faults = 0 /\ opened <= 1 /\ Ground' /\ opened \in Nat /\ opened' \in Nat
      /\ faults + opened <= 1 /\ faults' + opened' <= 1
  BY NothingWrong, StepGround, StepCounts
<1>2. Mode(d)
  BY <1>1 DEF Course, Mode
<1>3. Mode(d)'
  BY <1>1 DEF Course, Mode, Alone
<1>4. ~Over(d)
  BY OverStays
<1>5. Pulling(d) /\ Near(d, s)
  BY <1>1, <1>2, <1>4, PullingIs DEF Paced
<1>6. Pulling(d)'
  BY <1>3 DEF Mode, Spared, Pulling, Fresh, Twice, Alike
<1> QED BY <1>5, <1>6, AnsweredStays, AllowedStays, WithinStays DEF Near

LEMMA InitPaced == ASSUME Init PROVE Paced
<1> SUFFICES ASSUME NEW d \in Device, ~Over(d), NEW s \in Device \ {d} PROVE Near(d, s)
  BY DEF Paced
<1>1. /\ DOMAIN <<>> = {} /\ Len(<<>>) = 0
      /\ loops[s] = <<>> /\ part[d] = <<>> /\ lastAck[s] = -1
      /\ \A x, y \in Device : \A n \in Link : wire[x][y][n] = <<>>
  BY DEF Init, None
<1>2. Answered(d, s)
  BY <1>1 DEF Answered
<1>3. Allowed(d, s)
  BY <1>1 DEF Allowed, Served
<1>4. Within(wire[s][d], attempt[d])
  BY <1>1 DEF Within
<1> QED BY <1>2, <1>3, <1>4 DEF Near

\* and is paced as long as nothing goes wrong
LEMMA PacedKept == Spec => [](Ground /\ Course /\ Paced)
<1>1. Init => Ground /\ Course /\ Paced
  BY InitGround, InitMode, InitPaced DEF Course
<1>2. Ground /\ Course /\ Paced /\ [Next]_vars => Ground' /\ Course' /\ Paced'
  BY StepGround, StepCourse, StepPaced
<1> QED BY <1>1, <1>2, PTL DEF Spec

-----------------------------------------------------------------------------
(* As many frames as a window has places. *)

\* the places on the wire W of the frames of attempt a
Frame(W, a) == {p \in Link \X (1 .. Chunks + 1) :
  p[2] \in DOMAIN W[p[1]] /\ W[p[1]][p[2]] \in Sent({a})}

\* In a window of places there is room for that many frames of different places.
LEMMA FewFrames ==
  ASSUME NEW W \in Lines, NEW a \in Nat, NEW p \in Nat, Streamed(W, a, p), Within(W, a)
  PROVE  Cardinality(Frame(W, a)) <= Window
<1> DEFINE S == Frame(W, a)
           Place(q) == W[q[1]][q[2]].offset
           f == [q \in S |-> Place(q)]
<1>0. Window \in Nat \ {0} /\ Link \subseteq Nat
  BY TransferAssumption DEF Link
<1>1. PICK m \in Nat : \A n \in Link : \A i \in DOMAIN W[n] :
        W[n][i] \in Sent({a}) => W[n][i].offset \in m .. m + Window - 1
  BY DEF Within
<1>2. \A q \in S : Place(q) \in m .. m + Window - 1
  BY <1>1 DEF Frame
<1>3. ASSUME NEW q \in S, NEW r \in S, Place(q) = Place(r) PROVE q = r
  <2>1. /\ q = <<q[1], q[2]>> /\ r = <<r[1], r[2]>>
        /\ q[1] \in Link /\ r[1] \in Link /\ q[2] \in 1 .. Chunks + 1 /\ r[2] \in 1 .. Chunks + 1
        /\ q[2] \in DOMAIN W[q[1]] /\ W[q[1]][q[2]] \in Sent({a})
        /\ r[2] \in DOMAIN W[r[1]] /\ W[r[1]][r[2]] \in Sent({a})
    BY DEF Frame
  <2>2. \A e \in Sent({a}) : e.offset \in Nat
    BY DEF Sent, Frames
  <2> HIDE DEF Place, S
  <2>0. W[q[1]][q[2]].offset \in Nat /\ W[q[1]][q[2]].offset = W[r[1]][r[2]].offset
    BY <1>3, <2>1, <2>2 DEF Place
  <2>3. ~(q[1] < r[1] \/ (q[1] = r[1] /\ q[2] < r[2]))
    <3>1. q[1] < r[1] \/ (q[1] = r[1] /\ q[2] < r[2]) => W[q[1]][q[2]].offset < W[r[1]][r[2]].offset
      BY <2>1 DEF Streamed
    <3> QED BY <2>0, <3>1
  <2>4. ~(r[1] < q[1] \/ (r[1] = q[1] /\ r[2] < q[2]))
    <3>1. r[1] < q[1] \/ (r[1] = q[1] /\ r[2] < q[2]) => W[r[1]][r[2]].offset < W[q[1]][q[2]].offset
      BY <2>1 DEF Streamed
    <3> QED BY <2>0, <3>1
  <2>5. q[1] = r[1] /\ q[2] = r[2]
    BY <1>0, <2>1, <2>3, <2>4
  <2> QED BY <2>1, <2>5
<1> HIDE DEF S, Place
<1>4. f \in Injection(S, m .. m + Window - 1)
  BY <1>2, <1>3 DEF Injection, IsInjective
<1>5. IsFiniteSet(m .. m + Window - 1) /\ Cardinality(m .. m + Window - 1) = Window
  <2>1. m \in Int /\ m + Window - 1 \in Int /\ ~(m > m + Window - 1) /\ (m + Window - 1) - m + 1 = Window
    BY <1>0
  <2> QED BY <2>1, FS_Interval
<1>6. Cardinality(S) <= Cardinality(m .. m + Window - 1)
  BY <1>4, <1>5, FS_Injection
<1> QED BY <1>5, <1>6 DEF S

LEMMA CountedFrames ==
  ASSUME Ground, NEW s \in Device, NEW d \in Device, Cardinality(Frame(wire[s][d], attempt[d])) <= Window
  PROVE  WindowKept(s, d)
<1>1. \A e \in Envelope : e.type = "data" => e \in Frames
  BY DEF Envelope, Fetches, Acks
<1>2. \A e \in Frames : e.type = "data"
  BY DEF Frames
<1>3. \A n \in Link : \A i \in DOMAIN wire[s][d][n] : wire[s][d][n][i] \in Envelope
  BY DEF Ground, Inv, Types, Wires
<1>4. Frame(wire[s][d], attempt[d]) =
        {p \in Link \X (1 .. Chunks + 1) : /\ p[2] \in DOMAIN wire[s][d][p[1]]
                                           /\ wire[s][d][p[1]][p[2]].type = "data"
                                           /\ wire[s][d][p[1]][p[2]].attempt = attempt[d]}
  BY <1>1, <1>2, <1>3 DEF Frame, Sent
<1> QED BY Zenon, <1>4 DEF WindowKept

LEMMA WindowHolds ==
  ASSUME Ground, Course, Paced, NEW d \in Device, Alone(d), faults = 0, opened <= 1, NEW s \in Device
  PROVE  WindowKept(s, d)
<1>0. attempt[d] \in Nat /\ Len(part[d]) \in Nat /\ wire[s][d] \in Lines /\ Window \in Nat
  BY WireLines, TransferAssumption DEF Ground, Inv, Types, Prefix
<1>1. CASE Free(wire[s][d], Sent({attempt[d]}))
  <2>1. Frame(wire[s][d], attempt[d]) = {}
    BY <1>1 DEF Free, Frame
  <2>2. Cardinality(Frame(wire[s][d], attempt[d])) <= Window
    BY <1>0, <2>1, FS_EmptySet
  <2> QED BY <2>2, CountedFrames
<1>2. s = d => Free(wire[s][d], Sent({attempt[d]}))
  BY DEF Ground, Base, Tied, Free
<1>3. CASE Over(d)
  <2>1. attempt[d] = 0
    BY <1>3 DEF Over
  <2>2. Free(wire[s][d], Sent({attempt[d]}))
    BY <2>1 DEF Ground, Base, Positive, Free, Sent
  <2> QED BY <1>1, <2>2
<1>4. CASE ~Over(d) /\ s # d
  <2>1. Pulling(d) /\ Near(d, s)
    BY <1>4, PullingIs DEF Course, Mode, Paced, Ground, Rest, Bonds
  <2>2. Streamed(wire[s][d], attempt[d], Len(part[d]))
    BY <1>4, <2>1, PullingFlow DEF FlowAt, Flow
  <2>3. Within(wire[s][d], attempt[d])
    BY <2>1 DEF Near
  <2>4. Cardinality(Frame(wire[s][d], attempt[d])) <= Window
    <3> DEFINE W == wire[s][d]
               a == attempt[d]
               p == Len(part[d])
    <3>1. W \in Lines /\ a \in Nat /\ p \in Nat /\ Streamed(W, a, p) /\ Within(W, a)
      BY <1>0, <2>2, <2>3
    <3> HIDE DEF W, a, p
    <3>2. Cardinality(Frame(W, a)) <= Window
      BY <3>1, FewFrames
    <3> QED BY <3>2 DEF W, a
  <2> QED BY <2>4, CountedFrames
<1> QED BY <1>1, <1>2, <1>3, <1>4

\* As long as nothing goes wrong, and at most one more link is opened, no more than a window is
\* under way to the only receiver; and one loop at most goes on for it, also after one fault.
\* (_serveEnvelopeFetch)
THEOREM OneStreamKept == Spec => []OneStream
<1>1. Ground /\ Course /\ Paced => OneStream
  <2> SUFFICES ASSUME Ground, Course, Paced, NEW s \in Device, NEW d \in Device, Alone(d)
               PROVE  /\ faults = 0 /\ opened <= 1 => WindowKept(s, d)
                      /\ faults + opened <= 1 => OneLoop(s, d)
    BY DEF OneStream
  <2>1. faults = 0 /\ opened <= 1 => WindowKept(s, d)
    BY WindowHolds
  <2>2. faults + opened <= 1 => OneLoop(s, d)
    BY OneGoesOn DEF Course, Mode
  <2> QED BY <2>1, <2>2
<1> QED BY <1>1, PacedKept, PTL

-----------------------------------------------------------------------------
(* The place of the next frame. *)

\* What comes next of what d asked for last is what it waits for, as long as no second link
\* is opened and at most one thing goes wrong.  (frame.offset == received)
NoGap ==
  \A d, u \in Device : Alone(d) /\ opened = 0 /\ faults <= 1 /\ stage[d] = "envelope" =>
    \A n \in Link :
      wire[u][d][n] # <<>> /\ Head(wire[u][d][n]) \in Sent({attempt[d]}) => Fits(d, Head(wire[u][d][n]))

LEMMA NextIsInPlace ==
  ASSUME Ground, NEW d \in Device, Mode(d), opened = 0, stage[d] = "envelope", NEW u \in Device,
         NEW n \in Link, wire[u][d][n] # <<>>, Head(wire[u][d][n]) \in Sent({attempt[d]})
  PROVE  Fits(d, Head(wire[u][d][n]))
<1>1. u # d /\ n \in links[d][u] /\ Head(wire[u][d][n]) \in Frames
  BY DEF Ground, Base, Tied, Sent
<1>2. CASE Clean(d)
  BY <1>1, <1>2, CleanInPlace
<1>3. CASE Over(d)
  BY <1>1, <1>3, OverNoFrame
<1>4. CASE Twice(d)
  BY <1>1, <1>4, TwiceInPlace
<1> QED BY <1>2, <1>3, <1>4 DEF Mode, Fresh, Spared

\* Whatever one fault does to it, the only receiver is never sent a frame out of place: a request
\* goes on where the .part file ends, and nothing that an older request or loop still sends
\* is taken for an answer to it.
THEOREM NothingOutOfPlace == Spec => []NoGap
<1>1. Ground /\ Course => NoGap
  <2> SUFFICES ASSUME Ground, Course, NEW d \in Device, NEW u \in Device, Alone(d), opened = 0,
                      faults <= 1, stage[d] = "envelope", NEW n \in Link, wire[u][d][n] # <<>>,
                      Head(wire[u][d][n]) \in Sent({attempt[d]})
               PROVE  Fits(d, Head(wire[u][d][n]))
    BY DEF NoGap
  <2>1. faults + opened <= 1
    BY DEF Ground, Base, Secure, Unhurt
  <2>2. Mode(d)
    BY <2>1 DEF Course, Mode
  <2> QED BY <2>2, NextIsInPlace
<1> QED BY <1>1, CourseKept, PTL
=============================================================================
