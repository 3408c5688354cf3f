-------------------------- MODULE FriendGraphProofs --------------------------
(***************************************************************************)
(* Proofs about FriendGraph: when no two friend requests about the same   *)
(* pair of users overlap, add_friend and remove_friend keep the           *)
(* affinities of every pair mirrored while no handler runs on it, however *)
(* the requests about different pairs interleave and whatever reads or    *)
(* updates fail, except for a pair whose second update failed.            *)
(***************************************************************************)
EXTENDS FriendGraph, TLAPS

(* The pair {u, v} is the one a handler has updated on one side only.    *)
InW2(u, v) ==
    \E a \in Users : pc[a] = "w2" /\ \/ a = u /\ target[a] = v
                                     \/ a = v /\ target[a] = u

(* What a handler of a about b that decided on p found when it loaded   *)
(* the pair; before its first update the pair is still so, since no      *)
(* handler about another pair writes these entries.                      *)
Decided(a, b, p) ==
    /\ p = "request" => aff[a][b] = <<>> /\ aff[b][a] = <<>>
    /\ p = "accept" => aff[a][b] = <<"Pending">> /\ aff[b][a] = <<"Requested">>
    /\ p = "drop" => aff[a][b] # <<>>

W1Shape(a) == Decided(a, target[a], plan[a])

(* The pair of a handler between its two updates: the caller's side is   *)
(* written, the friend's side is as it was.                              *)
W2Shape(a) ==
    LET b == target[a] IN
    /\ plan[a] = "request" => aff[a][b] = <<"Requested">> /\ aff[b][a] = <<>>
    /\ plan[a] = "accept" => aff[a][b] = <<"Friend">> /\ aff[b][a] = <<"Requested">>
    /\ plan[a] = "drop" =>
          aff[a][b] = <<>> /\ aff[b][a] \in {<<"Requested">>, <<"Pending">>, <<"Friend">>}

(* A running handler has decided to write.                               *)
Active == \A a \in Users : pc[a] # "idle" => plan[a] # "none"

(* Two running handlers are never about the same pair: the handler of v  *)
(* about u did not start while u's handler about v ran, nor the reverse. *)
PairExclusive ==
    \A a, b \in Users :
        a # b /\ pc[a] # "idle" /\ pc[b] # "idle" => ~(target[a] = b /\ target[b] = a)

(* A failed second update exempts the pair in both orders.                *)
TornSym == \A u, v \in Users : <<u, v>> \in torn => <<v, u>> \in torn

(* Every pair is mirrored except a torn one and one half updated.         *)
PairsMirrored ==
    \A u, v \in Users :
        u # v /\ <<u, v>> \notin torn /\ ~InW2(u, v) => Mirrored(u, v)

(* Each running handler's pair has the shape its position implies.        *)
ShapesOk ==
    /\ \A a \in Users :
          pc[a] = "w1" /\ target[a] # a /\ <<a, target[a]>> \notin torn => W1Shape(a)
    /\ \A a \in Users :
          pc[a] = "w2" /\ target[a] # a /\ <<a, target[a]>> \notin torn => W2Shape(a)

(* The inductive strengthening of QuiescentMirrored under PairSerial.     *)
IInv == TypeOK /\ Active /\ PairExclusive /\ TornSym /\ PairsMirrored /\ ShapesOk

-----------------------------------------------------------------------------
(* Lemmas on the affinities of one pair.                                  *)

(* An affinity list of at most one entry is empty exactly when find      *)
(* returns nothing, and otherwise is that one entry.                      *)
LEMMA SingleEntry ==
    ASSUME NEW s \in Seq(Rels), Len(s) <= 1
    PROVE  /\ Find(s) = "none" <=> s = <<>>
           /\ s # <<>> => s = <<Find(s)>> /\ Find(s) \in Rels
  <1>0. Len(s) = 0 \/ Len(s) = 1
    <2>1. Len(s) \in Nat
      OBVIOUS
    <2>2. \A n \in Nat : n <= 1 => n = 0 \/ n = 1
      OBVIOUS
    <2>3. QED
      BY <2>1, <2>2
  <1>1. CASE Len(s) = 0
    BY <1>1 DEF Find
  <1>2. CASE Len(s) = 1
    <2>1. s # <<>> /\ Head(s) \in Rels /\ s = <<s[1]>>
      BY <1>2
    <2>2. "none" \notin Rels
      BY DEF Rels
    <2>3. QED
      BY <2>1, <2>2 DEF Find
  <1>3. QED
    BY <1>0, <1>1, <1>2

-----------------------------------------------------------------------------
(* The invariant holds initially.                                          *)

LEMMA InitIInv == Init => IInv
  <1> SUFFICES ASSUME Init PROVE IInv
    OBVIOUS
  <1>1. TypeOK
    <2>1. \A u \in Users : (CHOOSE v \in Users : TRUE) \in Users
      OBVIOUS
    <2>2. aff \in [Users -> [Users -> Seq(Rels)]]
      BY DEF Init
    <2>3. target \in [Users -> Users]
      BY <2>1 DEF Init
    <2>4. reqs \in [Users -> 0..MaxReq]
      BY FriendAssumption DEF Init
    <2>5. QED
      BY <2>2, <2>3, <2>4 DEF Init, TypeOK, Pcs, Plans
  <1>2. PairsMirrored
    BY DEF Init, PairsMirrored, Mirrored, Find
  <1>4. QED
    BY <1>1, <1>2 DEF Init, IInv, Active, PairExclusive, TornSym, ShapesOk

-----------------------------------------------------------------------------
(* The updates.                                                           *)

(* What each update does to the entries of one side.                      *)
LEMMA UpdateFacts ==
    ASSUME NEW s \in Seq(Rels), NEW p \in {"request", "accept", "drop"},
           NEW mine \in Rels
    PROVE  /\ Update(s, p, mine) \in Seq(Rels)
           /\ p = "request" /\ s = <<>> => Update(s, p, mine) = <<mine>>
           /\ p = "accept" /\ Len(s) = 1 => Update(s, p, mine) = <<"Friend">>
           /\ p = "drop" => Update(s, p, mine) = <<>>
  <1>1. CASE p = "request"
    <2>1. Update(s, p, mine) = Append(s, mine)
      BY <1>1 DEF Update
    <2>2. Append(s, mine) \in Seq(Rels) /\ Append(<<>>, mine) = <<mine>>
      OBVIOUS
    <2>3. QED
      BY <1>1, <2>1, <2>2
  <1>2. CASE p = "accept"
    <2>1. Update(s, p, mine) = [i \in 1..Len(s) |-> "Friend"]
      BY <1>2 DEF Update
    <2>2. "Friend" \in Rels
      BY DEF Rels
    <2>3. QED
      BY <1>2, <2>1, <2>2
  <1>3. CASE p = "drop"
    <2>1. Update(s, p, mine) = <<>>
      BY <1>3 DEF Update
    <2>2. <<>> \in Seq(Rels)
      OBVIOUS
    <2>3. QED
      BY <1>3, <2>1, <2>2
  <1>4. QED
    BY <1>1, <1>2, <1>3

-----------------------------------------------------------------------------
(* Frames: what a step of one handler leaves alone.                       *)

(* A handler's shapes read only its own pair's two entries.                *)
LEMMA ShapeFrame ==
    ASSUME NEW a \in Users, target'[a] = target[a], plan'[a] = plan[a],
           aff'[a][target[a]] = aff[a][target[a]],
           aff'[target[a]][a] = aff[target[a]][a]
    PROVE  /\ W1Shape(a)' = W1Shape(a)
           /\ W2Shape(a)' = W2Shape(a)
  BY DEF W1Shape, W2Shape, Decided

(* The other running handlers' shapes survive a step of u that writes     *)
(* only the entries of u's own pair and adds at most that pair to torn.   *)
LEMMA OthersShapes ==
    ASSUME TypeOK, PairExclusive, ShapesOk, NEW u \in Users,
           pc[u] # "idle",
           \A a \in Users : a # u => pc'[a] = pc[a],
           target' = target, plan' = plan, torn \subseteq torn',
           \A w, x \in Users :
              ~(w = u /\ x = target[u]) /\ ~(w = target[u] /\ x = u)
                 => aff'[w][x] = aff[w][x]
    PROVE  /\ \A a \in Users : a # u /\ pc'[a] = "w1" /\ target'[a] # a
                  /\ <<a, target'[a]>> \notin torn' => W1Shape(a)'
           /\ \A a \in Users : a # u /\ pc'[a] = "w2" /\ target'[a] # a
                  /\ <<a, target'[a]>> \notin torn' => W2Shape(a)'
  <1> SUFFICES ASSUME NEW a \in Users, a # u, pc'[a] \in {"w1", "w2"}, target[a] # a,
                      <<a, target[a]>> \notin torn
               PROVE  /\ pc'[a] = "w1" => W1Shape(a)'
                      /\ pc'[a] = "w2" => W2Shape(a)'
    BY DEF TypeOK
  <1> DEFINE b == target[a]
  <1>1. b \in Users /\ pc[a] = pc'[a] /\ pc[a] # "idle"
    BY DEF TypeOK
  <1>2. ~(a = u /\ b = target[u]) /\ ~(a = target[u] /\ b = u)
    BY <1>1 DEF PairExclusive
  <1>3. ~(b = u /\ a = target[u]) /\ ~(b = target[u] /\ a = u)
    BY <1>1 DEF PairExclusive
  <1>4. aff'[a][b] = aff[a][b] /\ aff'[b][a] = aff[b][a]
    BY <1>1, <1>2, <1>3
  <1>5. W1Shape(a)' = W1Shape(a) /\ W2Shape(a)' = W2Shape(a)
    BY <1>4, ShapeFrame
  <1>6. QED
    BY <1>1, <1>5 DEF ShapesOk

-----------------------------------------------------------------------------
(* The steps.                                                             *)

(* A handler's load and decision writes nothing; under PairSerial no       *)
(* handler runs on its pair, and a handler that goes on has decided on the *)
(* pair as it is.                                                          *)
LEMMA BeginStep ==
    ASSUME PairSerial, IInv, NEW u \in Users, NEW v \in Users, NEW p \in Plans,
           Begin(u, v, p),
           u # v /\ <<u, v>> \notin torn => Decided(u, v, p)
    PROVE  IInv'
  <1>0. /\ pc[u] = "idle" /\ ~PairBusy(u, v)
        /\ aff' = aff /\ torn' = torn
        /\ reqs' = [reqs EXCEPT ![u] = @ + 1] /\ reqs[u] < MaxReq
    BY DEF Begin
  <1>t. /\ pc \in [Users -> Pcs] /\ target \in [Users -> Users]
        /\ plan \in [Users -> Plans] /\ reqs \in [Users -> 0..MaxReq]
    BY DEF IInv, TypeOK
  <1>p. \/ /\ p # "none"
           /\ pc' = [pc EXCEPT ![u] = "w1"]
           /\ target' = [target EXCEPT ![u] = v]
           /\ plan' = [plan EXCEPT ![u] = p]
        \/ /\ p = "none"
           /\ pc' = pc /\ target' = target /\ plan' = plan
    BY DEF Begin
  <1>o. \A a \in Users : a # u =>
           pc'[a] = pc[a] /\ target'[a] = target[a] /\ plan'[a] = plan[a]
    BY <1>p, <1>t
  <1>1. \A x, y \in Users : InW2(x, y)' <=> InW2(x, y)
    <2>1. \A a \in Users : pc'[a] = "w2" <=> a # u /\ pc[a] = "w2"
      BY <1>0, <1>p, <1>t
    <2>2. QED
      BY <1>0, <2>1, <1>o DEF InW2
  <1>4. TypeOK'
    <2>1. reqs' \in [Users -> 0..MaxReq]
      BY <1>0, <1>t, FriendAssumption
    <2>2. pc' \in [Users -> Pcs] /\ target' \in [Users -> Users]
          /\ plan' \in [Users -> Plans]
      <3>1. CASE p # "none"
        BY <3>1, <1>p, <1>t DEF Pcs
      <3>2. CASE p = "none"
        BY <3>2, <1>p, <1>t
      <3>3. QED
        BY <3>1, <3>2
    <2>3. QED
      BY <1>0, <2>1, <2>2 DEF IInv, TypeOK
  <1>5. Active' /\ PairExclusive'
    <2>1. CASE p # "none"
      <3>1. \A a \in Users : a # u /\ pc[a] # "idle" => ~(v = a /\ target[a] = u)
        BY <1>0 DEF PairBusy
      <3>2. QED
        BY <2>1, <3>1, <1>0, <1>o, <1>p, <1>t DEF IInv, Active, PairExclusive
    <2>2. CASE p = "none"
      BY <2>2, <1>0, <1>p DEF IInv, Active, PairExclusive
    <2>3. QED
      BY <2>1, <2>2
  <1>6. TornSym'
    BY <1>0 DEF IInv, TornSym
  <1>7. PairsMirrored'
    BY <1>0, <1>1 DEF IInv, PairsMirrored, Mirrored
  <1>8. ShapesOk'
    <2>1. \A a \in Users : a # u => W1Shape(a)' = W1Shape(a) /\ W2Shape(a)' = W2Shape(a)
      BY <1>0, <1>o DEF W1Shape, W2Shape, Decided
    <2>2. pc'[u] # "w2" /\ (pc'[u] = "w1" => target'[u] = v /\ plan'[u] = p)
      BY <1>0, <1>p, <1>t
    <2>3. Decided(u, v, p)' = Decided(u, v, p)
      BY <1>0 DEF Decided
    <2>4. QED
      BY <1>0, <1>o, <2>1, <2>2, <2>3 DEF IInv, ShapesOk, W1Shape
  <1>9. QED
    BY <1>4, <1>5, <1>6, <1>7, <1>8 DEF IInv

(* A pair that is neither torn nor half updated holds at most one entry  *)
(* on each side, and the two sides' finds are mirrored.                    *)
LEMMA PairLoaded ==
    ASSUME IInv, NEW u \in Users, NEW v \in Users, u # v, <<u, v>> \notin torn,
           ~InW2(u, v), ~InW2(v, u)
    PROVE  /\ aff[u][v] \in Seq(Rels) /\ Len(aff[u][v]) <= 1
           /\ aff[v][u] \in Seq(Rels) /\ Len(aff[v][u]) <= 1
           /\ <<Find(aff[u][v]), Find(aff[v][u])>> \in
                 {<<"none", "none">>, <<"Requested", "Pending">>,
                  <<"Pending", "Requested">>, <<"Friend", "Friend">>}
  <1>2. <<v, u>> \notin torn
    BY DEF IInv, TornSym
  <1>3. Mirrored(u, v) /\ Mirrored(v, u)
    BY <1>2 DEF IInv, PairsMirrored
  <1>4. QED
    BY <1>3 DEF IInv, TypeOK, Mirrored

(* addFriend decides on a request only with no affinity on either side,   *)
(* and on an accept only on Pending facing Requested.                      *)
LEMMA AddFriendStep ==
    ASSUME PairSerial, IInv, NEW u \in Users, NEW v \in Users, AddFriend(u, v)
    PROVE  IInv'
  <1> DEFINE f == Find(aff[u][v])
             p0 == AddPlan(f)
  <1>1. CASE Begin(u, v, p0)
    <2>1. p0 \in Plans
      BY DEF Plans, AddPlan, RemovePlan
    <2>2. u # v /\ <<u, v>> \notin torn => Decided(u, v, p0)
      <3> SUFFICES ASSUME u # v, <<u, v>> \notin torn PROVE Decided(u, v, p0)
        OBVIOUS
      <3>0. ~PairBusy(u, v)
        BY <1>1 DEF Begin
      <3>1. /\ aff[u][v] \in Seq(Rels) /\ Len(aff[u][v]) <= 1
            /\ aff[v][u] \in Seq(Rels) /\ Len(aff[v][u]) <= 1
            /\ <<f, Find(aff[v][u])>> \in
                  {<<"none", "none">>, <<"Requested", "Pending">>,
                   <<"Pending", "Requested">>, <<"Friend", "Friend">>}
        <4>1. ~InW2(u, v) /\ ~InW2(v, u)
          BY <3>0 DEF InW2, PairBusy
        <4>2. QED
          BY <4>1, PairLoaded
      <3>2. CASE f = "none"
        <4>1. aff[u][v] = <<>> /\ aff[v][u] = <<>>
          BY <3>1, <3>2, SingleEntry
        <4>2. QED
          BY <3>2, <4>1 DEF Decided, AddPlan
      <3>3. CASE f = "Pending"
        <4>1. Find(aff[v][u]) = "Requested"
          BY <3>1, <3>3
        <4>2. aff[u][v] = <<"Pending">> /\ aff[v][u] = <<"Requested">>
          BY <3>1, <3>3, <4>1, SingleEntry
        <4>3. QED
          BY <3>3, <4>2 DEF Decided, AddPlan
      <3>4. CASE f # "none" /\ f # "Pending"
        BY <3>4 DEF Decided, AddPlan
      <3>5. QED
        BY <3>2, <3>3, <3>4
    <2>3. QED
      BY <1>1, <2>1, <2>2, BeginStep
  <1>2. CASE DbFaults /\ Begin(u, v, "none")
    <2>1. Decided(u, v, "none")
      BY DEF Decided
    <2>2. QED
      BY <1>2, <2>1, BeginStep DEF Plans
  <1>3. QED
    BY <1>1, <1>2 DEF AddFriend

(* removeFriend decides on a drop only when the caller has an entry.      *)
LEMMA RemoveFriendStep ==
    ASSUME PairSerial, IInv, NEW u \in Users, NEW v \in Users, RemoveFriend(u, v)
    PROVE  IInv'
  <1> DEFINE f == Find(aff[u][v])
             p0 == RemovePlan(f)
  <1>1. CASE Begin(u, v, p0)
    <2>1. p0 \in Plans
      BY DEF Plans, AddPlan, RemovePlan
    <2>2. Decided(u, v, p0)
      <3>1. p0 = "drop" => aff[u][v] # <<>>
        BY DEF Find, RemovePlan
      <3>2. QED
        BY <3>1 DEF Decided, RemovePlan
    <2>3. QED
      BY <1>1, <2>1, <2>2, BeginStep
  <1>2. CASE DbFaults /\ Begin(u, v, "none")
    <2>1. Decided(u, v, "none")
      BY DEF Decided
    <2>2. QED
      BY <1>2, <2>1, BeginStep DEF Plans
  <1>3. QED
    BY <1>1, <1>2 DEF RemoveFriend

(* The caller's update: the pair goes from the shape its handler decided  *)
(* on to the half-updated shape; no other pair's entries change, and the  *)
(* handlers on other pairs keep their shapes.  A failed update writes     *)
(* nothing.                                                                *)
LEMMA Write1Step ==
    ASSUME IInv, NEW u \in Users, Write1(u)
    PROVE  IInv'
  <1> DEFINE b == target[u]
             new == Update(aff[u][b], plan[u], "Requested")
  <1>0. /\ pc[u] = "w1" /\ b \in Users
        /\ plan[u] \in {"request", "accept", "drop"}
        /\ target' = target /\ plan' = plan /\ reqs' = reqs /\ torn' = torn
    BY DEF Write1, IInv, TypeOK, Active, Plans, Pcs
  <1>t. /\ aff \in [Users -> [Users -> Seq(Rels)]]
        /\ pc \in [Users -> Pcs] /\ target \in [Users -> Users]
        /\ plan \in [Users -> Plans] /\ reqs \in [Users -> 0..MaxReq]
        /\ torn \subseteq Users \X Users
    BY DEF IInv, TypeOK
  <1>x. \A a \in Users : a # u /\ pc[a] # "idle" => ~(a = b /\ target[a] = u)
    BY <1>0 DEF IInv, PairExclusive
  <1>1. CASE /\ aff' = [aff EXCEPT ![u][b] = new]
             /\ pc' = [pc EXCEPT ![u] = "w2"]
    <2>0. \A a \in Users : a # u => pc'[a] = pc[a]
      BY <1>1, <1>t
    <2>1. new \in Seq(Rels)
      <3>1. aff[u][b] \in Seq(Rels) /\ "Requested" \in Rels
        BY <1>0, <1>t DEF Rels
      <3>2. QED
        BY <3>1, <1>0, UpdateFacts
    <2>c. \A w, x \in Users : ~(w = u /\ x = b) => aff'[w][x] = aff[w][x]
      BY <1>1, <1>t
    <2>2. TypeOK'
      BY <1>0, <1>1, <1>t, <2>1 DEF TypeOK, Pcs
    <2>3. Active' /\ PairExclusive'
      BY <1>0, <1>1, <1>t DEF IInv, Active, PairExclusive
    <2>4. TornSym'
      BY <1>0 DEF IInv, TornSym
    <2>5. PairsMirrored'
      <3> SUFFICES ASSUME NEW x \in Users, NEW y \in Users, x # y,
                          <<x, y>> \notin torn', ~InW2(x, y)'
                   PROVE  Mirrored(x, y)'
        BY DEF PairsMirrored
      <3>1. ~(x = u /\ y = b) /\ ~(x = b /\ y = u)
        BY <1>0, <1>1, <1>t DEF InW2
      <3>2. aff'[x][y] = aff[x][y] /\ aff'[y][x] = aff[y][x]
        BY <3>1, <2>c
      <3>3. ~InW2(x, y)
        BY <1>0, <2>0 DEF InW2
      <3>4. Mirrored(x, y)
        BY <1>0, <3>3 DEF IInv, PairsMirrored
      <3>5. QED
        BY <3>2, <3>4 DEF Mirrored
    <2>6. ShapesOk'
      <3>1. /\ \A a \in Users : a # u /\ pc'[a] = "w1" /\ target'[a] # a
                  /\ <<a, target'[a]>> \notin torn' => W1Shape(a)'
            /\ \A a \in Users : a # u /\ pc'[a] = "w2" /\ target'[a] # a
                  /\ <<a, target'[a]>> \notin torn' => W2Shape(a)'
        <4>1. target' = target /\ plan' = plan /\ torn \subseteq torn'
          BY <1>0
        <4>2. QED
          BY <1>0, <2>0, <2>c, <4>1, OthersShapes DEF IInv
      <3>3. ASSUME b # u, <<u, b>> \notin torn PROVE W2Shape(u)'
        <4>1. Decided(u, b, plan[u])
          BY <3>3, <1>0 DEF IInv, ShapesOk, W1Shape
        <4>2. aff'[u][b] = new /\ aff'[b][u] = aff[b][u]
          BY <3>3, <1>1, <1>t
        <4>3. CASE plan[u] = "request"
          BY <4>1, <4>2, <4>3, <1>0, <1>t, UpdateFacts DEF Decided, W2Shape, Rels
        <4>4. CASE plan[u] = "accept"
          BY <4>1, <4>2, <4>4, <1>0, <1>t, UpdateFacts DEF Decided, W2Shape, Rels
        <4>5. CASE plan[u] = "drop"
          <5>0. ~InW2(u, b) /\ ~InW2(b, u)
            BY <1>0, <1>x DEF InW2
          <5>1. /\ aff[u][b] \in Seq(Rels) /\ Len(aff[u][b]) <= 1
                /\ aff[b][u] \in Seq(Rels) /\ Len(aff[b][u]) <= 1
                /\ <<Find(aff[u][b]), Find(aff[b][u])>> \in
                      {<<"none", "none">>, <<"Requested", "Pending">>,
                       <<"Pending", "Requested">>, <<"Friend", "Friend">>}
            BY <3>3, <1>0, <5>0, PairLoaded
          <5>2. Find(aff[u][b]) # "none"
            BY <4>1, <4>5, <5>1, SingleEntry DEF Decided
          <5>3. Find(aff[b][u]) \in {"Requested", "Pending", "Friend"}
            BY <5>1, <5>2
          <5>4. aff[b][u] = <<Find(aff[b][u])>>
            BY <5>1, <5>3, SingleEntry
          <5>5. new = <<>>
            BY <4>5, <1>0, <1>t, UpdateFacts DEF Rels
          <5>6. QED
            BY <1>0, <4>2, <4>5, <5>3, <5>4, <5>5 DEF W2Shape
        <4>6. QED
          BY <1>0, <4>3, <4>4, <4>5
      <3>4. pc'[u] = "w2"
        BY <1>1, <1>t
      <3>5. QED
        BY <3>1, <3>3, <3>4, <1>0 DEF ShapesOk
    <2>7. QED
      BY <2>2, <2>3, <2>4, <2>5, <2>6 DEF IInv
  <1>2. CASE /\ pc' = [pc EXCEPT ![u] = "idle"]
             /\ aff' = aff
    <2>0. \A a \in Users : pc'[a] = "w2" <=> pc[a] = "w2"
      BY <1>0, <1>2, <1>t
    <2>1. \A a \in Users : a # u => pc'[a] = pc[a]
      BY <1>2, <1>t
    <2>2. TypeOK'
      BY <1>0, <1>2, <1>t DEF TypeOK, Pcs
    <2>3. PairsMirrored'
      BY <1>0, <1>2, <2>0 DEF IInv, PairsMirrored, Mirrored, InW2
    <2>4. Active' /\ PairExclusive'
      BY <1>0, <1>2, <1>t DEF IInv, Active, PairExclusive
    <2>5. ShapesOk'
      <3>1. pc'[u] = "idle"
        BY <1>2, <1>t
      <3>2. \A a \in Users : W1Shape(a)' = W1Shape(a) /\ W2Shape(a)' = W2Shape(a)
        BY <1>0, <1>2 DEF W1Shape, W2Shape, Decided
      <3>3. QED
        BY <1>0, <2>1, <3>1, <3>2 DEF IInv, ShapesOk
    <2>6. QED
      BY <1>0, <2>2, <2>3, <2>4, <2>5 DEF IInv, TornSym
  <1>3. QED
    BY <1>1, <1>2 DEF Write1

(* The friend's update: a half-updated pair becomes mirrored again, or,   *)
(* if the update fails, torn; no other pair's entries change, and the     *)
(* handlers on other pairs keep their shapes.                              *)
LEMMA Write2Step ==
    ASSUME IInv, NEW u \in Users, Write2(u)
    PROVE  IInv'
  <1> DEFINE b == target[u]
             new == Update(aff[b][u], plan[u], "Pending")
  <1>0. /\ pc[u] = "w2" /\ b \in Users
        /\ plan[u] \in {"request", "accept", "drop"}
        /\ pc' = [pc EXCEPT ![u] = "idle"]
        /\ target' = target /\ plan' = plan /\ reqs' = reqs
    BY DEF Write2, IInv, TypeOK, Active, Plans, Pcs
  <1>t. /\ aff \in [Users -> [Users -> Seq(Rels)]]
        /\ pc \in [Users -> Pcs] /\ target \in [Users -> Users]
        /\ plan \in [Users -> Plans] /\ reqs \in [Users -> 0..MaxReq]
        /\ torn \subseteq Users \X Users
    BY DEF IInv, TypeOK
  <1>o. /\ \A a \in Users : a # u => pc'[a] = pc[a]
        /\ pc'[u] = "idle"
    BY <1>0, <1>t
  <1>n. \A x, y \in Users :
           ~(x = u /\ y = b) /\ ~(x = b /\ y = u) /\ ~InW2(x, y)' => ~InW2(x, y)
    BY <1>0, <1>o DEF InW2
  <1>a. Active' /\ PairExclusive'
    BY <1>0, <1>o DEF IInv, Active, PairExclusive
  <1>s. ASSUME torn \subseteq torn',
               \A w, x \in Users : ~(w = b /\ x = u) => aff'[w][x] = aff[w][x]
        PROVE  ShapesOk'
    <2>1. \A w, x \in Users :
             ~(w = u /\ x = target[u]) /\ ~(w = target[u] /\ x = u)
                => aff'[w][x] = aff[w][x]
      BY <1>s
    <2>2. /\ \A a \in Users : a # u /\ pc'[a] = "w1" /\ target'[a] # a
                /\ <<a, target'[a]>> \notin torn' => W1Shape(a)'
          /\ \A a \in Users : a # u /\ pc'[a] = "w2" /\ target'[a] # a
                /\ <<a, target'[a]>> \notin torn' => W2Shape(a)'
      BY <1>0, <1>o, <1>s, <2>1, OthersShapes DEF IInv
    <2>3. QED
      BY <1>o, <2>2 DEF ShapesOk
  <1>1. CASE /\ aff' = [aff EXCEPT ![b][u] = new]
             /\ torn' = torn
    <2>1. new \in Seq(Rels)
      <3>1. aff[b][u] \in Seq(Rels) /\ "Pending" \in Rels
        BY <1>0, <1>t DEF Rels
      <3>2. QED
        BY <3>1, <1>0, UpdateFacts
    <2>c. \A w, x \in Users : ~(w = b /\ x = u) => aff'[w][x] = aff[w][x]
      BY <1>1, <1>t
    <2>2. TypeOK'
      BY <1>0, <1>1, <1>t, <2>1 DEF TypeOK, Pcs
    <2>3. TornSym'
      BY <1>1 DEF IInv, TornSym
    <2>4. PairsMirrored'
      <3> SUFFICES ASSUME NEW x \in Users, NEW y \in Users, x # y,
                          <<x, y>> \notin torn', ~InW2(x, y)'
                   PROVE  Mirrored(x, y)'
        BY DEF PairsMirrored
      <3>1. CASE (x = u /\ y = b) \/ (x = b /\ y = u)
        <4>1. b # u /\ <<u, b>> \notin torn
          BY <3>1, <1>1 DEF IInv, TornSym
        <4>2. W2Shape(u)
          BY <4>1, <1>0 DEF IInv, ShapesOk
        <4>3. aff'[u][b] = aff[u][b] /\ aff'[b][u] = new
          BY <4>1, <1>1, <1>t
        <4>4. aff[b][u] \in Seq(Rels) /\ "Pending" \in Rels
          BY <1>0, <1>t DEF Rels
        <4>5. \/ aff'[u][b] = <<"Requested">> /\ aff'[b][u] = <<"Pending">>
              \/ aff'[u][b] = <<"Friend">> /\ aff'[b][u] = <<"Friend">>
              \/ aff'[u][b] = <<>> /\ aff'[b][u] = <<>>
          <5>1. CASE plan[u] = "request"
            <6>1. aff[u][b] = <<"Requested">> /\ aff[b][u] = <<>>
              BY <5>1, <4>2 DEF W2Shape
            <6>2. new = <<"Pending">>
              BY <5>1, <6>1, <4>4, UpdateFacts
            <6>3. QED
              BY <4>3, <6>1, <6>2
          <5>2. CASE plan[u] = "accept"
            <6>1. aff[u][b] = <<"Friend">> /\ aff[b][u] = <<"Requested">>
              BY <5>2, <4>2 DEF W2Shape
            <6>2. new = <<"Friend">>
              BY <5>2, <6>1, <4>4, UpdateFacts
            <6>3. QED
              BY <4>3, <6>1, <6>2
          <5>3. CASE plan[u] = "drop"
            <6>1. aff[u][b] = <<>>
              BY <5>3, <4>2 DEF W2Shape
            <6>2. new = <<>>
              BY <5>3, <4>4, UpdateFacts
            <6>3. QED
              BY <4>3, <6>1, <6>2
          <5>4. QED
            BY <1>0, <5>1, <5>2, <5>3
        <4>6. Mirrored(u, b)' /\ Mirrored(b, u)'
          <5>1. /\ Find(<<"Requested">>) = "Requested" /\ Find(<<"Pending">>) = "Pending"
                /\ Find(<<"Friend">>) = "Friend" /\ Find(<<>>) = "none"
            BY DEF Find
          <5>2. CASE aff'[u][b] = <<"Requested">> /\ aff'[b][u] = <<"Pending">>
            BY <1>0, <5>1, <5>2 DEF Mirrored
          <5>3. CASE aff'[u][b] = <<"Friend">> /\ aff'[b][u] = <<"Friend">>
            BY <1>0, <5>1, <5>3 DEF Mirrored
          <5>4. CASE aff'[u][b] = <<>> /\ aff'[b][u] = <<>>
            BY <1>0, <5>1, <5>4 DEF Mirrored
          <5>5. QED
            BY <4>5, <5>2, <5>3, <5>4
        <4>7. QED
          <5>1. CASE x = u /\ y = b
            BY <5>1, <4>6, <1>0
          <5>2. CASE x = b /\ y = u
            BY <5>2, <4>6, <1>0
          <5>3. QED
            BY <3>1, <5>1, <5>2
      <3>2. CASE ~(x = u /\ y = b) /\ ~(x = b /\ y = u)
        <4>1. aff'[x][y] = aff[x][y] /\ aff'[y][x] = aff[y][x]
          BY <3>2, <2>c
        <4>2. Mirrored(x, y)
          BY <3>2, <1>1, <1>n DEF IInv, PairsMirrored
        <4>3. QED
          BY <4>1, <4>2 DEF Mirrored
      <3>3. QED
        BY <3>1, <3>2
    <2>5. ShapesOk'
      BY <1>1, <2>c, <1>s
    <2>6. QED
      BY <1>a, <2>2, <2>3, <2>4, <2>5 DEF IInv
  <1>2. CASE /\ torn' = torn \cup {<<u, b>>, <<b, u>>}
             /\ aff' = aff
    <2>1. TypeOK'
      BY <1>0, <1>2, <1>t DEF TypeOK, Pcs
    <2>2. TornSym'
      BY <1>2 DEF IInv, TornSym
    <2>3. PairsMirrored'
      <3> SUFFICES ASSUME NEW x \in Users, NEW y \in Users, x # y,
                          <<x, y>> \notin torn', ~InW2(x, y)'
                   PROVE  Mirrored(x, y)'
        BY DEF PairsMirrored
      <3>1. ~(x = u /\ y = b) /\ ~(x = b /\ y = u) /\ <<x, y>> \notin torn
        BY <1>2
      <3>2. Mirrored(x, y)
        BY <3>1, <1>n DEF IInv, PairsMirrored
      <3>3. QED
        BY <3>2, <1>2 DEF Mirrored
    <2>4. ShapesOk'
      BY <1>2, <1>s
    <2>5. QED
      BY <1>a, <2>1, <2>2, <2>3, <2>4 DEF IInv
  <1>3. QED
    BY <1>1, <1>2 DEF Write2

(* Every step, or a stutter, keeps the invariant.                          *)
LEMMA IInvStep ==
    ASSUME PairSerial, IInv, [Next]_vars
    PROVE  IInv'
  <1>1. CASE \E u, v \in Users : AddFriend(u, v)
    BY <1>1, AddFriendStep
  <1>2. CASE \E u, v \in Users : RemoveFriend(u, v)
    BY <1>2, RemoveFriendStep
  <1>3. CASE \E u \in Users : Write1(u)
    BY <1>3, Write1Step
  <1>4. CASE \E u \in Users : Write2(u)
    BY <1>4, Write2Step
  <1>5. CASE UNCHANGED vars
    BY <1>5 DEF vars, IInv, TypeOK, Active, PairExclusive, TornSym, PairsMirrored,
                InW2, Mirrored, ShapesOk, W1Shape, W2Shape, Decided
  <1>6. QED
    BY <1>1, <1>2, <1>3, <1>4, <1>5 DEF Next

-----------------------------------------------------------------------------
(* The theorem.                                                            *)

(* When no two friend requests about the same pair of users overlap       *)
(* (PairSerial), add_friend and remove_friend leave every pair of distinct *)
(* users on which no handler runs mirrored, however the requests about     *)
(* other pairs interleave with it and whichever reads and updates fail,    *)
(* except a pair whose second update failed: checked by the friend_graph   *)
(* run, and proved here for every set of users and bound.                 *)
THEOREM QuiescentMirroredHolds == PairSerial => (Spec => []QuiescentMirrored)
  <1> SUFFICES ASSUME PairSerial PROVE Spec => []QuiescentMirrored
    OBVIOUS
  <1>1. Init => IInv
    BY InitIInv
  <1>2. IInv /\ [Next]_vars => IInv'
    BY IInvStep
  <1>3. IInv => QuiescentMirrored
    <2> SUFFICES ASSUME IInv, NEW u \in Users, NEW v \in Users, u # v,
                        <<u, v>> \notin torn, ~PairBusy(u, v)
                 PROVE  Mirrored(u, v)
      BY DEF QuiescentMirrored
    <2>1. ~InW2(u, v)
      BY DEF InW2, PairBusy
    <2>2. QED
      BY <2>1 DEF IInv, PairsMirrored
  <1>4. QED
    BY <1>1, <1>2, <1>3, PTL DEF Spec

-----------------------------------------------------------------------------
(* Types, with or without PairSerial.                                      *)

(* TypeOK with what Write1 and Write2 need of it: a handler past its load *)
(* has a plan that writes, so Update is applied only to one of its cases.  *)
TInv ==
    /\ TypeOK
    /\ \A a \in Users : pc[a] # "idle" => plan[a] \in {"request", "accept", "drop"}

LEMMA TInvStep ==
    ASSUME TInv, [Next]_vars
    PROVE  TInv'
  <1>t. /\ aff \in [Users -> [Users -> Seq(Rels)]]
        /\ pc \in [Users -> Pcs] /\ target \in [Users -> Users]
        /\ plan \in [Users -> Plans] /\ reqs \in [Users -> 0..MaxReq]
        /\ torn \subseteq Users \X Users
    BY DEF TInv, TypeOK
  <1>w. \A a \in Users : pc[a] # "idle" => plan[a] \in {"request", "accept", "drop"}
    BY DEF TInv
  <1>1. ASSUME NEW u \in Users, NEW v \in Users, NEW p \in Plans, Begin(u, v, p)
        PROVE  TInv'
    <2>0. reqs' = [reqs EXCEPT ![u] = @ + 1] /\ reqs[u] < MaxReq
          /\ pc[u] = "idle" /\ aff' = aff /\ torn' = torn
      BY <1>1 DEF Begin
    <2>1. reqs' \in [Users -> 0..MaxReq]
      BY <2>0, <1>t, FriendAssumption
    <2>2. CASE p # "none"
      <3>1. /\ pc' = [pc EXCEPT ![u] = "w1"]
            /\ target' = [target EXCEPT ![u] = v]
            /\ plan' = [plan EXCEPT ![u] = p]
        BY <2>2, <1>1 DEF Begin
      <3>2. QED
        BY <2>0, <2>1, <2>2, <3>1, <1>t, <1>w DEF TInv, TypeOK, Pcs, Plans
    <2>3. CASE p = "none"
      <3>1. pc' = pc /\ target' = target /\ plan' = plan
        BY <2>3, <1>1 DEF Begin
      <3>2. QED
        BY <2>0, <2>1, <3>1, <1>t, <1>w DEF TInv, TypeOK
    <2>4. QED
      BY <2>2, <2>3
  <1>2. CASE \E u, v \in Users : AddFriend(u, v) \/ RemoveFriend(u, v)
    BY <1>2, <1>1 DEF AddFriend, RemoveFriend, AddPlan, RemovePlan, Plans
  <1>3. ASSUME NEW u \in Users, Write1(u) PROVE TInv'
    <2> DEFINE b == target[u]
    <2>0. /\ pc[u] = "w1" /\ b \in Users
          /\ plan[u] \in {"request", "accept", "drop"}
          /\ target' = target /\ plan' = plan /\ reqs' = reqs /\ torn' = torn
      BY <1>3, <1>t, <1>w DEF Write1
    <2>1. Update(aff[u][b], plan[u], "Requested") \in Seq(Rels)
      BY <2>0, <1>t, UpdateFacts DEF Rels
    <2>2. CASE /\ aff' = [aff EXCEPT ![u][b] = Update(@, plan[u], "Requested")]
               /\ pc' = [pc EXCEPT ![u] = "w2"]
      BY <2>0, <2>1, <2>2, <1>t, <1>w DEF TInv, TypeOK, Pcs
    <2>3. CASE pc' = [pc EXCEPT ![u] = "idle"] /\ aff' = aff
      BY <2>0, <2>3, <1>t, <1>w DEF TInv, TypeOK, Pcs
    <2>4. QED
      BY <1>3, <2>2, <2>3 DEF Write1
  <1>4. ASSUME NEW u \in Users, Write2(u) PROVE TInv'
    <2> DEFINE b == target[u]
    <2>0. /\ pc[u] = "w2" /\ b \in Users
          /\ plan[u] \in {"request", "accept", "drop"}
          /\ pc' = [pc EXCEPT ![u] = "idle"]
          /\ target' = target /\ plan' = plan /\ reqs' = reqs
      BY <1>4, <1>t, <1>w DEF Write2
    <2>1. Update(aff[b][u], plan[u], "Pending") \in Seq(Rels)
      BY <2>0, <1>t, UpdateFacts DEF Rels
    <2>2. CASE aff' = [aff EXCEPT ![b][u] = Update(@, plan[u], "Pending")] /\ torn' = torn
      BY <2>0, <2>1, <2>2, <1>t, <1>w DEF TInv, TypeOK, Pcs
    <2>3. CASE torn' = torn \cup {<<u, b>>, <<b, u>>} /\ aff' = aff
      BY <2>0, <2>3, <1>t, <1>w DEF TInv, TypeOK, Pcs
    <2>4. QED
      BY <1>4, <2>2, <2>3 DEF Write2
  <1>5. CASE UNCHANGED vars
    BY <1>5 DEF vars, TInv, TypeOK
  <1>6. QED
    BY <1>2, <1>3, <1>4, <1>5 DEF Next

(* Whether or not clients wait for each other, and whichever reads and     *)
(* updates fail, every state the friend handlers reach is well typed: in  *)
(* particular every update a handler makes is one of the three the code   *)
(* issues, and each user's request count stays within MaxReq.             *)
THEOREM TypeCorrect == Spec => []TypeOK
  <1>1. Init => TInv
    BY InitIInv DEF IInv, TInv, Init
  <1>2. TInv /\ [Next]_vars => TInv'
    BY TInvStep
  <1>3. QED
    BY <1>1, <1>2, PTL DEF Spec, TInv

=============================================================================
