------------------------- MODULE FriendLedgerProofs -------------------------
(***************************************************************************)
(* Proof that FriendGraph implements FriendLedger when no two friend      *)
(* requests about the same pair of users overlap, while requests about    *)
(* different pairs interleave at every step: the load, the decision and   *)
(* the two updates of a handler act as one atomic request, and a failed   *)
(* second update as the loss of the friend's side of that request.        *)
(*                                                                         *)
(* Begin and a failed first update are stutters of the ledger; the first  *)
(* update is the request itself, since Ledger counts the second as done;  *)
(* the second update is a stutter, and its failure is Lose.  The other    *)
(* handlers' pending second updates stay in the ledger untouched, because *)
(* each update writes only the entries of its own pair.                   *)
(***************************************************************************)
EXTENDS FriendGraphProofs

(* A handler before its first update still holds the plan that addFriend  *)
(* or removeFriend would choose on the pair as it is now: no other        *)
(* handler writes the caller's entries about that friend meanwhile.       *)
W1Plan ==
    \A a \in Users :
        pc[a] = "w1" =>
            plan[a] \in {AddPlan(Find(aff[a][target[a]])),
                         RemovePlan(Find(aff[a][target[a]]))}

(* The invariant the refinement rests on.                                 *)
RInv == IInv /\ W1Plan

-----------------------------------------------------------------------------
(* The ledger, one entry list at a time.                                  *)

(* Ledger as an operator of the state it reads, so that one lemma serves  *)
(* for the state before a step and for the state after it.                *)
LedgerOf(A, P, T, L) ==
    [w \in Users |-> [x \in Users |->
        IF P[x] = "w2" /\ T[x] = w
        THEN Update(A[w][x], L[x], "Pending")
        ELSE A[w][x]]]

LEMMA LedgerUnfold ==
    /\ Ledger = LedgerOf(aff, pc, target, plan)
    /\ Ledger' = LedgerOf(aff', pc', target', plan')
  BY DEF Ledger, LedgerOf

(* One entry list of the ledger.                                          *)
LEMMA LedgerCell ==
    ASSUME NEW A, NEW P, NEW T, NEW L, NEW w \in Users, NEW x \in Users
    PROVE  LedgerOf(A, P, T, L)[w][x] =
              IF P[x] = "w2" /\ T[x] = w
              THEN Update(A[w][x], L[x], "Pending")
              ELSE A[w][x]
  BY DEF LedgerOf

(* The ledger step of one request of u about b: Both, as a function of   *)
(* the documents it starts from.                                          *)
BothOf(G, u, b, p) ==
    [[G EXCEPT ![u][b] = Update(@, p, "Requested")]
        EXCEPT ![b][u] = Update(@, p, "Pending")]

(* The same, entry list by entry list.                                   *)
BothCellsOf(G, u, b, p) ==
    [w \in Users |-> [x \in Users |->
        IF w = b /\ x = u
        THEN Update(IF b = u THEN Update(G[u][u], p, "Requested")
                    ELSE G[b][u], p, "Pending")
        ELSE IF w = u /\ x = b THEN Update(G[u][b], p, "Requested")
        ELSE G[w][x]]]

LEMMA BothCells ==
    ASSUME NEW S, NEW G \in [Users -> [Users -> S]],
           NEW u \in Users, NEW b \in Users, NEW p
    PROVE  BothOf(G, u, b, p) = BothCellsOf(G, u, b, p)
  <1> DEFINE M == [G EXCEPT ![u][b] = Update(@, p, "Requested")]
             C == [w \in Users |-> [x \in Users |->
                     IF w = u /\ x = b THEN Update(G[u][b], p, "Requested")
                     ELSE G[w][x]]]
  <1>1. M = C
    OBVIOUS
  <1>2. BothOf(G, u, b, p) = [C EXCEPT ![b][u] = Update(@, p, "Pending")]
    BY <1>1 DEF BothOf
  <1>3. C[b][u] = IF b = u THEN Update(G[u][u], p, "Requested") ELSE G[b][u]
    OBVIOUS
  <1>4. [C EXCEPT ![b][u] = Update(@, p, "Pending")] =
          [w \in Users |-> [x \in Users |->
              IF w = b /\ x = u THEN Update(C[b][u], p, "Pending") ELSE C[w][x]]]
    OBVIOUS
  <1>5. QED
    BY <1>2, <1>3, <1>4 DEF BothCellsOf

-----------------------------------------------------------------------------
(* The invariant holds initially and is kept by every step.                *)

LEMMA InitRInv == Init => RInv
  <1> SUFFICES ASSUME Init PROVE RInv
    OBVIOUS
  <1>1. IInv
    BY InitIInv
  <1>2. W1Plan
    BY DEF Init, W1Plan
  <1>3. QED
    BY <1>1, <1>2 DEF RInv

(* Only Begin puts a handler before its first update, with the plan it    *)
(* has just chosen on the pair.  Its own updates end that position; the   *)
(* first update of another handler writes that handler's own entries,     *)
(* and the second one the friend's entries about that handler, which are  *)
(* this handler's entries about its friend only if the two run on the    *)
(* same pair, which PairExclusive rules out.                              *)
(* The plans a handler before its first update may hold depend only on    *)
(* its entries about its friend.                                          *)
LEMMA W1PlanFrame ==
    ASSUME W1Plan,
           \A a \in Users : pc'[a] = "w1" =>
               /\ pc[a] = "w1" /\ plan'[a] = plan[a]
               /\ aff'[a][target'[a]] = aff[a][target[a]]
    PROVE  W1Plan'
  BY DEF W1Plan

LEMMA W1PlanStep ==
    ASSUME PairSerial, RInv, [Next]_vars
    PROVE  W1Plan'
  <1>t. /\ pc \in [Users -> Pcs] /\ target \in [Users -> Users]
        /\ plan \in [Users -> Plans] /\ aff \in [Users -> [Users -> Seq(Rels)]]
    BY DEF RInv, IInv, TypeOK
  <1>1. ASSUME NEW u \in Users, NEW v \in Users, NEW p \in Plans, Begin(u, v, p),
               p \in {AddPlan(Find(aff[u][v])), RemovePlan(Find(aff[u][v])), "none"}
        PROVE  W1Plan'
    <2>0. pc[u] = "idle" /\ aff' = aff
      BY <1>1 DEF Begin
    <2>1. CASE p # "none"
      <3>1. /\ pc' = [pc EXCEPT ![u] = "w1"]
            /\ target' = [target EXCEPT ![u] = v]
            /\ plan' = [plan EXCEPT ![u] = p]
        BY <2>1, <1>1 DEF Begin
      <3>2. QED
        BY <1>1, <2>0, <2>1, <3>1, <1>t DEF RInv, W1Plan
    <2>2. CASE p = "none"
      <3>1. pc' = pc /\ target' = target /\ plan' = plan
        BY <2>2, <1>1 DEF Begin
      <3>2. QED
        BY <2>0, <3>1 DEF RInv, W1Plan
    <2>3. QED
      BY <2>1, <2>2
  <1>2. CASE \E u, v \in Users : AddFriend(u, v)
    BY <1>2, <1>1 DEF AddFriend, AddPlan, Plans
  <1>3. CASE \E u, v \in Users : RemoveFriend(u, v)
    BY <1>3, <1>1 DEF RemoveFriend, RemovePlan, Plans
  <1>4. CASE \E u \in Users : Write1(u)
    <2> PICK u \in Users : Write1(u)
      BY <1>4
    <2>1. /\ pc'[u] \in {"w2", "idle"}
          /\ \A a \in Users : a # u => pc'[a] = pc[a]
          /\ target' = target /\ plan' = plan
          /\ \A w, x \in Users : w # u => aff'[w][x] = aff[w][x]
      BY <1>t DEF Write1
    <2>2. \A a \in Users : pc'[a] = "w1" =>
             /\ pc[a] = "w1" /\ plan'[a] = plan[a]
             /\ aff'[a][target'[a]] = aff[a][target[a]]
      BY <2>1, <1>t
    <2>3. QED
      BY <2>2, W1PlanFrame DEF RInv
  <1>5. CASE \E u \in Users : Write2(u)
    <2> PICK u \in Users : Write2(u)
      BY <1>5
    <2>1. /\ pc[u] = "w2" /\ pc'[u] = "idle"
          /\ \A a \in Users : a # u => pc'[a] = pc[a]
          /\ target' = target /\ plan' = plan
          /\ \A w, x \in Users : ~(w = target[u] /\ x = u) => aff'[w][x] = aff[w][x]
      <3>1. /\ pc[u] = "w2" /\ pc'[u] = "idle"
            /\ \A a \in Users : a # u => pc'[a] = pc[a]
            /\ target' = target /\ plan' = plan
        BY <1>t DEF Write2
      <3>2. \A w, x \in Users : ~(w = target[u] /\ x = u) => aff'[w][x] = aff[w][x]
        <4>1. target[u] \in Users
          BY <1>t
        <4>2. \/ aff' = [aff EXCEPT ![target[u]][u] = Update(@, plan[u], "Pending")]
              \/ aff' = aff
          BY DEF Write2
        <4>3. QED
          BY <4>1, <4>2, <1>t
      <3>3. QED
        BY <3>1, <3>2
    <2>2. \A a \in Users : a # u /\ pc[a] = "w1" => ~(a = target[u] /\ target[a] = u)
      BY <2>1 DEF RInv, IInv, PairExclusive
    <2>3. \A a \in Users : pc'[a] = "w1" =>
             /\ pc[a] = "w1" /\ plan'[a] = plan[a]
             /\ aff'[a][target'[a]] = aff[a][target[a]]
      BY <2>1, <2>2, <1>t
    <2>4. QED
      BY <2>3, W1PlanFrame DEF RInv
  <1>6. CASE UNCHANGED vars
    BY <1>6 DEF vars, RInv, W1Plan
  <1>7. QED
    BY <1>2, <1>3, <1>4, <1>5, <1>6 DEF Next

LEMMA RInvStep ==
    ASSUME PairSerial, RInv, [Next]_vars
    PROVE  RInv'
  BY IInvStep, W1PlanStep DEF RInv


-----------------------------------------------------------------------------
(* Each step of a handler is a step of the ledger or leaves it alone.      *)

(* The ledger holds affinity lists: a pending second update is applied    *)
(* with a plan that writes.                                               *)
LEMMA LedgerType ==
    ASSUME IInv
    PROVE  Ledger \in [Users -> [Users -> Seq(Rels)]]
  <1> SUFFICES ASSUME NEW w \in Users, NEW x \in Users
               PROVE  LedgerOf(aff, pc, target, plan)[w][x] \in Seq(Rels)
    BY LedgerUnfold DEF LedgerOf
  <1>1. aff[w][x] \in Seq(Rels) /\ "Pending" \in Rels
    BY DEF IInv, TypeOK, Rels
  <1>2. pc[x] = "w2" => plan[x] \in {"request", "accept", "drop"}
    BY DEF IInv, TypeOK, Active, Plans
  <1>3. LedgerOf(aff, pc, target, plan)[w][x] =
          IF pc[x] = "w2" /\ target[x] = w
          THEN Update(aff[w][x], plan[x], "Pending") ELSE aff[w][x]
    BY DEF LedgerOf
  <1>4. CASE pc[x] = "w2" /\ target[x] = w
    <2>1. Update(aff[w][x], plan[x], "Pending") \in Seq(Rels)
      BY <1>1, <1>2, <1>4, UpdateFacts
    <2>2. QED
      BY <1>3, <1>4, <2>1
  <1>5. QED
    BY <1>1, <1>3, <1>4

(* A load and decision writes nothing and leaves every handler that is    *)
(* between its updates where it is.                                        *)
LEMMA BeginRefines ==
    ASSUME RInv, NEW u \in Users, NEW v \in Users, NEW p \in Plans,
           Begin(u, v, p)
    PROVE  UNCHANGED <<Ledger, torn>>
  <1>t. pc \in [Users -> Pcs] /\ target \in [Users -> Users] /\ plan \in [Users -> Plans]
    BY DEF RInv, IInv, TypeOK
  <1>1. /\ pc[u] = "idle" /\ aff' = aff /\ torn' = torn
        /\ \/ /\ pc' = [pc EXCEPT ![u] = "w1"]
              /\ target' = [target EXCEPT ![u] = v]
              /\ plan' = [plan EXCEPT ![u] = p]
           \/ pc' = pc /\ target' = target /\ plan' = plan
    BY DEF Begin
  <1>2. \A w, x \in Users :
           /\ (pc'[x] = "w2" /\ target'[x] = w) <=> (pc[x] = "w2" /\ target[x] = w)
           /\ pc[x] = "w2" => plan'[x] = plan[x]
    BY <1>1, <1>t
  <1>3. QED
    BY <1>1, <1>2, LedgerUnfold DEF LedgerOf

(* The caller's update is the whole request on the ledger: its decision   *)
(* still fits the pair (W1Plan), the ledger counts the friend's side as    *)
(* written, and no handler about another pair has a pending update to     *)
(* either entry list.  A failed first update leaves the ledger alone.     *)
LEMMA Write1Refines ==
    ASSUME RInv, NEW u \in Users, Write1(u)
    PROVE  Abs!LNext \/ UNCHANGED <<Ledger, torn>>
  <1> DEFINE b == target[u]
             p == plan[u]
  <1>t. /\ aff \in [Users -> [Users -> Seq(Rels)]]
        /\ pc \in [Users -> Pcs] /\ target \in [Users -> Users]
        /\ plan \in [Users -> Plans]
    BY DEF RInv, IInv, TypeOK
  <1>0. /\ pc[u] = "w1" /\ b \in Users /\ p \in {"request", "accept", "drop"}
        /\ target' = target /\ plan' = plan /\ torn' = torn
    BY <1>t DEF Write1, RInv, IInv, Active, Plans
  <1>c. \A w, x \in Users :
           Ledger[w][x] = IF pc[x] = "w2" /\ target[x] = w
                          THEN Update(aff[w][x], plan[x], "Pending") ELSE aff[w][x]
    BY LedgerUnfold, LedgerCell
  <1>c2. \A w, x \in Users :
           Ledger'[w][x] = IF pc'[x] = "w2" /\ target'[x] = w
                           THEN Update(aff'[w][x], plan'[x], "Pending") ELSE aff'[w][x]
    BY LedgerUnfold, LedgerCell
  <1>1. CASE /\ aff' = [aff EXCEPT ![u][b] = Update(@, p, "Requested")]
             /\ pc' = [pc EXCEPT ![u] = "w2"]
    <2>1. Ledger[u][b] = aff[u][b] /\ Ledger[b][u] = aff[b][u]
      <3>1. ~(pc[b] = "w2" /\ target[b] = u)
        BY <1>0 DEF RInv, IInv, PairExclusive
      <3>2. QED
        BY <1>0, <1>c, <3>1
    <2>2. \A w, x \in Users :
            Ledger'[w][x] =
               IF w = b /\ x = u
               THEN Update(IF b = u THEN Update(Ledger[u][u], p, "Requested")
                           ELSE Ledger[b][u], p, "Pending")
               ELSE IF w = u /\ x = b THEN Update(Ledger[u][b], p, "Requested")
               ELSE Ledger[w][x]
      <3> SUFFICES ASSUME NEW w \in Users, NEW x \in Users
                   PROVE  Ledger'[w][x] =
                            IF w = b /\ x = u
                            THEN Update(IF b = u THEN Update(Ledger[u][u], p, "Requested")
                                        ELSE Ledger[b][u], p, "Pending")
                            ELSE IF w = u /\ x = b THEN Update(Ledger[u][b], p, "Requested")
                            ELSE Ledger[w][x]
        OBVIOUS
      <3>1. ~(pc[b] = "w2" /\ target[b] = u)
        BY <1>0 DEF RInv, IInv, PairExclusive
      <3>2. CASE w = b /\ x = u
        BY <3>2, <2>1, <1>0, <1>1, <1>t, <1>c2
      <3>3. CASE w = u /\ x = b /\ ~(w = b /\ x = u)
        BY <3>1, <3>3, <2>1, <1>0, <1>1, <1>t, <1>c2
      <3>4. CASE ~(w = b /\ x = u) /\ ~(w = u /\ x = b)
        <4>1. aff'[w][x] = aff[w][x]
          BY <3>4, <1>1, <1>t
        <4>2. CASE x = u
          <5>1. Ledger'[w][x] = aff'[w][x]
            BY <3>4, <4>2, <1>0, <1>1, <1>t, <1>c2
          <5>2. Ledger[w][x] = aff[w][x]
            BY <4>2, <1>0, <1>c
          <5>3. QED
            BY <3>4, <4>1, <5>1, <5>2
        <4>3. CASE x # u
          <5>1. pc'[x] = pc[x] /\ target'[x] = target[x] /\ plan'[x] = plan[x]
            BY <4>3, <1>0, <1>1, <1>t
          <5>2. QED
            BY <3>4, <4>1, <5>1, <1>c, <1>c2
        <4>4. QED
          BY <4>2, <4>3
      <3>5. QED
        BY <3>2, <3>3, <3>4
    <2>3. Ledger' = BothOf(Ledger, u, b, p)
      <3>1. Ledger' = [w \in Users |-> [x \in Users |-> Ledger'[w][x]]]
        BY LedgerUnfold DEF LedgerOf
      <3>2. Ledger \in [Users -> [Users -> Seq(Rels)]]
        BY LedgerType DEF RInv
      <3>3. BothOf(Ledger, u, b, p) = BothCellsOf(Ledger, u, b, p)
        BY <3>2, <1>0, BothCells
      <3>4. QED
        BY <2>2, <3>1, <3>3 DEF BothCellsOf
    <2>4. p \in {AddPlan(Find(Ledger[u][b])), RemovePlan(Find(Ledger[u][b]))}
      BY <1>0, <2>1 DEF RInv, W1Plan
    <2>5. Abs!Both(u, b, p)
      BY <2>3, <1>0 DEF Abs!Both, BothOf, Abs!Update, Update
    <2>6. Abs!Add(u, b) \/ Abs!Remove(u, b)
      BY <2>4, <2>5 DEF Abs!Add, Abs!Remove, Abs!AddPlan, AddPlan,
                        Abs!RemovePlan, RemovePlan, Abs!Find, Find
    <2>7. QED
      BY <2>6, <1>0 DEF Abs!LNext
  <1>2. CASE /\ pc' = [pc EXCEPT ![u] = "idle"]
             /\ aff' = aff
    <2>1. \A w, x \in Users :
             (pc'[x] = "w2" /\ target'[x] = w) <=> (pc[x] = "w2" /\ target[x] = w)
      BY <1>0, <1>2, <1>t
    <2>2. QED
      BY <1>0, <1>2, <2>1, LedgerUnfold DEF LedgerOf
  <1>3. QED
    BY <1>1, <1>2 DEF Write1

(* The friend's update only writes what the ledger already counts; its    *)
(* failure takes the friend's side back: Lose.                            *)
LEMMA Write2Refines ==
    ASSUME RInv, NEW u \in Users, Write2(u)
    PROVE  Abs!LNext \/ UNCHANGED <<Ledger, torn>>
  <1> DEFINE b == target[u]
             p == plan[u]
  <1>t. /\ aff \in [Users -> [Users -> Seq(Rels)]]
        /\ pc \in [Users -> Pcs] /\ target \in [Users -> Users]
        /\ plan \in [Users -> Plans]
    BY DEF RInv, IInv, TypeOK
  <1>0. /\ pc[u] = "w2" /\ b \in Users /\ p \in Plans \ {"none"}
        /\ pc' = [pc EXCEPT ![u] = "idle"]
        /\ target' = target /\ plan' = plan
    BY <1>t DEF Write2, RInv, IInv, Active
  <1>c. \A w, x \in Users :
           Ledger[w][x] = IF pc[x] = "w2" /\ target[x] = w
                          THEN Update(aff[w][x], plan[x], "Pending") ELSE aff[w][x]
    BY LedgerUnfold, LedgerCell
  <1>c2. \A w, x \in Users :
           Ledger'[w][x] = IF pc'[x] = "w2" /\ target'[x] = w
                           THEN Update(aff'[w][x], plan'[x], "Pending") ELSE aff'[w][x]
    BY LedgerUnfold, LedgerCell
  <1>f. Ledger' = [w \in Users |-> [x \in Users |-> Ledger'[w][x]]]
    BY LedgerUnfold DEF LedgerOf
  <1>1. CASE /\ aff' = [aff EXCEPT ![b][u] = Update(@, p, "Pending")]
             /\ torn' = torn
    <2>1. \A w, x \in Users : Ledger'[w][x] = Ledger[w][x]
      <3> SUFFICES ASSUME NEW w \in Users, NEW x \in Users
                   PROVE  Ledger'[w][x] = Ledger[w][x]
        OBVIOUS
      <3>1. CASE x = u
        <4>1. Ledger'[w][x] = aff'[w][x]
          BY <3>1, <1>0, <1>t, <1>c2
        <4>2. CASE w = b
          <5>1. aff'[w][x] = Update(aff[b][u], p, "Pending")
            BY <3>1, <4>2, <1>0, <1>1, <1>t
          <5>2. QED
            BY <3>1, <4>1, <4>2, <5>1, <1>0, <1>c
        <4>3. CASE w # b
          <5>1. aff'[w][x] = aff[w][x]
            BY <4>3, <1>1, <1>t
          <5>2. QED
            BY <3>1, <4>1, <4>3, <5>1, <1>0, <1>c
        <4>4. QED
          BY <4>2, <4>3
      <3>2. CASE x # u
        <4>1. aff'[w][x] = aff[w][x]
          BY <3>2, <1>0, <1>1, <1>t
        <4>2. pc'[x] = pc[x] /\ target'[x] = target[x] /\ plan'[x] = plan[x]
          BY <3>2, <1>0, <1>t
        <4>3. QED
          BY <4>1, <4>2, <1>c, <1>c2
      <3>3. QED
        BY <3>1, <3>2
    <2>2. Ledger' = Ledger
      BY <2>1, <1>f, LedgerType DEF RInv
    <2>3. QED
      BY <1>1, <2>2
  <1>2. CASE /\ torn' = torn \cup {<<u, b>>, <<b, u>>}
             /\ aff' = aff
    <2>1. \A w, x \in Users :
             Ledger'[w][x] = IF w = b /\ x = u THEN aff[b][u] ELSE Ledger[w][x]
      <3> SUFFICES ASSUME NEW w \in Users, NEW x \in Users
                   PROVE  Ledger'[w][x] =
                            IF w = b /\ x = u THEN aff[b][u] ELSE Ledger[w][x]
        OBVIOUS
      <3>1. CASE x = u
        <4>1. Ledger'[w][x] = aff[w][x]
          BY <3>1, <1>0, <1>2, <1>t, <1>c2
        <4>2. w # b => Ledger[w][x] = aff[w][x]
          BY <3>1, <1>0, <1>c
        <4>3. QED
          BY <3>1, <4>1, <4>2
      <3>2. CASE x # u
        <4>1. pc'[x] = pc[x] /\ target'[x] = target[x] /\ plan'[x] = plan[x]
          BY <3>2, <1>0, <1>t
        <4>2. QED
          BY <3>2, <4>1, <1>2, <1>c, <1>c2
      <3>3. QED
        BY <3>1, <3>2
    <2>2. Ledger[b][u] = Update(aff[b][u], p, "Pending")
      BY <1>0, <1>c
    <2>3. Ledger' = [Ledger EXCEPT ![b][u] = Ledger'[b][u]]
      <3>1. Ledger \in [Users -> [Users -> Seq(Rels)]]
        BY LedgerType DEF RInv
      <3>2. [Ledger EXCEPT ![b][u] = Ledger'[b][u]] =
              [w \in Users |-> [x \in Users |->
                  IF w = b /\ x = u THEN Ledger'[b][u] ELSE Ledger[w][x]]]
        BY <3>1, <1>0
      <3>3. Ledger'[b][u] = aff[b][u]
        BY <2>1, <1>0
      <3>4. QED
        BY <2>1, <1>f, <3>2, <3>3
    <2>4. Ledger'[b][u] \in Seq(Rels)
      BY <2>1, <1>0, <1>t
    <2>5. Abs!Lose(u, b)
      BY <1>0, <1>2, <2>1, <2>2, <2>3, <2>4 DEF Abs!Lose, Abs!Update, Update,
                                                Abs!Plans, Plans, Abs!Rels, Rels
    <2>6. QED
      BY <2>5, <1>0 DEF Abs!LNext
  <1>3. QED
    BY <1>1, <1>2 DEF Write2

(* Every step of FriendGraph, or a stutter, is a step of the ledger or    *)
(* leaves it alone.                                                        *)
LEMMA RefineStep ==
    ASSUME RInv, [Next]_vars
    PROVE  [Abs!LNext]_<<Ledger, torn>>
  <1>1. ASSUME NEW u \in Users, NEW v \in Users, NEW p \in Plans, Begin(u, v, p)
        PROVE  UNCHANGED <<Ledger, torn>>
    BY <1>1, BeginRefines
  <1>2. CASE \E u, v \in Users : AddFriend(u, v) \/ RemoveFriend(u, v)
    BY <1>2, <1>1 DEF AddFriend, RemoveFriend, AddPlan, RemovePlan, Plans
  <1>3. CASE \E u \in Users : Write1(u)
    BY <1>3, Write1Refines
  <1>4. CASE \E u \in Users : Write2(u)
    BY <1>4, Write2Refines
  <1>5. CASE UNCHANGED vars
    BY <1>5, LedgerUnfold DEF vars, LedgerOf
  <1>6. QED
    BY <1>2, <1>3, <1>4, <1>5 DEF Next

-----------------------------------------------------------------------------
(* The theorem.                                                            *)

(* When no two friend requests about the same pair of users overlap       *)
(* (PairSerial), however the requests about different pairs interleave,  *)
(* also on one user's document, addFriend and removeFriend behave as      *)
(* atomic operations on the affinities (FriendLedger): the load, the      *)
(* decision and the two updates of a handler are one request decided on   *)
(* the pair as it stands, and a failed second update (users.rs 215) only  *)
(* takes back the friend's side of that request.  Checked by the          *)
(* friend_graph run, and proved here for every set of users and bound.    *)
THEOREM LedgerRefinement == PairSerial => (Spec => LedgerSpec)
  <1> SUFFICES ASSUME PairSerial PROVE Spec => LedgerSpec
    OBVIOUS
  <1>1. Init => Abs!LInit
    <2> SUFFICES ASSUME Init PROVE Abs!LInit
      OBVIOUS
    <2>1. Ledger = aff
      <3>1. \A x \in Users : pc[x] # "w2"
        BY DEF Init
      <3>2. QED
        BY <3>1, LedgerUnfold DEF Init, LedgerOf
    <2>2. QED
      BY <2>1 DEF Init, Abs!LInit
  <1>2. RInv /\ [Next]_vars => RInv'
    BY RInvStep
  <1>3. RInv /\ [Next]_vars => [UNCHANGED Abs!lvars \/ Abs!LNext]_Abs!lvars
    BY RefineStep DEF Abs!lvars
  <1>4. QED
    BY <1>1, <1>2, <1>3, InitRInv, PTL DEF Spec, LedgerSpec

=============================================================================
