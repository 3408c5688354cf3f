----------------------------- MODULE FriendGraph -----------------------------
(***************************************************************************)
(* The friend graph of harmony: the affinities stored in each user's      *)
(* document and the methods that change them, addFriend,                  *)
(* addFriendByUsername and removeFriend (methods/users.rs 31-68, and      *)
(* User::add_friend and User::remove_friend in                            *)
(* services/database/users.rs 153-342).                                   *)
(*                                                                         *)
(* A handler loads the caller's document, decides from the affinity it    *)
(* finds there, then makes two separate updates: one to the caller's      *)
(* document and one to the friend's.  Other handlers run between the      *)
(* load and the updates and between the two updates; an update may fail. *)
(*                                                                         *)
(* The affinities of u are kept per other user: aff[u][v] is the sequence *)
(* of relationships of the entries of u's list whose id is v, in list     *)
(* order.  find takes the first such entry, $push appends one, $pull      *)
(* removes them all and the array-filtered $set rewrites them all, so     *)
(* the order between entries of different ids never matters.              *)
(***************************************************************************)
EXTENDS Naturals, Sequences, FriendOps

CONSTANTS
    Users,     \* user ids
    MaxReq,    \* requests each user sends
    PairSerial, \* whether requests about one pair of users never overlap
    DbFaults   \* whether a MongoDB read or update may fail

ASSUME FriendAssumption ==
    /\ MaxReq \in Nat
    /\ PairSerial \in BOOLEAN /\ DbFaults \in BOOLEAN

(* Positions of a handler: idle, or before its first or second update.    *)
Pcs == {"idle", "w1", "w2"}

VARIABLES
    aff,     \* aff[u][v]: relationships of u's entries with id v
    pc,      \* each user's handler position
    target,  \* the friend id of each user's handler
    plan,    \* the update each user's handler decided on
    reqs,    \* requests each user has sent
    torn     \* history: pairs whose second update failed after the first

vars == <<aff, pc, target, plan, reqs, torn>>

TypeOK ==
    /\ aff \in [Users -> [Users -> Seq(Rels)]]
    /\ pc \in [Users -> Pcs]
    /\ target \in [Users -> Users]
    /\ plan \in [Users -> Plans]
    /\ reqs \in [Users -> 0..MaxReq]
    /\ torn \subseteq Users \X Users

(* Every user exists (User::create) and has no affinity.                  *)
Init ==
    /\ aff = [u \in Users |-> [v \in Users |-> <<>>]]
    /\ pc = [u \in Users |-> "idle"]
    /\ target = [u \in Users |-> CHOOSE v \in Users : TRUE]
    /\ plan = [u \in Users |-> "none"]
    /\ reqs = [u \in Users |-> 0]
    /\ torn = {}

-----------------------------------------------------------------------------
(* A handler is running on the pair {u, v}: a request of u about v or of  *)
(* v about u that is between its load and its last update.  The server   *)
(* does not prevent this; PairSerial is the case where clients never let  *)
(* two requests about one pair overlap, friend_race the case where they   *)
(* do.  Requests about different pairs still interleave freely, also when *)
(* they update the same user's document.                                  *)
PairBusy(u, v) ==
    \E a \in Users : pc[a] # "idle" /\ {a, target[a]} = {u, v}

(* A request from u about v: the handler loads u's document (User::get,  *)
(* line 38 or 64), checks v exists (lines 39/52/65 and 155/237), and      *)
(* decides from u's affinity to v as loaded.  A failed read, or a         *)
(* decision that is an error, returns with nothing written.               *)
Begin(u, v, p) ==
    /\ pc[u] = "idle"
    /\ reqs[u] < MaxReq
    /\ PairSerial => ~PairBusy(u, v)
    /\ reqs' = [reqs EXCEPT ![u] = @ + 1]
    /\ \/ /\ p # "none"
          /\ pc' = [pc EXCEPT ![u] = "w1"]
          /\ target' = [target EXCEPT ![u] = v]
          /\ plan' = [plan EXCEPT ![u] = p]
       \/ /\ p = "none"
          /\ UNCHANGED <<pc, target, plan>>
    /\ UNCHANGED <<aff, torn>>

(* Mutant of AddFriend: a Requested affinity is taken for an incoming    *)
(* request, so a user can accept the request they sent.                  *)
AddFriendOwnRequest(u, v) ==
    LET f == Find(aff[u][v]) IN
    \/ Begin(u, v, IF f = "Requested" THEN "accept" ELSE AddPlan(f))
    \/ DbFaults /\ Begin(u, v, "none")

(* Lines 31-55 and 153-233: addFriend and addFriendByUsername decide by  *)
(* AddPlan on the affinity the caller's document holds.                   *)
AddFriend(u, v) ==
    \/ Begin(u, v, AddPlan(Find(aff[u][v])))
    \/ DbFaults /\ Begin(u, v, "none")

(* Lines 57-68 and 235-342: removeFriend decides by RemovePlan.          *)
RemoveFriend(u, v) ==
    \/ Begin(u, v, RemovePlan(Find(aff[u][v])))
    \/ DbFaults /\ Begin(u, v, "none")

(* The first update, to the caller's document: lines 163-179, 201-215,   *)
(* 243-256, 276-289, 308-321.  If it fails the handler returns the error. *)
Write1(u) ==
    LET v == target[u] IN
    /\ pc[u] = "w1"
    /\ \/ /\ aff' = [aff EXCEPT ![u][v] = Update(@, plan[u], "Requested")]
          /\ pc' = [pc EXCEPT ![u] = "w2"]
       \/ /\ DbFaults
          /\ pc' = [pc EXCEPT ![u] = "idle"]
          /\ UNCHANGED aff
    /\ UNCHANGED <<target, plan, reqs, torn>>

(* Mutant of Write2: the accept update of the friend's document filters   *)
(* on "affinity.id": &friend_id, copied from the first update, and so     *)
(* rewrites the friend's entries about itself.                            *)
Write2OwnFilter(u) ==
    LET v == target[u] IN
    /\ pc[u] = "w2"
    /\ \/ /\ aff' = IF plan[u] = "accept"
                    THEN [aff EXCEPT ![v][v] = Update(@, plan[u], "Pending")]
                    ELSE [aff EXCEPT ![v][u] = Update(@, plan[u], "Pending")]
          /\ UNCHANGED torn
       \/ /\ DbFaults
          /\ torn' = torn \cup {<<u, v>>, <<v, u>>}
          /\ UNCHANGED aff
    /\ pc' = [pc EXCEPT ![u] = "idle"]
    /\ UNCHANGED <<target, plan, reqs>>

(* The second update, to the friend's document: lines 180-196, 216-230,   *)
(* 257-270, 290-303, 322-335; then the handler returns, with the error if *)
(* the update failed.                                                     *)
Write2(u) ==
    LET v == target[u] IN
    /\ pc[u] = "w2"
    /\ \/ /\ aff' = [aff EXCEPT ![v][u] = Update(@, plan[u], "Pending")]
          /\ UNCHANGED torn
       \/ /\ DbFaults
          /\ torn' = torn \cup {<<u, v>>, <<v, u>>}
          /\ UNCHANGED aff
    /\ pc' = [pc EXCEPT ![u] = "idle"]
    /\ UNCHANGED <<target, plan, reqs>>

Next ==
    \/ \E u, v \in Users : AddFriend(u, v) \/ RemoveFriend(u, v)
    \/ \E u \in Users : Write1(u) \/ Write2(u)

Spec == Init /\ [][Next]_vars

-----------------------------------------------------------------------------
(* Properties.                                                            *)

(* The two ends of an affinity agree (spec S4): no affinity on either     *)
(* side, Requested on one side and Pending on the other, or Friend on     *)
(* both; and one entry per user.                                          *)
Mirrored(u, v) ==
    /\ Len(aff[u][v]) <= 1
    /\ <<Find(aff[u][v]), Find(aff[v][u])>> \in
          {<<"none", "none">>, <<"Requested", "Pending">>,
           <<"Pending", "Requested">>, <<"Friend", "Friend">>}

(* Every pair of distinct users on which no friend handler is between its *)
(* load and its last update has mirrored affinities, whatever handlers    *)
(* run on other pairs: add_friend and remove_friend update both documents *)
(* the same way, and a failed read or first update writes nothing.  Pairs *)
(* whose second update failed are left out: that failure leaves one side  *)
(* changed by design.                                                     *)
QuiescentMirrored ==
    \A u, v \in Users :
        u # v /\ <<u, v>> \notin torn /\ ~PairBusy(u, v) => Mirrored(u, v)


(* The affinities as the clients see them: a handler between its two     *)
(* updates counts as having made both, so its friend's entries about it   *)
(* are taken with the second update applied.                              *)
Ledger ==
    [w \in Users |-> [x \in Users |->
        IF pc[x] = "w2" /\ target[x] = w
        THEN Update(aff[w][x], plan[x], "Pending")
        ELSE aff[w][x]]]

Abs == INSTANCE FriendLedger WITH aff <- Ledger

(* When no two requests about the same pair overlap (PairSerial), while   *)
(* requests about different pairs interleave at every await, addFriend   *)
(* and removeFriend are atomic (FriendLedger): each request is decided on *)
(* the affinities as they stand when it takes effect and changes both     *)
(* documents in one step, and a failed second update (users.rs 215) only  *)
(* takes back the friend's side of that request.  This rests on every     *)
(* update naming the friend id in its filter or $pull, so that updates    *)
(* of one document for different friends do not overwrite each other.    *)
(* It is Abs!LSpec with the ledger's stutter written first, which TLC     *)
(* tries before the ledger's steps.                                       *)
LedgerSpec == Abs!LInit /\ [][UNCHANGED Abs!lvars \/ Abs!LNext]_Abs!lvars

=============================================================================
