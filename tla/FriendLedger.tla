----------------------------- MODULE FriendLedger -----------------------------
(***************************************************************************)
(* What addFriend and removeFriend promise when no two requests about the *)
(* same pair of users overlap (methods/users.rs 31-68,                    *)
(* services/database/users.rs 153-342), without loads, handlers or        *)
(* separate updates: each request decides from the affinities as they     *)
(* are and changes both users' documents in one step.  The one exception  *)
(* is the documented partial failure: the friend's side of the last       *)
(* request on a pair may be lost, and the pair is then torn.              *)
(*                                                                         *)
(* FriendGraph implements this specification under PairSerial            *)
(* (LedgerSpec), with requests about different pairs interleaved.        *)
(***************************************************************************)
EXTENDS Sequences, FriendOps

CONSTANT Users

VARIABLES
    aff,   \* aff[u][v]: relationships of u's entries with id v
    torn   \* pairs whose friend-side update was lost

lvars == <<aff, torn>>

LTypeOK ==
    /\ aff \in [Users -> [Users -> Seq(Rels)]]
    /\ torn \subseteq Users \X Users

LInit ==
    /\ aff = [u \in Users |-> [v \in Users |-> <<>>]]
    /\ torn = {}

(* A request that is not an error updates u's entries about v and v's     *)
(* entries about u together (for u = v, one after the other).            *)
Both(u, v, p) ==
    LET mine == [aff EXCEPT ![u][v] = Update(@, p, "Requested")] IN
    /\ p # "none"
    /\ aff' = [mine EXCEPT ![v][u] = Update(@, p, "Pending")]
    /\ UNCHANGED torn

(* addFriend(u, v) and removeFriend(u, v) as atomic operations.           *)
Add(u, v) == Both(u, v, AddPlan(Find(aff[u][v])))

Remove(u, v) == Both(u, v, RemovePlan(Find(aff[u][v])))

(* The friend's side of an update is lost: v's entries about u return to  *)
(* a value that the update of some plan maps to their present value, and  *)
(* nothing else changes.                                                  *)
Lose(u, v) ==
    /\ aff' = [aff EXCEPT ![v][u] = aff'[v][u]]
    /\ aff'[v][u] \in Seq(Rels)
    /\ \E p \in Plans \ {"none"} : aff[v][u] = Update(aff'[v][u], p, "Pending")
    /\ torn' = torn \cup {<<u, v>>, <<v, u>>}

LNext ==
    \E u, v \in Users : Add(u, v) \/ Remove(u, v) \/ Lose(u, v)

LSpec == LInit /\ [][LNext]_lvars

=============================================================================
