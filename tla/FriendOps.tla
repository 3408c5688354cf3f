------------------------------ MODULE FriendOps ------------------------------
(***************************************************************************)
(* The data of the friend graph and the pure parts of User::add_friend   *)
(* and User::remove_friend (services/database/users.rs 153-342): which    *)
(* relationship find returns, what each handler decides from it, and what *)
(* each kind of update does to one side's entries.  Both the handlers'    *)
(* model (FriendGraph) and the ledger they implement (FriendLedger) use   *)
(* these definitions.                                                     *)
(***************************************************************************)
EXTENDS Sequences

(* Relationship (users.rs 24-29).                                         *)
Rels == {"Friend", "Blocked", "Requested", "Pending"}

(* The update a handler has decided on, after its load:                  *)
(*  request - add_friend with no affinity: push Requested / Pending       *)
(*  accept  - add_friend on a Pending affinity: set both sides to Friend  *)
(*  drop    - remove_friend on Friend, Requested or Pending: pull both    *)
(*  none    - an error, nothing is written                                *)
Plans == {"none", "request", "accept", "drop"}

(* The relationship `self.affinities.iter().find(|a| &a.id == friend_id)`  *)
(* returns, or "none".                                                    *)
Find(s) == IF s = <<>> THEN "none" ELSE Head(s)

(* add_friend (lines 156-162): no affinity: request; Pending: accept;     *)
(* Friend, Blocked, Requested: the AlreadyFriends, Blocked and            *)
(* AlreadyRequested errors.                                               *)
AddPlan(f) ==
    CASE f = "none"    -> "request"
      [] f = "Pending" -> "accept"
      [] OTHER         -> "none"

(* remove_friend (lines 238-341): Friend, Requested, Pending: drop;       *)
(* Blocked: the Blocked error; no affinity: NotFound.                     *)
RemovePlan(f) ==
    IF f \in {"Friend", "Requested", "Pending"} THEN "drop" ELSE "none"

(* The update a plan makes to the entries of one side: `mine` is the      *)
(* relationship a request pushes on that side.                            *)
Update(s, p, mine) ==
    CASE p = "request" -> Append(s, mine)
      [] p = "accept"  -> [i \in DOMAIN s |-> "Friend"]
      [] p = "drop"    -> <<>>

=============================================================================
