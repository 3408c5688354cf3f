------------------------ MODULE CallCoordinatorProofs ------------------------
(***************************************************************************)
(* Proofs about CallCoordinator for every set of users and ULIDs and every *)
(* request bound.                                                          *)
(***************************************************************************)
EXTENDS CallCoordinator, TLAPS

-----------------------------------------------------------------------------
(* The call create builds for a user and a fresh ULID is an ActiveCall.  *)
LEMMA CallType ==
    ASSUME NEW u \in Users, NEW i \in CallIds
    PROVE  [id |-> i, members |-> <<u>>] \in ActiveCall
  BY DEF ActiveCall

(* The lookup handlers answer one of the handler results.                 *)
LEMMA LookupResultType ==
    ASSUME NEW v
    PROVE  (IF GetInChannel(v) = "none" THEN "NotFound" ELSE "DecodeError") \in Results
  BY DEF Results

(* The facts TypeOK and HistoryMatchesCall rest on: a history document   *)
(* exists only for a minted call and holds its members, the witness is    *)
(* the call built under its own ULID, and a create between its SET and    *)
(* its history insert knows the ULID it minted.                          *)
Strength ==
    /\ \A i \in CallIds :
          history[i] # NoCall => calls[i] \in ActiveCall /\ history[i] = calls[i].members
    /\ witness # NoCall => calls[witness.id] = witness
    /\ \A u \in Users :
          pc[u] = "start_store" => mint[u] \in CallIds /\ calls[mint[u]] \in ActiveCall

IInv == TypeOK /\ Strength

-----------------------------------------------------------------------------
(* The initial state, no call and no request, satisfies the invariant.    *)
LEMMA InitIInv == Init => IInv
  BY CallAssumption DEF Init, IInv, TypeOK, Strength, TaskStates, Pcs, Results

(* Every step keeps the state well typed: one case per action.  Only the *)
(* history insert needs more than TypeOK: the ULID it reads was minted.   *)
LEMMA TypeStep == IInv /\ [Next]_vars => TypeOK'
  <1> SUFFICES ASSUME IInv, [Next]_vars PROVE TypeOK'
    OBVIOUS
  <1> USE CallAssumption DEF IInv, TypeOK, Return, Pcs, Results, TaskStates
  <1>1. ASSUME NEW u \in Users, NEW n \in Pcs, Request(u, n) PROVE TypeOK'
    <2>1. reqs' \in [Users -> 0..MaxReq]
      BY <1>1 DEF Request
    <2>2. pc' \in [Users -> Pcs] /\ res' \in [Users -> Results]
      <3>1. CASE Return(u, "Rejected")
        BY <3>1
      <3>2. CASE pc' = [pc EXCEPT ![u] = n] /\ res' = res
        BY <3>2
      <3>3. QED
        BY <1>1, <3>1, <3>2 DEF Request
    <2>3. QED
      BY <1>1, <2>1, <2>2 DEF Request
  <1>2. ASSUME NEW u \in Users, CreateGet(u) PROVE TypeOK'
    BY <1>2 DEF CreateGet
  <1>3. ASSUME NEW u \in Users, CreateSet(u) PROVE TypeOK'
    BY <1>3, CallType DEF CreateSet
  <1>4. ASSUME NEW u \in Users, CreateStore(u) PROVE TypeOK'
    <2>1. mint[u] \in CallIds /\ calls[mint[u]] \in ActiveCall
      BY <1>4 DEF CreateStore, Strength
    <2>2. QED
      BY <1>4, <2>1 DEF CreateStore, ActiveCall
  <1>5. ASSUME NEW u \in Users, LookupCall(u) PROVE TypeOK'
    BY <1>5, LookupResultType DEF LookupCall
  <1>6. ASSUME NEW i \in CallIds, HistoryTick(i) PROVE TypeOK'
    BY <1>6 DEF HistoryTick, ActiveCall
  <1>7. CASE UNCHANGED vars
    BY <1>7 DEF vars
  <1>8. QED
    BY <1>1, <1>2, <1>3, <1>4, <1>5, <1>6, <1>7
       DEF Next, Handler, StartCall, JoinCall, LeaveCall, EndCall, Pcs

(* Every step keeps the strengthening: one case per action that writes    *)
(* calls, the witness, a history document or a handler position.          *)
LEMMA StrengthStep == IInv /\ [Next]_vars => Strength'
  <1> SUFFICES ASSUME IInv, [Next]_vars PROVE Strength'
    OBVIOUS
  <1> USE CallAssumption DEF IInv, TypeOK, Return
  <1>1. ASSUME NEW u \in Users, NEW n \in Pcs \ {"start_store"}, Request(u, n)
        PROVE Strength'
    BY <1>1 DEF Request, Strength
  <1>2. ASSUME NEW u \in Users, CreateGet(u) PROVE Strength'
    BY <1>2 DEF CreateGet, Strength
  <1>3. ASSUME NEW u \in Users, CreateSet(u) PROVE Strength'
    <2>1. PICK i \in CallIds : /\ calls[i] = NoCall
                               /\ witness' = [id |-> i, members |-> <<u>>]
                               /\ calls' = [calls EXCEPT ![i] = witness']
                               /\ mint' = [mint EXCEPT ![u] = i]
      BY <1>3 DEF CreateSet
    <2>2. witness' \in ActiveCall
      BY <2>1, CallType
    <2>3. history[i] = NoCall
      BY <2>1 DEF Strength, ActiveCall
    <2>4. UNCHANGED history /\ pc' = [pc EXCEPT ![u] = "start_store"]
      BY <1>3 DEF CreateSet
    <2>5. (\A j \in CallIds :
              history'[j] # NoCall => calls'[j] \in ActiveCall /\ history'[j] = calls'[j].members)
      BY <2>1, <2>3, <2>4 DEF Strength
    <2>6. witness' # NoCall => calls'[witness'.id] = witness'
      BY <2>1, <2>2
    <2>7. \A v \in Users :
              pc'[v] = "start_store" => mint'[v] \in CallIds /\ calls'[mint'[v]] \in ActiveCall
      BY <1>3, <2>1, <2>2, <2>4 DEF CreateSet, Strength
    <2>8. QED
      BY <2>5, <2>6, <2>7 DEF Strength
  <1>4. ASSUME NEW u \in Users, CreateStore(u) PROVE Strength'
    <2> DEFINE i == mint[u]
    <2>1. i \in CallIds /\ calls[i] \in ActiveCall /\ pc[u] = "start_store"
      BY <1>4 DEF CreateStore, Strength
    <2>2. UNCHANGED <<witness, mint, calls>> /\ pc' = [pc EXCEPT ![u] = "idle"]
      BY <1>4 DEF CreateStore
    <2>3. \/ history' = [history EXCEPT ![i] = calls[i].members]
          \/ history' = history
      BY <1>4 DEF CreateStore
    <2>4. (\A j \in CallIds :
              history'[j] # NoCall => calls'[j] \in ActiveCall /\ history'[j] = calls'[j].members)
      BY <2>1, <2>2, <2>3 DEF Strength
    <2>5. witness' # NoCall => calls'[witness'.id] = witness'
      BY <2>2 DEF Strength
    <2>6. \A v \in Users :
              pc'[v] = "start_store" => mint'[v] \in CallIds /\ calls'[mint'[v]] \in ActiveCall
      BY <2>2 DEF Strength
    <2>7. QED
      BY <2>4, <2>5, <2>6 DEF Strength
  <1>5. ASSUME NEW u \in Users, LookupCall(u) PROVE Strength'
    BY <1>5 DEF LookupCall, Strength
  <1>6. ASSUME NEW i \in CallIds, HistoryTick(i) PROVE Strength'
    BY <1>6 DEF HistoryTick, Strength
  <1>7. CASE UNCHANGED vars
    BY <1>7 DEF vars, Strength
  <1>8. QED
    BY <1>1, <1>2, <1>3, <1>4, <1>5, <1>6, <1>7
       DEF Next, Handler, StartCall, JoinCall, LeaveCall, EndCall, Pcs

LEMMA IInvStep == IInv /\ [Next]_vars => IInv'
  BY TypeStep, StrengthStep DEF IInv

(* The coordinator's state is well typed in every reachable state.        *)
THEOREM TypeCorrect == Spec => []TypeOK
  BY InitIInv, IInvStep, PTL DEF Spec, IInv

(* Every history document holds the member list of its own call, however *)
(* creates race and history tasks interleave (Call::update is always      *)
(* given the id of the call it read).                                     *)
THEOREM HistoryMatchesCallHolds == Spec => []HistoryMatchesCall
  <1>1. IInv => HistoryMatchesCall
    BY DEF IInv, Strength, HistoryMatchesCall
  <1>2. QED
    BY <1>1, InitIInv, IInvStep, PTL DEF Spec
=============================================================================
