--------------------------- MODULE CallCoordinator ---------------------------
(***************************************************************************)
(* The voice-call coordinator of harmony for one (space, channel) pair:    *)
(* the startCall, joinCall, leaveCall and endCall handlers                 *)
(* (src/crates/harmony/src/methods/webrtc.rs) over ActiveCall              *)
(* (src/crates/harmony/src/services/webrtc.rs), the redis value under      *)
(* call:{space}:{channel}, the call history documents in MongoDB and the   *)
(* history task create spawns for each call.                               *)
(*                                                                         *)
(* Each user issues requests from its own connection; the read loop runs   *)
(* one handler at a time, so a user has at most one handler in flight,     *)
(* and handlers of different users interleave at every await.  The store  *)
(* is healthy (no redis error); a MongoDB write may fail.                  *)
(*                                                                         *)
(* get_in_channel reads call:{space}:{channel} as a String.  The only      *)
(* value the program ever stores there is an encoded ActiveCall, which is  *)
(* not UTF-8, so every lookup of an existing call fails; the code that     *)
(* follows a successful lookup (join_user, get_token, leave_user, end)     *)
(* cannot run and is not part of this model.                               *)
(***************************************************************************)
EXTENDS Naturals, Sequences

CONSTANTS
    Users,     \* users with a connection, each allowed in the channel or not
    CallIds,   \* ULIDs create may mint
    NoCall,    \* no value under a redis key / no history document
    MaxReq     \* requests one user issues

ASSUME CallAssumption ==
    /\ NoCall \notin [id : CallIds, members : Seq(Users)]
    /\ NoCall \notin Seq(Users)
    /\ MaxReq \in Nat

(* An ActiveCall value (id, members; name, space and channel are fixed).  *)
ActiveCall == [id : CallIds, members : Seq(Users)]

(* encryption::serialize writes a struct as a MessagePack map of its      *)
(* fields (with_struct_map); ActiveCall has five fields, so its encoding  *)
(* starts with the fixmap byte 0x80 + 5.                                   *)
NFields == 5
EncodedFirstByte(v) == 128 + NFields

(* A byte that can begin a UTF-8 sequence (ASCII or a lead byte).        *)
Utf8Lead(b) == b < 128 \/ (194 <= b /\ b <= 244)

(* Outcome of ActiveCall::get_in_channel for the stored value `v`.        *)
(* Absent: Ok(None).  Present: redis converts the bytes to String, which  *)
(* fails unless they are UTF-8; were they, the call:{id} lookup that      *)
(* follows would find nothing, as only ActiveCall::update writes it.      *)
GetInChannel(v) ==
    IF v = NoCall THEN "none"
    ELSE IF Utf8Lead(EncodedFirstByte(v)) THEN "none"
    ELSE "decode_error"

(* Where a user's handler is.                                             *)
(*  idle       - no request in flight                                     *)
(*  start_get  - create awaits get_in_channel                             *)
(*  start_set  - create awaits SET call:{space}:{channel}                 *)
(*  start_store- create awaits the insert of the history document         *)
(*  join, leave, end - the handler awaits get_in_channel                  *)
Pcs == {"idle", "start_get", "start_set", "start_store", "join", "leave", "end"}

(* What the last handler of a user returned.                              *)
Results == {"none", "Ok", "Rejected", "NotFound", "DecodeError", "DbError"}

(* States of the history task spawned by create for a call.              *)
TaskStates == {"none", "running", "exited", "panicked"}

VARIABLES
    witness,   \* the value under call:{space}:{channel}
    history,   \* joined_members of the Call document of each call id
    task,      \* the history task of each call id
    pc,        \* position of each user's handler
    mint,      \* the ULID create minted for the user's pending request
    calls,     \* the ActiveCall create built under each ULID (NoCall: not minted)
    res,       \* what each user's last handler returned
    reqs,      \* requests each user has issued
    started    \* ids of calls whose startCall returned Ok (history only)

vars == <<witness, history, task, pc, mint, calls, res, reqs, started>>

TypeOK ==
    /\ witness \in ActiveCall \cup {NoCall}
    /\ history \in [CallIds -> Seq(Users) \cup {NoCall}]
    /\ task \in [CallIds -> TaskStates]
    /\ pc \in [Users -> Pcs]
    /\ mint \in [Users -> CallIds \cup {NoCall}]
    /\ calls \in [CallIds -> ActiveCall \cup {NoCall}]
    /\ res \in [Users -> Results]
    /\ reqs \in [Users -> 0..MaxReq]
    /\ started \subseteq CallIds

Init ==
    /\ witness = NoCall
    /\ history = [i \in CallIds |-> NoCall]
    /\ task = [i \in CallIds |-> "none"]
    /\ pc = [u \in Users |-> "idle"]
    /\ mint = [u \in Users |-> NoCall]
    /\ calls = [i \in CallIds |-> NoCall]
    /\ res = [u \in Users |-> "none"]
    /\ reqs = [u \in Users |-> 0]
    /\ started = {}

(* The handler returns `r` to the read loop.                              *)
Return(u, r) ==
    /\ pc' = [pc EXCEPT ![u] = "idle"]
    /\ res' = [res EXCEPT ![u] = r]

-----------------------------------------------------------------------------
(* A handler starts: check_authenticated, the space_id, space membership  *)
(* and the channel permission are checked first; any of them may reject.  *)
(* `next` is where the handler goes once the checks pass.                 *)
Request(u, next) ==
    /\ pc[u] = "idle"
    /\ reqs[u] < MaxReq
    /\ reqs' = [reqs EXCEPT ![u] = @ + 1]
    /\ \/ Return(u, "Rejected")
       \/ /\ pc' = [pc EXCEPT ![u] = next]
          /\ UNCHANGED res
    /\ UNCHANGED <<witness, history, task, mint, calls, started>>

(* start_call, methods/webrtc.rs 75-97, up to ActiveCall::create.         *)
StartCall(u) == Request(u, "start_get")

(* join_call, methods/webrtc.rs 33-55.                                    *)
JoinCall(u) == Request(u, "join")

(* leave_call, methods/webrtc.rs 158-166: only check_authenticated.       *)
LeaveCall(u) == Request(u, "leave")

(* end_call, methods/webrtc.rs 115-137.                                   *)
EndCall(u) == Request(u, "end")

(* create, services/webrtc.rs 191-195: get_in_channel; an error or an     *)
(* existing call returns early.                                           *)
CreateGet(u) ==
    /\ pc[u] = "start_get"
    /\ IF GetInChannel(witness) = "none"
         THEN /\ pc' = [pc EXCEPT ![u] = "start_set"]
              /\ UNCHANGED res
         ELSE Return(u, "DecodeError")
    /\ UNCHANGED <<witness, history, task, mint, calls, reqs, started>>

(* create, 196-209: mint a ULID, build the call with the initiator as     *)
(* its only member and SET it under call:{space}:{channel}, overwriting   *)
(* whatever is there.                                                     *)
CreateSet(u) ==
    /\ pc[u] = "start_set"
    /\ \E i \in {j \in CallIds : calls[j] = NoCall} :
          LET call == [id |-> i, members |-> <<u>>] IN
          /\ witness' = call
          /\ calls' = [calls EXCEPT ![i] = call]
          /\ mint' = [mint EXCEPT ![u] = i]
    /\ pc' = [pc EXCEPT ![u] = "start_store"]
    /\ UNCHANGED <<history, task, res, reqs, started>>

(* create, 210-241: insert the history document; on success spawn the     *)
(* history task and return the call; on failure return the error, leaving *)
(* the value under call:{space}:{channel} in place.                       *)
CreateStore(u) ==
    /\ pc[u] = "start_store"
    /\ LET i == mint[u] IN
       \/ /\ history' = [history EXCEPT ![i] = calls[i].members]
          /\ task' = [task EXCEPT ![i] = "running"]
          /\ started' = started \cup {i}
          /\ Return(u, "Ok")
       \/ /\ Return(u, "DbError")
          /\ UNCHANGED <<history, task, started>>
    /\ UNCHANGED <<witness, mint, calls, reqs>>

(* Mutant of LookupCall: the handler hands get_in_channel's outcome back *)
(* as it is instead of answering NotFound for an absent call.            *)
LookupCallRaw(u) ==
    /\ pc[u] \in {"join", "leave", "end"}
    /\ Return(u, IF GetInChannel(witness) = "none" THEN "none" ELSE "decode_error")
    /\ UNCHANGED <<witness, history, task, mint, calls, reqs, started>>

(* join_call 55-62, leave_call 166-175, end_call 137-143: get_in_channel; *)
(* absent answers NotFound, and an error is returned as it is.            *)
LookupCall(u) ==
    /\ pc[u] \in {"join", "leave", "end"}
    /\ Return(u, IF GetInChannel(witness) = "none" THEN "NotFound" ELSE "DecodeError")
    /\ UNCHANGED <<witness, history, task, mint, calls, reqs, started>>

(* Mutant of HistoryTick: the task writes the members it reads into the  *)
(* document of the call that spawned it instead of the call it read.      *)
HistoryTickOwnId(i) ==
    /\ task[i] = "running"
    /\ IF witness = NoCall
         THEN /\ task' = [task EXCEPT ![i] = "exited"]
              /\ UNCHANGED history
         ELSE \/ /\ history' = [history EXCEPT ![i] = witness.members]
                 /\ UNCHANGED task
              \/ /\ task' = [task EXCEPT ![i] = "panicked"]
                 /\ UNCHANGED history
    /\ UNCHANGED <<witness, pc, mint, calls, res, reqs, started>>

(* One round of the history task of call `i`, services/webrtc.rs 221-238: *)
(* read call:{space}:{channel} as an ActiveCall; absent ends the task,    *)
(* otherwise Call::update writes that call's members into the document    *)
(* with that call's id, and a failed update panics the task (unwrap).     *)
HistoryTick(i) ==
    /\ task[i] = "running"
    /\ IF witness = NoCall
         THEN /\ task' = [task EXCEPT ![i] = "exited"]
              /\ UNCHANGED history
         ELSE \/ /\ history' = IF history[witness.id] = NoCall THEN history
                               ELSE [history EXCEPT ![witness.id] = witness.members]
                 /\ UNCHANGED task
              \/ /\ task' = [task EXCEPT ![i] = "panicked"]
                 /\ UNCHANGED history
    /\ UNCHANGED <<witness, pc, mint, calls, res, reqs, started>>

-----------------------------------------------------------------------------
Handler(u) ==
    \/ StartCall(u) \/ JoinCall(u) \/ LeaveCall(u) \/ EndCall(u)
    \/ CreateGet(u) \/ CreateSet(u) \/ CreateStore(u) \/ LookupCall(u)

Next ==
    \/ \E u \in Users : Handler(u)
    \/ \E i \in CallIds : HistoryTick(i)

Spec == Init /\ [][Next]_vars

-----------------------------------------------------------------------------
(* Properties.                                                            *)

(* The history document of a call only ever holds that call's own member *)
(* list: the history tasks of calls that lost a create race read the      *)
(* winner from call:{space}:{channel} and must write it under the         *)
(* winner's id (Call::update(&active_call.id, ...)), never under their    *)
(* own.                                                                   *)
HistoryMatchesCall ==
    \A i \in CallIds : history[i] # NoCall => history[i] = calls[i].members

(* Spec 3 and 8.5: at most one active call per (space, channel); two      *)
(* concurrent creates give one success and one AlreadyExists.  Every call *)
(* whose startCall succeeded and that has not ended (its witness is still *)
(* there) is the call the witness names.  create reads the key at line    *)
(* 192 and writes it at line 203 in two separate awaits.                  *)
LiveCallsWitnessed ==
    \A i \in started : witness # NoCall => witness.id = i

(* Spec 4.9 and scenario S3: after startCall, joinCall, leaveCall and     *)
(* endCall find the call through get_in_channel.  No handler fails to     *)
(* decode what the store holds.                                           *)
CallLookupSucceeds == \A u \in Users : res[u] # "DecodeError"

(* Spec 3: an active call is indexed by its witness and has a history     *)
(* record from creation on.  Once no create is between its SET and its    *)
(* history insert, the call the witness names has a history document;    *)
(* create returns at line 217 when the insert fails and leaves the        *)
(* witness of a call nobody started.                                      *)
WitnessHasHistory ==
    (witness # NoCall /\ \A u \in Users : pc[u] # "start_store")
        => history[witness.id] # NoCall

=============================================================================
