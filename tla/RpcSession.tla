----------------------------- MODULE RpcSession -----------------------------
(***************************************************************************)
(* The connection lifecycle of the rapid RPC server                        *)
(* (src/crates/rapid/src/socket.rs): per accepted connection, the read     *)
(* loop of start_client with handle_packet, the write pump that drains the *)
(* outbound channel, the heartbeat supervisor, and the process-wide        *)
(* registry `clients` (a DashMap from connection id to RpcClient).  Event  *)
(* fanout (emit_one, emit_all, emit_to_id) pushes frames onto the same     *)
(* outbound channels from other tasks.                                     *)
(*                                                                         *)
(* Time is not modelled: the heartbeat timeout may fire whenever no tick   *)
(* is queued, which over-approximates every value of HEARTBEAT_TIMEOUT.    *)
(* Inbound frames are chosen by the client, so each kind of frame is an    *)
(* action of the read loop; MaxFrames bounds how many a client sends.      *)
(***************************************************************************)
EXTENDS Naturals, Sequences

CONSTANTS
    Conns,      \* connections the listener accepts (model values)
    Users,      \* user identities the authenticator can return
    NoUser,     \* RpcClient.user = None
    MaxFrames,  \* frames one client sends before its stream ends
    MaxEmits,   \* fanout calls made by other connections' handlers
    WriteFaults \* a write to the peer's socket may fail

ASSUME ConstAssumption ==
    /\ NoUser \notin Users
    /\ MaxFrames \in Nat
    /\ MaxEmits \in Nat
    /\ WriteFaults \in BOOLEAN

(* Number of request ids minted per batch: `for _ in 0..20`.              *)
IdBatch == 20

(* The id field of a frame that carries none (RpcApiError has no id).    *)
NoId == 0

(* An outbound frame: its wire type, the request id it carries (NoId for  *)
(* none) and the kind of request it answers ("none" for Hello and events). *)
(* `answers` is history: it records which request a frame was sent for.  *)
FrameTypes == {"Hello", "Identify", "Heartbeat", "GetId", "Response", "Error", "Event"}
Frame == [type : FrameTypes, id : 0..MaxFrames, answers : {"Message", "Other", "none"}]

MkFrame(t, i, a) == [type |-> t, id |-> i, answers |-> a]

(* States of the read loop task of start_client.                          *)
(*  init     - connection not yet accepted                                *)
(*  refused  - accept_async failed, start_client returned                 *)
(*  read     - awaiting read.next()                                       *)
(*  auth     - in handle_packet, awaiting the authenticator (Identify)    *)
(*  handler  - in handle_packet, awaiting a registered method             *)
(*  reply    - handle_packet returned; about to look the client up again  *)
(*  done     - the read loop left `while let` and start_client returned   *)
(*  panic    - an unwrap/expect failed and the task died                  *)
ReadStates == {"init", "refused", "read", "auth", "handler", "reply", "done", "panic"}

(* States of the heartbeat supervisor task.                               *)
HbStates == {"idle", "waiting", "exited", "spinning"}

(* States of the write pump task.                                         *)
(* "failed": a socket write failed and the pump task panicked.           *)
PumpStates == {"idle", "running", "closed", "failed"}

VARIABLES
    rl,        \* read loop state per connection
    clients,   \* connection ids present in the registry DashMap
    user,      \* RpcClient.user of each registry entry
    pool,      \* RpcClient.request_ids: number of ids in the pool
    hb,        \* heartbeat supervisor state
    ticks,     \* ticks queued on the unbounded heartbeat channel
    chanOpen,  \* the outbound channel `s` is not closed
    backlog,   \* frames on the outbound channel the pump has not written
    pump,      \* write pump state
    frames,    \* frames read so far (also the id of a Message frame)
    resp,      \* the frame handle_packet produced, sent at line 310
    emits,     \* emit_one tasks spawned for this connection, not yet run
    nEmits     \* fanout calls made so far

vars == <<rl, clients, user, pool, hb, ticks, chanOpen, backlog, pump,
          frames, resp, emits, nEmits>>

TypeOK ==
    /\ rl \in [Conns -> ReadStates]
    /\ clients \subseteq Conns
    /\ user \in [Conns -> Users \cup {NoUser}]
    /\ pool \in [Conns -> Nat]
    /\ hb \in [Conns -> HbStates]
    /\ ticks \in [Conns -> Nat]
    /\ chanOpen \in [Conns -> BOOLEAN]
    /\ backlog \in [Conns -> Nat]
    /\ pump \in [Conns -> PumpStates]
    /\ frames \in [Conns -> 0..MaxFrames]
    /\ resp \in [Conns -> Frame]
    /\ emits \in [Conns -> Nat]
    /\ nEmits \in 0..MaxEmits

Init ==
    /\ rl = [c \in Conns |-> "init"]
    /\ clients = {}
    /\ user = [c \in Conns |-> NoUser]
    /\ pool = [c \in Conns |-> 0]
    /\ hb = [c \in Conns |-> "idle"]
    /\ ticks = [c \in Conns |-> 0]
    /\ chanOpen = [c \in Conns |-> FALSE]
    /\ backlog = [c \in Conns |-> 0]
    /\ pump = [c \in Conns |-> "idle"]
    /\ frames = [c \in Conns |-> 0]
    /\ resp = [c \in Conns |-> MkFrame("Error", NoId, "none")]
    /\ emits = [c \in Conns |-> 0]
    /\ nEmits = 0

-----------------------------------------------------------------------------
(* Helpers.                                                               *)

SetRl(c, s) == rl' = [rl EXCEPT ![c] = s]

(* clients.remove(&id) followed by client.socket.close() on the removed   *)
(* entry: the registry entry goes and its outbound channel is closed.     *)
RemoveAndClose(c) ==
    /\ clients' = clients \ {c}
    /\ chanOpen' = [chanOpen EXCEPT ![c] = FALSE]

(* handle_packet returns `r`; the read loop goes on to line 309.          *)
Respond(c, r) ==
    /\ resp' = [resp EXCEPT ![c] = r]
    /\ SetRl(c, "reply")

(* The client sends one more frame.                                       *)
ReadFrame(c) ==
    /\ rl[c] = "read"
    /\ frames[c] < MaxFrames
    /\ frames' = [frames EXCEPT ![c] = @ + 1]


-----------------------------------------------------------------------------
(* start_client, lines 247-252: accept_async fails and the task returns.  *)
AcceptFail(c) ==
    /\ rl[c] = "init"
    /\ SetRl(c, "refused")
    /\ UNCHANGED <<clients, user, pool, hb, ticks, chanOpen, backlog,
                   pump, frames, resp, emits, nEmits>>

(* Mutant of Accept: the early return after a failed handshake is lost   *)
(* and a refused connection goes on to register a session.               *)
AcceptAfterRefusal(c) ==
    /\ rl[c] \in {"init", "refused"}
    /\ SetRl(c, "read")
    /\ pump' = [pump EXCEPT ![c] = "running"]
    /\ chanOpen' = [chanOpen EXCEPT ![c] = TRUE]
    /\ backlog' = [backlog EXCEPT ![c] = 1]
    /\ hb' = [hb EXCEPT ![c] = "waiting"]
    /\ clients' = clients \cup {c}
    /\ user' = [user EXCEPT ![c] = NoUser]
    /\ pool' = [pool EXCEPT ![c] = IdBatch]
    /\ UNCHANGED <<ticks, frames, resp, emits, nEmits>>

(* start_client, lines 247-300: the write pump is spawned, 20 request ids *)
(* are minted, Hello is sent, the heartbeat supervisor is spawned and the *)
(* client is inserted into the registry.  No await can suspend between   *)
(* the Hello send (on an unbounded channel) and the insert.               *)
Accept(c) ==
    /\ rl[c] = "init"
    /\ SetRl(c, "read")
    /\ pump' = [pump EXCEPT ![c] = "running"]
    /\ chanOpen' = [chanOpen EXCEPT ![c] = TRUE]
    /\ backlog' = [backlog EXCEPT ![c] = 1]
    /\ hb' = [hb EXCEPT ![c] = "waiting"]
    /\ clients' = clients \cup {c}
    /\ user' = [user EXCEPT ![c] = NoUser]
    /\ pool' = [pool EXCEPT ![c] = IdBatch]
    /\ UNCHANGED <<ticks, frames, resp, emits, nEmits>>

(* Lines 301-304: read.next() yields None or an Err and the loop breaks; *)
(* start_client returns without touching the registry.                    *)
ReadEnd(c) ==
    /\ rl[c] = "read"
    /\ SetRl(c, "done")
    /\ UNCHANGED <<clients, user, pool, hb, ticks, chanOpen, backlog,
                   pump, frames, resp, emits, nEmits>>

(* Lines 312-314: a Close frame is only logged; the loop goes on reading *)
(* until the stream itself ends.                                          *)
ReadClose(c) ==
    /\ ReadFrame(c)
    /\ UNCHANGED <<rl, clients, user, pool, hb, ticks, chanOpen, backlog,
                   pump, resp, emits, nEmits>>

(* Mutant of ReadNonBinary: the entry is removed but the channel is not  *)
(* closed (client.socket.close() dropped).                                *)
ReadNonBinaryNoClose(c) ==
    /\ ReadFrame(c)
    /\ clients' = clients \ {c}
    /\ UNCHANGED <<rl, user, pool, hb, ticks, chanOpen, backlog, pump,
                   resp, emits, nEmits>>

(* Lines 315-320: a text, ping or pong frame removes the client and       *)
(* closes its channel, but the loop goes on reading.                      *)
ReadNonBinary(c) ==
    /\ ReadFrame(c)
    /\ \/ /\ c \in clients
          /\ RemoveAndClose(c)
       \/ /\ c \notin clients
          /\ UNCHANGED <<clients, chanOpen>>
    /\ UNCHANGED <<rl, user, pool, hb, ticks, backlog, pump, resp,
                   emits, nEmits>>

(* Lines 355, 396-398: a binary frame that does not decode as an          *)
(* RpcApiRequest is answered with an InvalidMethod error.                 *)
ReadUndecodable(c) ==
    /\ ReadFrame(c)
    /\ Respond(c, MkFrame("Error", NoId, "Other"))
    /\ UNCHANGED <<clients, user, pool, hb, ticks, chanOpen, backlog,
                   pump, emits, nEmits>>

(* Lines 360-361: Identify calls the authenticator and awaits it.        *)
ReadIdentify(c) ==
    /\ ReadFrame(c)
    /\ SetRl(c, "auth")
    /\ UNCHANGED <<clients, user, pool, hb, ticks, chanOpen, backlog,
                   pump, resp, emits, nEmits>>

(* Lines 361-364: the authenticator returns user u; clients.get_mut(..)  *)
(* .unwrap() panics if the client left the registry during the await;    *)
(* otherwise the user is stored, replacing any earlier one.               *)
AuthOk(c, u) ==
    /\ rl[c] = "auth"
    /\ \/ /\ c \in clients
          /\ user' = [user EXCEPT ![c] = u]
          /\ Respond(c, MkFrame("Identify", NoId, "Other"))
       \/ /\ c \notin clients
          /\ SetRl(c, "panic")
          /\ UNCHANGED <<user, resp>>
    /\ UNCHANGED <<clients, pool, hb, ticks, chanOpen, backlog, pump,
                   frames, emits, nEmits>>

(* Lines 365-367: the authenticator fails; the error is the reply.       *)
AuthFail(c) ==
    /\ rl[c] = "auth"
    /\ Respond(c, MkFrame("Error", NoId, "Other"))
    /\ UNCHANGED <<clients, user, pool, hb, ticks, chanOpen, backlog,
                   pump, frames, emits, nEmits>>

(* Lines 369-373: Heartbeat looks the client up (unwrap), queues a tick  *)
(* on its heartbeat channel and answers Heartbeat.                        *)
ReadHeartbeat(c) ==
    /\ ReadFrame(c)
    /\ \/ /\ c \in clients
          /\ ticks' = [ticks EXCEPT ![c] = @ + 1]
          /\ Respond(c, MkFrame("Heartbeat", NoId, "Other"))
       \/ /\ c \notin clients
          /\ SetRl(c, "panic")
          /\ UNCHANGED <<ticks, resp>>
    /\ UNCHANGED <<clients, user, pool, hb, chanOpen, backlog, pump,
                   emits, nEmits>>

(* Lines 374-383: GetId looks the client up (unwrap), appends 20 fresh   *)
(* ids to its pool and returns them.                                      *)
ReadGetId(c) ==
    /\ ReadFrame(c)
    /\ \/ /\ c \in clients
          /\ pool' = [pool EXCEPT ![c] = @ + IdBatch]
          /\ Respond(c, MkFrame("GetId", NoId, "Other"))
       \/ /\ c \notin clients
          /\ SetRl(c, "panic")
          /\ UNCHANGED <<pool, resp>>
    /\ UNCHANGED <<clients, user, hb, ticks, chanOpen, backlog, pump,
                   emits, nEmits>>

(* Lines 384-388: a Message naming no registered method is answered with *)
(* an InvalidMethod error that does not carry the request id.             *)
ReadUnknownMethod(c) ==
    /\ ReadFrame(c)
    /\ Respond(c, MkFrame("Error", NoId, "Message"))
    /\ UNCHANGED <<clients, user, pool, hb, ticks, chanOpen, backlog,
                   pump, emits, nEmits>>

(* Lines 384-389: a Message naming a registered method starts the        *)
(* handler and awaits it; the frame number stands for the request id.    *)
ReadMessage(c) ==
    /\ ReadFrame(c)
    /\ SetRl(c, "handler")
    /\ resp' = [resp EXCEPT ![c] = MkFrame("Response", frames'[c], "Message")]
    /\ UNCHANGED <<clients, user, pool, hb, ticks, chanOpen, backlog,
                   pump, emits, nEmits>>

(* Lines 389-393: the handler future completes.  A handler may also     *)
(* never complete (ActiveCall::get_token awaits with no timeout).         *)
HandlerDone(c) ==
    /\ rl[c] = "handler"
    /\ SetRl(c, "reply")
    /\ UNCHANGED <<clients, user, pool, hb, ticks, chanOpen, backlog,
                   pump, frames, resp, emits, nEmits>>

(* Lines 309-310: clients.get(&id).unwrap() panics if the client left the *)
(* registry meanwhile; RpcClient::send (lines 31-38) expects the channel  *)
(* to accept the frame.                                                   *)
Reply(c) ==
    /\ rl[c] = "reply"
    /\ \/ /\ c \in clients
          /\ chanOpen[c]
          /\ backlog' = [backlog EXCEPT ![c] = @ + 1]
          /\ SetRl(c, "read")
       \/ /\ \/ c \notin clients
             \/ ~chanOpen[c]
          /\ SetRl(c, "panic")
          /\ UNCHANGED backlog
    /\ UNCHANGED <<clients, user, pool, hb, ticks, chanOpen, pump,
                   frames, resp, emits, nEmits>>

-----------------------------------------------------------------------------
(* Heartbeat supervisor, lines 281-292.                                   *)

(* Mutant of HbTick: the tick is consumed without checking one is queued. *)
HbTickUnguarded(c) ==
    /\ hb[c] = "waiting"
    /\ ticks' = [ticks EXCEPT ![c] = @ - 1]
    /\ UNCHANGED <<rl, clients, user, pool, hb, chanOpen, backlog, pump,
                   frames, resp, emits, nEmits>>

(* rx.recv() returns a queued tick before the timeout; the loop goes on. *)
HbTick(c) ==
    /\ hb[c] = "waiting"
    /\ ticks[c] > 0
    /\ ticks' = [ticks EXCEPT ![c] = @ - 1]
    /\ UNCHANGED <<rl, clients, user, pool, hb, chanOpen, backlog, pump,
                   frames, resp, emits, nEmits>>

(* Mutant of HbTimeout: only sessions that identified are timed out.     *)
HbTimeoutIdentifiedOnly(c) ==
    /\ hb[c] = "waiting"
    /\ ticks[c] = 0
    /\ c \in clients
    /\ user[c] # NoUser
    /\ RemoveAndClose(c)
    /\ hb' = [hb EXCEPT ![c] = "exited"]
    /\ UNCHANGED <<rl, user, pool, ticks, backlog, pump, frames, resp,
                   emits, nEmits>>

(* No tick arrives within HEARTBEAT_TIMEOUT while the sender (held by the *)
(* registry entry) lives: the supervisor removes the client, closes its  *)
(* channel and exits.                                                     *)
HbTimeout(c) ==
    /\ hb[c] = "waiting"
    /\ ticks[c] = 0
    /\ c \in clients
    /\ RemoveAndClose(c)
    /\ hb' = [hb EXCEPT ![c] = "exited"]
    /\ UNCHANGED <<rl, user, pool, ticks, backlog, pump, frames, resp,
                   emits, nEmits>>

(* The registry entry, and with it the only heartbeat sender, was dropped *)
(* by another task: rx.recv() fails at once, future::timeout returns     *)
(* Ok(Err(..)), `is_ok()` holds and the loop polls again forever without *)
(* ever removing anything or yielding.                                    *)
HbSpin(c) ==
    /\ hb[c] = "waiting"
    /\ ticks[c] = 0
    /\ c \notin clients
    /\ hb' = [hb EXCEPT ![c] = "spinning"]
    /\ UNCHANGED <<rl, clients, user, pool, ticks, chanOpen, backlog,
                   pump, frames, resp, emits, nEmits>>

-----------------------------------------------------------------------------
(* Write pump, lines 255-260.                                             *)

(* r.recv() yields the next queued frame, which is written to the socket. *)
PumpWrite(c) ==
    /\ pump[c] = "running"
    /\ backlog[c] > 0
    /\ backlog' = [backlog EXCEPT ![c] = @ - 1]
    /\ UNCHANGED <<rl, clients, user, pool, hb, ticks, chanOpen, pump, frames,
                   resp, emits, nEmits>>

(* Line 257: writing the frame just received fails (the peer reset the   *)
(* connection) and the expect panics the pump.  Its receiver is dropped  *)
(* with it, the last one, so the outbound channel closes while the       *)
(* session is still registered; the frame is lost.                        *)
PumpFail(c) ==
    /\ WriteFaults
    /\ pump[c] = "running"
    /\ backlog[c] > 0
    /\ backlog' = [backlog EXCEPT ![c] = @ - 1]
    /\ pump' = [pump EXCEPT ![c] = "failed"]
    /\ chanOpen' = [chanOpen EXCEPT ![c] = FALSE]
    /\ UNCHANGED <<rl, clients, user, pool, hb, ticks, frames, resp, emits,
                   nEmits>>

(* The channel is closed and drained: r.recv() fails, the socket is      *)
(* closed and the pump exits.                                             *)
PumpClose(c) ==
    /\ pump[c] = "running"
    /\ ~chanOpen[c]
    /\ backlog[c] = 0
    /\ pump' = [pump EXCEPT ![c] = "closed"]
    /\ UNCHANGED <<rl, clients, user, pool, hb, ticks, chanOpen, backlog,
                   frames, resp, emits, nEmits>>

-----------------------------------------------------------------------------
(* Event fanout.                                                          *)

(* emit_to_id (methods/mod.rs 304-312) walks the registry and spawns one  *)
(* emit_one task for every client whose user has id u; emit_all (socket.rs *)
(* 412-416) does so for every client.  `targets` is the set selected.     *)
Fanout(targets) ==
    /\ nEmits < MaxEmits
    /\ nEmits' = nEmits + 1
    /\ emits' = [c \in Conns |-> IF c \in targets THEN emits[c] + 1 ELSE emits[c]]
    /\ UNCHANGED <<rl, clients, user, pool, hb, ticks, chanOpen, backlog,
                   pump, frames, resp>>

EmitToId(u) == Fanout({c \in clients : user[c] = u})

EmitAll == Fanout(clients)

(* Mutant of EmitSend: the spawned task sends through a stale handle that  *)
(* still accepts frames after the session was evicted.                    *)
EmitSendUnchecked(c) ==
    /\ emits[c] > 0
    /\ emits' = [emits EXCEPT ![c] = @ - 1]
    /\ backlog' = [backlog EXCEPT ![c] = @ + 1]
    /\ UNCHANGED <<rl, clients, user, pool, hb, ticks, chanOpen, pump,
                   frames, resp, nEmits>>

(* A spawned emit_one task (socket.rs 417-423) runs: it sends on its clone *)
(* of the channel; on a closed channel the send fails and is ignored.     *)
EmitSend(c) ==
    /\ emits[c] > 0
    /\ emits' = [emits EXCEPT ![c] = @ - 1]
    /\ \/ /\ chanOpen[c]
          /\ backlog' = [backlog EXCEPT ![c] = @ + 1]
       \/ /\ ~chanOpen[c]
          /\ UNCHANGED backlog
    /\ UNCHANGED <<rl, clients, user, pool, hb, ticks, chanOpen, pump,
                   frames, resp, nEmits>>

-----------------------------------------------------------------------------
Connection(c) ==
    \/ AcceptFail(c) \/ Accept(c)
    \/ ReadEnd(c) \/ ReadClose(c) \/ ReadNonBinary(c) \/ ReadUndecodable(c)
    \/ ReadIdentify(c) \/ \E u \in Users : AuthOk(c, u) \/ AuthFail(c)
    \/ ReadHeartbeat(c) \/ ReadGetId(c) \/ ReadUnknownMethod(c)
    \/ ReadMessage(c) \/ HandlerDone(c) \/ Reply(c)

Supervisor(c) == HbTick(c) \/ HbTimeout(c) \/ HbSpin(c)

WritePump(c) == PumpWrite(c) \/ PumpClose(c)

Next ==
    \/ \E c \in Conns : Connection(c) \/ Supervisor(c) \/ WritePump(c) \/ EmitSend(c)
    \/ \E c \in Conns : PumpFail(c)
    \/ \E u \in Users : EmitToId(u)
    \/ EmitAll

(* The runtime keeps polling the supervisor, pump and emit tasks, and the *)
(* timer of future::timeout fires; client behaviour and handlers are not *)
(* fair: a client may stop sending and a handler may hang.                *)
Fairness ==
    \A c \in Conns :
        /\ WF_vars(Supervisor(c))
        /\ WF_vars(WritePump(c))
        /\ WF_vars(EmitSend(c))

Spec == Init /\ [][Next]_vars

FairSpec == Spec /\ Fairness


-----------------------------------------------------------------------------
(* Properties.                                                            *)

(* The connection was accepted and its tasks were started.                *)
Accepted(c) == rl[c] \notin {"init", "refused"}

(* Registry, channel and pump stay coupled across the four tasks that     *)
(* touch them (read loop, heartbeat supervisor, write pump, accept): a     *)
(* registered session always has a live supervisor waiting on its         *)
(* heartbeat channel, so it can always be evicted; an accepted            *)
(* connection's outbound channel is open only while its session is        *)
(* registered; and a registered session's channel is closed only after    *)
(* its write pump died on a failed write, the one case in which           *)
(* RpcClient::send at socket.rs:310 finds a closed channel.               *)
RegistryConsistent ==
    \A c \in Conns :
        /\ c \in clients => Accepted(c) /\ hb[c] = "waiting"
        /\ Accepted(c) /\ chanOpen[c] => c \in clients
        /\ c \in clients /\ ~chanOpen[c] => pump[c] = "failed"

(* Once a session has left the registry (heartbeat timeout or a           *)
(* non-binary frame), no frame is ever queued for its connection again:   *)
(* neither a late reply of its read loop nor an event of a fanout that    *)
(* selected it before the eviction (spec section 8, property 8).          *)
SilentAfterEviction ==
    [][\A c \in Conns : Accepted(c) /\ c \notin clients => backlog'[c] <= backlog[c]]_vars

(* A connection whose read loop has ended (stream closed, read error or a *)
(* panic) eventually loses its registry entry, and its write pump ends,   *)
(* closing the socket or dying on a failed write: sessions of dead        *)
(* connections do not leak.                                               *)
EvictionEventually ==
    \A c \in Conns :
        rl[c] \in {"done", "panic"}
            ~> (c \notin clients /\ pump[c] \in {"closed", "failed"})

(* The read loop of a connection never dies on an unwrap or expect: a     *)
(* handler failure is answered, it does not escape (spec section 4.5).    *)
NoPanic == \A c \in Conns : rl[c] # "panic"

(* The heartbeat supervisor of a connection never ends up polling a       *)
(* disconnected channel forever (socket.rs:282-288).                      *)
SupervisorNeverSpins == \A c \in Conns : hb[c] # "spinning"


-----------------------------------------------------------------------------
(* Refinement.  The phase of a connection's session in SessionRegistry:   *)
(* new until start_client gets past the handshake, gone if the handshake *)
(* failed, then live exactly while the registry holds its entry.          *)
SessionOf(c) ==
    IF rl[c] = "init" THEN "new"
    ELSE IF rl[c] = "refused" \/ c \notin clients THEN "gone"
    ELSE "live"

Abs == INSTANCE SessionRegistry
           WITH session <- [c \in Conns |-> SessionOf(c)],
                owner <- user,
                out <- backlog

(* The session layer keeps the promises of SessionRegistry: a connection  *)
(* is registered at most once and never after its handshake failed, is   *)
(* never registered again once evicted, a user is bound only while the    *)
(* session is registered, and the read loop, the supervisor, the pump and *)
(* the emit_one tasks together queue frames only for registered sessions. *)
RegistrySpec == Abs!SSpec

(* Spec section 3: the user handle of a session is set at most once.  A  *)
(* second Identify on an identified connection (socket.rs:363) must not   *)
(* rebind the session to another user.                                    *)
UserBoundOnce ==
    [][\A c \in Conns : user[c] # NoUser => user'[c] = user[c]]_vars

=============================================================================
