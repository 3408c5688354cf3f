# Formal models of harmony

TLA+ models of the harmony chat server and of its RPC transport `rapid`.
The models sit beside the Rust sources under `src/`. TLC checks them on small
instances, and TLAPS proves the main invariants for every instance.

## 1. The system

| Part | Source | State it keeps | Operations |
|---|---|---|---|
| Frame router | `crates/rapid/src/socket.rs` `start_client`, `handle_packet` | per connection: read-loop position, frames read | accept, read a binary / non-binary / close frame, stream end or error; Identify, Heartbeat, GetId, Message dispatch; reply |
| Session registry | `socket.rs` `RpcClient`, `clients: DashMap` | id → (outbound sender, user, request-id pool, heartbeat sender) | insert on accept; `remove` by the supervisor and by the non-binary path; `get`/`get_mut` + `unwrap` after awaits |
| Heartbeat supervisor | `socket.rs` 278-292 | one spawned task per connection | loop `timeout(HEARTBEAT_TIMEOUT, rx.recv())` while `is_ok()`, then remove and close |
| Write pump | `socket.rs` 254-260 | unbounded outbound channel | write each frame; close the socket when the channel closes |
| Event fanout | `socket.rs` `emit_all`, `emit_one`; `methods/mod.rs` `emit_to_id` | spawned send tasks | select targets in the registry, spawn a send onto each target's channel |
| Method registry | `socket.rs` `register`, `Handler` | name → erased handler | decode the arguments, await the handler, encode the result |
| Call coordinator | `harmony/src/services/webrtc.rs` `ActiveCall`; `methods/webrtc.rs` | redis `call:{space}:{channel}`, `call:{id}`; MongoDB `Call` history | start (create), join (join_user + get_token), leave (leave_user, end when empty), end; a history task every 30 s |
| Pending requests | `harmony/src/request.rs`, `REQUESTS` | key `{call}:{session}` → `Request` (data, Notify) | insert and wait in `get_token`; `set` on the media node's `UserCreate` |
| Media-node directory | `services/webrtc.rs` `AVAILABLE_NODES`, sweeper | node id → last ping | Description inserts if absent, Ping refreshes, Disconnect removes, the sweeper evicts after 10 s every 1 s |
| Friend graph | `services/database/users.rs` `add_friend`, `remove_friend` | per user: affinities (Requested, Pending, Friend, Blocked) | two document updates per operation, decided from the affinities loaded earlier |
| Ids and codec | `services/encryption.rs` | none (pure) | `generate` (rejection sampling over random bytes), `encode`/`decode` (zlib, AES-GCM with a nonce prefix) |

How the parts interact:

* Each accepted connection runs three tasks that share its registry entry:
  * the read loop;
  * the write pump;
  * the heartbeat supervisor.
* Handlers run inside the read loop, one request at a time. A handler that
  awaits stops that connection's heartbeats from being read.
* Fanout is called from handlers of *other* connections. It reaches a
  target only through that target's registry entry and outbound channel.
* The call coordinator's `get_token` publishes to the media nodes. It then
  waits for the pub/sub task to resolve the matching `REQUESTS` entry.

### Hard behaviours

* **Removal during an await.** The registry entry can be removed while the
  read loop awaits a handler or the authenticator. The loop then does
  `clients.get(&id).unwrap()` (socket.rs 309, 362, 370, 375).
* **Spinning supervisor.** The supervisor's loop condition is also true when
  every heartbeat sender is gone (`Ok(Err(RecvError))`). It then spins
  instead of timing out (socket.rs 282-288).
* **Late fanout sends.** A send spawned by fanout may run after its target
  was evicted.
* **Failed socket write.** A failed write panics the write pump (socket.rs
  257). The pump held the outbound channel's only receiver, so the channel
  closes while the session is still registered. The read loop's next reply
  then panics in `RpcClient::send` (socket.rs 38).
* **Create race.** Concurrent startCall requests race on one redis key:
  `create`'s check and its write are separate awaits.
* **Undecodable witness.** Every lookup of an existing call fails to decode
  the stored value. The join/leave/end continuations, and the `REQUESTS`
  rendezvous behind them, are therefore unreachable (see section 5).
* **Stale friend snapshot.** Friend requests decide from a stale snapshot
  and write two documents separately.

### Properties of each part

* **Registry.**
  * A registered session has a live supervisor.
  * An accepted connection's channel is open only while it is registered.
  * A registered session's channel is closed only after its pump died on a
    failed write.
  * The session layer implements the abstract `SessionRegistry`: a session
    is registered once, never after a failed handshake or an eviction, and
    users are bound and frames queued only while it is registered.
  * Nothing is queued for an evicted session.
  * Every ended connection is eventually evicted and its pump ended.
  * The read loop never panics.
  * The supervisor never spins.
  * The user is set at most once (spec section 3).
  * Every response to a Message carries its id (not checked: the
    unknown-method error is built without one on a single path).
  * A session is registered only while its read loop runs (not checked:
    the loop breaks without removing it, and `EvictionEventually` checks
    that the supervisor still does).
* **Call coordinator.**
  * At most one call per channel.
  * A call's members are exactly those who joined and did not leave.
  * An empty call ends.
  * A join is answered once the media node answers.
* **Node directory.**
  * A node whose last ping is over 10 s old is gone within 1100 ms (spec 8.9).
  * A node within 10 s of its last ping is never swept.
  * A node that keeps running and pinging stays, or comes back, in the
    directory.
* **Friend graph.**
  * Between requests, affinities mirror each other: none on both sides,
    Requested on one side and Pending on the other, or Friend on both.
  * There is at most one affinity per pair.
  * Both hold for every pair except one whose second update failed.
  * For a client that waits for each answer, each request is atomic. It is
    decided on the affinities as they are when it takes effect, and it
    changes both documents at once. A failed second update only takes back
    the friend's side of that request.

## 2. Modules

| Module | Models | Status |
|---|---|---|
| `RpcSession` | frame router, registry, supervisor, write pump, fanout | done |
| `MC_RpcSession` | model values and symmetry for `RpcSession` | done |
| `RpcSessionProofs` | TLAPS proofs about `RpcSession` | done |
| `CallCoordinator` | the four call handlers up to their lookup, `create`, the history task | done (reachable part) |
| `MC_CallCoordinator` | model values and symmetry for `CallCoordinator` | done |
| `CallCoordinatorProofs` | TLAPS proofs about `CallCoordinator` | done |
| `NodeDirectory` | `AVAILABLE_NODES`, the bus consumer and the sweeper on a clock of ticks | done |
| `MC_NodeDirectory` | model values and symmetry for `NodeDirectory` | done |
| `NodeDirectoryProofs` | TLAPS proofs about `NodeDirectory` | done |
| `FriendOps` | relationships, `find`, the decisions of `add_friend`/`remove_friend` and what each update does to one side | done |
| `FriendGraph` | affinities, addFriend/addFriendByUsername/removeFriend with their load and two updates | done |
| `FriendLedger` | what a serial client sees: atomic add and remove, and the loss of a friend-side update; `FriendGraph` implements it | done |
| `MC_FriendGraph` | model values and symmetry for `FriendGraph` | done |
| `FriendGraphProofs` | TLAPS proof of `QuiescentMirrored` under serial requests | done |
| `FriendLedgerProofs` | TLAPS proof that `FriendGraph` implements `FriendLedger` under serial requests | done |
| `SessionRegistry` | what the registry promises: sessions opened, bound, fed and evicted; `RpcSession` implements it | done |

### `RpcSession`: state and actions

State, per connection `c`:

| Variable | What it models |
|---|---|
| `rl[c]` | where the read loop is: `init`, `refused`, `read`, `auth`, `handler`, `reply`, `done`, `panic` (an `unwrap`/`expect` failed and the task died) |
| `clients` | the registry keys |
| `user[c]` | `RpcClient.user` |
| `pool[c]` | the number of request ids |
| `hb[c]` | the supervisor: `waiting`, `exited`, `spinning` |
| `ticks[c]` | heartbeats queued on its channel |
| `chanOpen[c]` | whether the outbound channel is still open |
| `backlog[c]` | frames on that channel the pump has not written |
| `pump[c]` | the write pump's state |
| `frames[c]` | frames read; a Message frame's id is this count |
| `resp[c]` | the frame `handle_packet` returned, with the id it carries and what it answers |
| `emits[c]` | spawned `emit_one` tasks still pending |
| `nEmits` | fanout calls so far |

The constant `WriteFaults` says whether a write to the peer's socket may
fail.

Actions:

* Each read-loop action is one arm of `start_client`/`handle_packet`: `Accept`,
  `AcceptFail`, `ReadEnd`, `ReadClose`, `ReadNonBinary`, `ReadUndecodable`,
  `ReadIdentify` + `AuthOk`/`AuthFail`, `ReadHeartbeat`, `ReadGetId`,
  `ReadUnknownMethod`, `ReadMessage` + `HandlerDone`, and `Reply`.
* An await splits an arm into two actions, so other tasks can run in
  between.
* Every `unwrap` of a missing registry entry leads to `panic`.
* The supervisor has three actions:
  * `HbTick` consumes a tick;
  * `HbTimeout` fires when no tick is queued and the entry is present;
  * `HbSpin` fires when no tick is queued and the entry is gone. It is the
    channel-closed case, where `recv` fails at once.
* The write pump has `PumpWrite` and `PumpClose`, and, when
  `WriteFaults` holds, `PumpFail`: the write of the frame just received
  fails, the pump panics and the channel closes.
* Fanout has `EmitToId(u)` and `EmitAll`, which spawn sends, and
  `EmitSend(c)`, which runs one spawned send.

Abstractions:

* Time is not modelled: the heartbeat timeout may fire whenever no tick is
  queued. This covers every value of `HEARTBEAT_TIMEOUT`.
* Frame contents are reduced to their kind and id.
* Request ids in the pool are counted, not named.

### `SessionRegistry` and the refinement

`SessionRegistry` is the abstract specification of the session layer. It
has no tasks, channels or heartbeats. Per connection it keeps:

* `session[c]`: `new`, `live` or `gone`;
* `owner[c]`: the bound user;
* `out[c]`: the frames queued and not yet written.

Its actions are:

* `Refuse`: a new connection fails its handshake;
* `Open`: registration with no user, and Hello queued;
* `Bind`: a user is bound to a live session;
* `Enqueue`: a frame is queued for a live session;
* `Drain`: one queued frame is written, in any phase;
* `Evict`: a live session goes for good.

`RpcSession` defines the mapping. `SessionOf(c)` is:

* `new` while the read loop is in `init`;
* `gone` after `refused`;
* otherwise `live` exactly while `c` is in `clients`.

`user` maps to `owner` and `backlog` to `out`. `RegistrySpec ==
Abs!SSpec`, where `Abs == INSTANCE SessionRegistry WITH ...`.

Each step of `RpcSession` maps as follows:

* `AcceptFail` is `Refuse`, and `Accept` is `Open`.
* `AuthOk` is `Bind`.
* `Reply`, and `EmitSend` on an open channel, are `Enqueue`.
* `PumpWrite` and `PumpFail` are `Drain`.
* `HbTimeout`, and `ReadNonBinary` on a registered session, are `Evict`.
* Every other step is a stutter.

The abstract spec deliberately allows `Bind` more than once, because the
code rebinds the user. `UserBoundOnce` checks that divergence on its own.

### `CallCoordinator`: state and actions

The module models one (space, channel) pair. Keys of different channels
never interact.

The reachable behaviour is smaller than the source suggests:

* `get_in_channel` reads `call:{space}:{channel}` as a `String`.
* `create` stores the MessagePack encoding of an `ActiveCall` under that
  key. It is a struct map of five fields, so its first byte is `0x85`,
  which is not a UTF-8 lead byte.
* As a result, every lookup of an existing call fails.
* `join_user`, `get_token`, `leave_user`, `end` and `update` run only after
  a lookup has found a call, so they never run.
* `call:{id}` is never written.

The model therefore stops each handler at its lookup. `GetInChannel`
models the conversion by what it does: it computes the first byte of the
encoding and tests it as a UTF-8 lead byte.

State:

| Variable | What it models |
|---|---|
| `witness` | the value under `call:{space}:{channel}` |
| `history[i]` | `joined_members` of the `Call` document of ULID `i` |
| `task[i]` | the history task create spawned for `i`: `running`, `exited`, or `panicked` after a failed update |
| `pc[u]` | where user `u`'s handler is; one per connection, because the read loop is serial |
| `mint[u]` | the ULID its create minted |
| `calls[i]` | the `ActiveCall` built under `i` |
| `res[u]` | what its last handler returned |
| `started` | history only: the ULIDs whose startCall returned Ok |

Actions:

* `StartCall`, `JoinCall`, `LeaveCall`, `EndCall` (through `Request`):
  * the handler's checks: authenticated, space membership, permission;
  * any of them may reject.
* `CreateGet`, `CreateSet`, `CreateStore`: the three awaits of `create`.
  * `CreateSet` overwrites the key unconditionally.
  * `CreateStore` may fail after the key was written.
* `LookupCall`: join, leave or end returns NotFound or the decode error.
* `HistoryTick(i)`: one round of the history task.
  * It updates the document of the call it *reads*, or panics on a failed
    update.
  * The task exits only when the key is gone, which in this program never
    happens.

### `NodeDirectory`: state and actions

`spawn_check_available_nodes` (`services/webrtc.rs` 44-129) starts two
tasks: a consumer of the `nodes` pub/sub channel and a sweeper.

* State:
  * `listed`: the keys of `AVAILABLE_NODES`.
  * `age[n]`: ticks since a listed node's `last_ping`. Ages replace the
    code's absolute millisecond timestamps and keep the state finite. The
    sweeper's test `last_ping + 10000 < time` becomes
    `age[n] * Unit > PingTimeout`.
  * `wake`: ticks until the sweeper's sleep ends.
  * `bus`: events published and not yet consumed, in publishing order. The
    consumer may lag behind it.
  * `consumer`: `init`, `running` or `stopped`.
  * `up` and `asked`: the media nodes (the environment) that run, and those
    that still owe an answer to Query.
* Server actions:
  * `Subscribe`: subscribe, then publish Query as `"server"`. Running nodes
    are asked to describe themselves.
  * `Consume`: apply the head event, one sub-action per match arm:
    * `OnDescription` lists the node unless it is listed already;
    * `OnPing` refreshes a listed node and ignores any other;
    * `OnDisconnect` removes it;
    * `OnQuery` (the server's own) changes nothing.
  * `ConsumerStop`: the stream ends or an unwrap of the payload fails. The
    task is gone. It is enabled by the constant `ConsumerFaults`.
  * `Sweep`: when the sleep is over, keep the nodes with
    `age * Unit <= PingTimeout`, then sleep `SweepPeriod` plus up to
    `Jitter` ms of executor delay, rounded up to ticks.
  * `Tick`: time passes while the sweeper sleeps.
* Environment actions (the media nodes are not in this repository, so they
  are left out of the map):
  * `NodeStart` publishes a Description;
  * `NodeAnswer` answers Query with a Description;
  * `NodePing` publishes a Ping;
  * `NodeStop` publishes a Disconnect, or stops silently.
  Redis pub/sub keeps no backlog: anything published while the server is
  not subscribed is lost (`Publish`).
* UserCreate is not an event of the model. Nodes send it only in answer to
  UserConnect, which only the unreachable `get_token` publishes.

### `FriendGraph`: state and actions

`addFriend`, `addFriendByUsername` and `removeFriend`
(`methods/users.rs` 31-68) load the caller's document, check that the
friend exists, and call `User::add_friend` or `User::remove_friend`
(`services/database/users.rs` 153-342). Each decides from the affinity
found in the *loaded* document, then makes two separate `update_one`
calls: the caller's document first, the friend's second.

* State:
  * `aff[u][v]`: the relationships of the entries of u's list whose id is
    v, in list order. `find` is the first one (`Find`). `$push` appends,
    `$pull` removes them all, and the array-filtered `$set` rewrites them
    all, so entries of other ids never matter.
  * `pc[u]`, `target[u]`, `plan[u]`: where u's handler is (idle, before
    its first update, before its second), its friend and its decision.
  * `reqs[u]`: requests sent, bounded by `MaxReq`.
  * `torn`: a history variable, the pairs whose second update failed.
* Actions:
  * `AddFriend(u, v)`: no affinity, request; Pending, accept; Friend,
    Blocked or Requested, the error and nothing written.
  * `RemoveFriend(u, v)`: Friend, Requested or Pending, drop; Blocked or
    none, the error.
  * Both go through `Begin`, and either may fail on a read (`DbFaults`).
  * `Write1(u)`: the update of u's document, or its failure (the handler
    returns).
  * `Write2(u)`: the update of the friend's document, or its failure.
* `PairSerial` says whether two requests about the same pair of users
  (u about v, or v about u) may overlap. When it is TRUE, `Begin` waits
  until no handler runs on that pair (`PairBusy`). Requests about
  different pairs still interleave at every await, also when they update
  the same user's document. The server does not enforce this; it is the
  condition under which the code is correct.
* Each user has one handler at a time. Several connections of one user,
  which could run two of that user's requests at once, are not modelled.
* The pure parts live in `FriendOps`, which `FriendGraph` and
  `FriendLedger` both extend:
  * `Find`;
  * `AddPlan` and `RemovePlan`, the decision from the affinity found;
  * `Update`, what a plan does to one side's entries.

### `FriendLedger` and the refinement

`FriendLedger` has only `aff` and `torn`, and three actions:

* `Add(u, v)` and `Remove(u, v)`: the decision is taken on the current
  affinities, and `Both` applies the update to u's entries about v and to
  v's entries about u in one step. When u = v the two updates apply one
  after the other, as in the code.
* `Lose(u, v)`: v's entries about u go back to a value that some plan's
  update maps to their present value. The pair becomes torn.

`FriendGraph` maps to it by `Ledger`. A handler between its two updates
counts as having made both, so its friend's entries are taken with the
second update applied. `torn` maps to itself. Under this mapping:

* `Begin` and a failed `Write1` are stutters;
* a successful `Write1` is the whole `Add` or `Remove`;
* a successful `Write2` is a stutter;
* a failed `Write2` is `Lose`.

The property `LedgerSpec` holds only under `PairSerial`. With two
overlapping requests about one pair, a decision can be stale by the time
it is written (`friend_race`). Requests about different pairs do not
disturb each other, because every update names the friend id in its
filter or `$pull` and so touches only that pair's entries.


| Run | Config | Bounds | Checks | Result |
|---|---|---|---|---|
| `rpc_lifecycle` | `MC_RpcSession.cfg` | 1 connection, 2 users, 4 frames, 2 fanout calls, socket writes may fail, fair | `TypeOK`, `RegistryConsistent`, `RegistrySpec`, `SilentAfterEviction`, `EvictionEventually` | pass (≈155k states, 17 s) |
| `rpc_nopanic` | `MC_RpcSession_nopanic.cfg` | 1 connection, 3 frames, socket writes may fail | `NoPanic` | violated |
| `rpc_spin` | `MC_RpcSession_spin.cfg` | 1 connection, 3 frames | `SupervisorNeverSpins` | violated |
| `rpc_rebind` | `MC_RpcSession_rebind.cfg` | 1 connection, 2 users, 2 frames | `UserBoundOnce` | violated |
| `call_lifecycle` | `MC_CallCoordinator.cfg` | 2 users, 3 ULIDs, 2 requests each | `TypeOK`, `HistoryMatchesCall` | pass (≈13k states) |
| `node_directory` | `MC_NodeDirectory.cfg` | 2 nodes, 100 ms ticks, sweeper up to 100 ms late, 1 event in flight, consumer may die, symmetry | `TypeOK`, `EvictionDeadline` | pass (≈1.96M states, 25 s) |
| `node_relist` | `MC_NodeDirectory_relist.cfg` | 1 node, same clock, consumer never dies, fair | `LiveNodeListed` | violated |
| `call_race` | `MC_CallCoordinator_race.cfg` | same, symmetry | `LiveCallsWitnessed` | violated |
| `call_lookup` | `MC_CallCoordinator_lookup.cfg` | same, symmetry | `CallLookupSucceeds` | violated |
| `call_history` | `MC_CallCoordinator_history.cfg` | same, symmetry | `WitnessHasHistory` | violated |
| `friend_graph` | `MC_FriendGraph.cfg` | 3 users, 2 requests each, `PairSerial`, reads and updates may fail, symmetry | `QuiescentMirrored`, `LedgerSpec` | pass (≈451k states, about 2 min) |
| `friend_race` | `MC_FriendGraph_race.cfg` | 3 users, 2 requests each, overlapping requests on a pair allowed, no faults, symmetry | `QuiescentMirrored` | violated |

Why the bounds are enough:

* Four frames let one connection identify, send a heartbeat, run a
  handler, and then send a non-binary frame or end, in any order.
* Two fanout calls let one send be pending while another is delivered
  around an eviction.
* Two users let `EmitToId` select the connection or not, and let a second
  Identify bind another user.
* One connection is enough for the registry properties and the
  refinement: every property and every step of the mapping is about a
  single connection's read loop, supervisor, pump and sends. Other
  connections only add fanout calls, which the model already makes
  freely. `SilentAfterEviction` and the refinement are also proved for
  every number of connections.
* Symmetry over connections and users is sound because no definition
  names a particular one.
* Call coordinator bounds:
  * Two users with two requests each can race two creates.
  * One of them can then look the call up.
  * Three ULIDs cover every create of those four requests.
* Symmetry is used only in the call coordinator's violation runs, which
  check safety alone.
* Node directory bounds:
  * A tick of 100 ms is the coarsest tick that still separates the 1000 ms
    sleep from the 1100 ms deadline.
  * The real constants (10000, 1000, 1100) are used unscaled.
  * A jitter of 100 ms is the largest at which spec 8.9 can hold. With
    `Jitter = 200` the same run violates `EvictionDeadline`: the bound is
    tight.
  * One event in flight is enough for a Ping to be late, for a Disconnect
    to race a sweep and for Query to be answered. The state space still
    holds every age of two nodes against every sleep.
  * Symmetry over nodes is sound: no definition names one.
* Friend graph bounds:
  * Two requests per user let a request be answered by an accept and a
    friendship be removed, and let a failed update be followed by a retry.
  * Three users put two handlers on pairs that share a user.
  * Symmetry over users is sound: no definition names one.
  * `CHECK_DEADLOCK FALSE`: once every request is spent the system stops,
    as a server with no more client calls does.

What the violations show (see `findings` in `PROJECT.json`):

* `NoPanic`: the registry entry is unwrapped after it can be gone. With
  write failures there is a second path: the pump dies, the channel
  closes, and the next reply's `expect` panics.
* `UserBoundOnce` (the code differs from spec section 3): a second
  Identify rebinds the session to another user, so fanout to the first
  user no longer reaches it.
* `SupervisorNeverSpins`: the supervisor spins after a non-binary frame.
* `LiveCallsWitnessed`: two concurrent startCall requests both succeed.
  The second `SET` replaces the first call.
* `CallLookupSucceeds`: after a call is created, join, leave, end and a
  second start fail to decode the stored value. No call can be joined or
  ended.
* `WitnessHasHistory`: a failed history insert leaves the key of a call
  that nobody started.
* `LiveNodeListed` (a gap in the spec): a node's ping is late once, and
  the sweeper drops the node.
  * Every later Ping from it is ignored.
  * Query was published only at startup, so nothing asks the node to
    describe itself again.
  * The node runs and pings forever, unlisted, until it restarts.
* `QuiescentMirrored` under concurrent requests: u1 and u2 add each other
  at the same time.
  * Both handlers load documents with no affinity, and both push.
  * Each document then holds Requested, then Pending, for the other.
  * `find` returns Requested, so every later addFriend fails with
    AlreadyRequested. The two can never become friends (spec S4).
  * With no two requests about one pair overlapping (`friend_graph`), the
    same requests keep every idle pair mirrored, through failed reads,
    failed first updates and requests about other pairs in between.

### Fairness

`FairSpec` assumes weak fairness of each connection's supervisor, write pump
and pending fanout sends. The code justifies this:

* they are spawned async-std tasks;
* the executor polls every ready task;
* each one is enabled only while its future is ready: a queued tick or
  frame, or an elapsed timeout.

Nothing is assumed of the read loop, the client or the authenticator: a
client may stop sending forever.

`CallCoordinator` has no fairness: its runs check safety only.

In `NodeDirectory`, `FairSpec` assumes:

* weak fairness of `Subscribe`, `Consume`, `Sweep` and `Tick`: two
  spawned tasks, and time that passes;
* strong fairness of each node's `NodePing` and `NodeAnswer`. The one-slot
  channel of the model disables them whenever it is full, so weak
  fairness would let the channel starve a node.

Nothing bounds how long the consumer or a node may take, so pings can be
late. That is what `LiveNodeListed`'s violation needs.

## 4. Proofs

`RpcSessionProofs` proves, for all `Conns`, `Users`, `MaxFrames`,
`MaxEmits` and `WriteFaults` that satisfy `ConstAssumption`:

* **`TypeCorrect`**: `Spec => []TypeOK`.
  * `TypeOK` is inductive on its own.
  * The step lemma has one step per action.
  * Frame construction is isolated in the lemma `MkFrameType`.
* **`RegistryConsistency`**: `Spec => []RegistryConsistent`.
  * The invariant is inductive together with `TypeOK`.
  * A connection enters the registry only in `Accept`, which also opens its
    channel and starts its supervisor.
  * Both removals (`HbTimeout`, `ReadNonBinary` through `RemoveAndClose`)
    close the channel in the same step.
  * The only step that closes a registered session's channel is
    `PumpFail`, which also marks the pump `failed`. No action leaves
    `failed`.
  * The only step that moves the supervisor out of `waiting` while the
    connection is registered is `HbTimeout`, which removes it.
* **`SilentAfterEvictionHolds`**: `Spec => SilentAfterEviction`.
  * Under `RegistryConsistent`, an accepted, unregistered connection has a
    closed channel.
  * `Reply` and `EmitSend` append only to an open channel.
* **`Refinement`**: `Spec => RegistrySpec`.
  * The proof follows the usual pattern: the initial state maps to
    `SInit`, and under an invariant every step maps to an `SNext` step or
    a stutter. PTL then combines the two.
  * The invariant is `RInv == TypeOK /\ RegistryConsistent /\ Unaccepted`.
  * `Unaccepted` says that a connection still in `init` or `refused` has
    no open channel, nothing queued and no user. It is needed for two
    reasons:
    * `Accept`'s Hello must be exactly one frame more, as in `Open`;
    * `EmitSend` and `PumpWrite` must not touch a connection whose session
      is not live.
  * Lemma `HandshakeFinal`: no step takes a connection back to `init` or
    `refused` once it has left them. With it, `Unaccepted` is inductive.
  * Lemma `SessKept`: a read-loop step between accepted states that leaves
    `clients` alone leaves every phase alone. That disposes of ten of the
    read loop's actions at once.
  * `RegistryConsistent` provides two facts: an open channel means a
    registered session (`EmitSend` is `Enqueue`), and a registered session
    is accepted (`HbTimeout` is `Evict`).

`CallCoordinatorProofs` proves, for all `Users`, `CallIds` and `MaxReq`
that satisfy `CallAssumption`:

* **`TypeCorrect`**: `Spec => []TypeOK`.
* **`HistoryMatchesCallHolds`**: `Spec => []HistoryMatchesCall`.

Neither invariant is inductive alone. For example, `CreateStore` reads
`calls[mint[u]]`. Both rest on `IInv == TypeOK /\ Strength`, which TLC
checks on the `call_lifecycle` instance. `Strength` says:

* a history document exists only for a minted call and holds its members;
* the key always holds the call built under its own ULID;
* a create between its `SET` and its insert knows the ULID it minted.

`CreateSet` keeps `Strength` because it only mints a ULID with no call,
hence no history document. `HistoryTick` keeps it because it writes the
members of the witnessed call under that call's own ULID.

`NodeDirectoryProofs` proves, for all constants that satisfy
`NodeAssumption`:

* **`TypeCorrect`**: `Spec => []TypeOK`. `Event` says that only Query
  carries the id `"server"`, so a Description always names a node.
* **`EvictionDeadlineHolds`**:
  `DeadlineFits => (Spec => []EvictionDeadline)`.
  * `MaxSleep` is the longest sleep in ticks.
  * `DeadlineFits` says `(PingTimeout \div Unit + MaxSleep) * Unit <=
    PingTimeout + Deadline`. It holds for the code's constants at a 100 ms
    jitter.
  * The inductive strengthening `Timely` says the sleep still to go is at
    most `MaxSleep`, and each listed node's age plus that sleep is at most
    `Bound == PingTimeout \div Unit + MaxSleep`.
  * A tick moves age and sleep in step.
  * A sweep leaves only nodes of at most `PingTimeout \div Unit` ticks
    (lemma `WithinQuotient`) and draws a sleep of at most `MaxSleep` (lemmas
    `SleepBound` and `DivMonotone`).
  * The consumer only resets ages to 0.
  * `MulMonotone` turns the bound in ticks into one in milliseconds.

`FriendGraphProofs` proves, for every set of users and every `MaxReq`:

* **`TypeCorrect`**: `Spec => []TypeOK`, with or without `PairSerial` and
  `DbFaults`.
  * `TypeOK` alone is not inductive: `Write1` and `Write2` apply `Update`
    with the handler's plan, and `Update` is defined only for the three
    plans that write.
  * `TInv` adds that a handler past its load holds such a plan.

* **`QuiescentMirroredHolds`**:
  `PairSerial => (Spec => []QuiescentMirrored)`.
  * The property is not inductive: between a handler's load and its two
    updates the pair it works on is not mirrored.
  * The strengthening `IInv` says:
    * a running handler has decided to write (`Active`);
    * no two running handlers are about the same pair (`PairExclusive`),
      which `Begin`'s `PairSerial` guard keeps;
    * `torn` holds both orders of a pair (`TornSym`);
    * every pair that is not torn and not half updated is mirrored
      (`PairsMirrored`);
    * before its first update, each running handler's pair is as it
      decided from (`Decided`): empty on both sides for a request, Pending
      facing Requested for an accept, an entry on the caller's side for a
      drop;
    * between its updates, each running handler's pair is half updated
      (`W2Shape`).
  * TLC checks `IInv` as an invariant of the `friend_graph` instance.
  * `BeginStep` carries the load and decision: no handler runs on the
    pair, so `PairLoaded` and `SingleEntry` turn the mirrored finds into
    the exact entries.
  * `Write1Step` and `Write2Step` take the pair from one shape to the
    next, by `UpdateFacts`. A failed first update writes nothing; a failed
    second one adds the pair to `torn`.
  * Every other handler keeps its shape (`OthersShapes`, `ShapeFrame`):
    a step writes only the two entries of its own pair, and by
    `PairExclusive` no other running handler reads them.
  * `PairSerial` is needed: `friend_race` shows the property fails
    without it.

`FriendLedgerProofs` proves, for every set of users and every `MaxReq`:

* **`LedgerRefinement`**: `PairSerial => (Spec => LedgerSpec)`.
  * The invariant is `RInv == IInv /\ W1Plan`.
  * `W1Plan` says that a handler before its first update still holds the
    plan that `AddPlan` or `RemovePlan` gives for its pair now. That is
    what makes the first update a legal `Add` or `Remove`.
  * `W1Plan` is kept because only the handler's own first update writes
    the caller's entries about the friend. The only other writer of that
    list would be the friend's second update about the caller, which
    `PairExclusive` rules out. TLC checks `RInv` on the `friend_graph`
    instance.
  * `LedgerOf` restates `Ledger` as an operator of the state it reads, so
    one lemma (`LedgerCell`) gives any entry list of the ledger before
    and after a step. `LedgerType` shows the ledger holds affinity lists.
  * `BothCells` describes `Both`'s two nested updates list by list.
  * There is one lemma per handler step, each argued list by list:
    * `BeginRefines`: a stutter;
    * `Write1Refines`: the whole `Add` or `Remove`. Other handlers'
      pending second updates stay in the ledger, untouched;
    * `Write2Refines`: a stutter, or `Lose`.
  * `RefineStep` combines them, and PTL concludes.
  * Unlike `QuiescentMirrored`, the proof covers torn pairs and a user
    adding themselves, since it never needs a pair's exact shape.

Only model-checked:

* `EvictionEventually`: TLAPS does not reason about liveness under
  fairness or about `ENABLED`.
* The violation runs.

## 5. Not modelled

* **Unreachable code of the call coordinator**: `join_user`, `get_token`,
  `leave_user`, `end`, `update`, and the `REQUESTS` rendezvous they use.
  They are reached only after a successful `get_in_channel`. They hold
  latent defects that become live once the lookup is fixed:
  * `leave_call` rejects callers who *are* members (methods/webrtc.rs 168).
  * `join_user` and `leave_user` write back stale member lists.
  * `update` and `end` ask redis for an `ActiveCall` reply to `SET` and
    `DEL`, so they report an error after succeeding.
  * `REQUESTS` stores a *clone* of the `Request`, so `set` fills the
    clone's slot while `wait` unwraps its own empty one.
  * `REQUESTS` entries are never removed.

* **Media node voice methods** (`src/src/methods/webrtc.rs`): wrappers
  over the media library.
* **Spaces store** (`spaces.rs`): single-document CRUD. Only
  `Space::get` is called, from the call methods, and those are modelled
  as its result. `create`, `delete`, the member operations and
  `change_owner` are called from nowhere in the repository.
* **Id minting and the frame codec** (`encryption.rs`): `generate`,
  `encode` and `decode` are called from nowhere in `src/`. The RPC layer
  mints ids with its own `generate_id` (`rapid/src/utilities.rs`). Of this
  file only `serialize`/`deserialize` are used, by the call coordinator.
  Their effect on the stored call is modelled there (`EncodedFirstByte`).
* **Environment configuration** (`environment.rs`).
* **The authenticator and MongoDB internals.** Their results are
  nondeterministic choices.
* **Logging and serialisation formats**, except where a property depends
  on them: the type of the redis value under `call:{space}:{channel}`.
