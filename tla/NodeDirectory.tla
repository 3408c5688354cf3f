---------------------------- MODULE NodeDirectory ----------------------------
(***************************************************************************)
(* The media-node directory of harmony (spawn_check_available_nodes,       *)
(* src/crates/harmony/src/services/webrtc.rs 44-129): the bus consumer     *)
(* that applies the events of the "nodes" pub/sub channel to              *)
(* AVAILABLE_NODES, and the sweeper that evicts nodes whose last ping is   *)
(* more than 10 s old.                                                     *)
(*                                                                         *)
(* Time advances in ticks of Unit ms while the sweeper sleeps.  Instead of *)
(* absolute timestamps the model keeps each listed node's age, now minus   *)
(* last_ping, in ticks; the sweeper's test last_ping + 10000 < time is     *)
(* age * Unit > PingTimeout.  The media nodes are not part of this         *)
(* repository: they are the environment, which starts nodes (publishing   *)
(* Description), answers Query with Description, pings, disconnects or     *)
(* stops silently.  The channel delivers events in the order they were    *)
(* published; the consumer may lag behind it.                             *)
(***************************************************************************)
EXTENDS Naturals, Sequences

CONSTANTS
    Nodes,        \* media node ids
    Unit,         \* ms per tick
    PingTimeout,  \* the sweeper's 10000 ms
    SweepPeriod,  \* the sweeper's sleep of 1000 ms
    Jitter,       \* ms the executor may add to a sleep before the sweeper runs
    Deadline,     \* ms after PingTimeout by which a stale node is gone (1100)
    MaxBus,       \* events in flight on the channel
    ConsumerFaults \* whether the consumer's stream may end or its unwraps fail

ASSUME NodeAssumption ==
    /\ Unit \in Nat \ {0}
    /\ PingTimeout \in Nat /\ SweepPeriod \in Nat /\ Jitter \in Nat
    /\ SweepPeriod >= Unit
    /\ Deadline \in Nat /\ MaxBus \in Nat
    /\ ConsumerFaults \in BOOLEAN

(* Kinds of NodeEvent the consumer receives.  UserCreate, a node's answer *)
(* to UserConnect, never occurs: only get_token publishes UserConnect and *)
(* no reachable path calls it (see CallCoordinator); the arm that would   *)
(* resolve REQUESTS is not modelled.                                      *)
EventKinds == {"Description", "Ping", "Disconnect", "Query"}
(* Nodes publish Description, Ping and Disconnect under their own id;    *)
(* the server publishes Query under the id "server".                     *)
Event ==
    [kind : EventKinds \ {"Query"}, node : Nodes] \cup [kind : {"Query"}, node : {"server"}]

(* States of the bus consumer task.                                       *)
(*  init    - not yet subscribed                                          *)
(*  running - in `while let Some(msg) = pubsub.on_message().next()`       *)
(*  stopped - the message stream ended, or an unwrap of a payload failed  *)
ConsumerStates == {"init", "running", "stopped"}

VARIABLES
    listed,    \* the keys of AVAILABLE_NODES
    age,       \* ticks since each listed node's last_ping
    wake,      \* ticks until the sweeper's sleep ends
    bus,       \* events published on "nodes" and not yet consumed
    consumer,  \* the bus consumer task
    up,        \* media nodes that are running (environment)
    asked      \* running nodes that have seen Query and owe a Description

vars == <<listed, age, wake, bus, consumer, up, asked>>

(* Ticks the sweeper sleeps: the period rounded up, plus any jitter.      *)
SleepTicks == {(SweepPeriod + j + Unit - 1) \div Unit : j \in 0..Jitter}

TypeOK ==
    /\ listed \subseteq Nodes
    /\ age \in [Nodes -> Nat]
    /\ wake \in Nat
    /\ bus \in Seq(Event)
    /\ consumer \in ConsumerStates
    /\ up \subseteq Nodes
    /\ asked \subseteq Nodes

Init ==
    /\ listed = {}
    /\ age = [n \in Nodes |-> 0]
    /\ wake = 0
    /\ bus = <<>>
    /\ consumer = "init"
    /\ up = {}
    /\ asked = {}

(* Publish an event on the channel.  Redis pub/sub keeps no backlog: an   *)
(* event published while the server is not subscribed is lost.            *)
Publish(k, n) ==
    IF consumer = "running"
    THEN /\ Len(bus) < MaxBus
         /\ bus' = Append(bus, [kind |-> k, node |-> n])
    ELSE UNCHANGED bus

-----------------------------------------------------------------------------
(* The server.                                                            *)

(* Lines 46-52: subscribe to "nodes", then publish Query with id "server" *)
(* (which the consumer also receives, and ignores); every running node is *)
(* asked to describe itself.                                              *)
Subscribe ==
    /\ consumer = "init"
    /\ MaxBus > 0
    /\ bus' = <<[kind |-> "Query", node |-> "server"]>>
    /\ consumer' = "running"
    /\ asked' = up
    /\ UNCHANGED <<listed, age, wake, up>>

(* Lines 57-68: a Description lists its node with last_ping = now, unless *)
(* the node is listed already.                                            *)
OnDescription(e) ==
    /\ e.kind = "Description"
    /\ listed' = listed \cup {e.node}
    /\ age' = IF e.node \in listed THEN age ELSE [age EXCEPT ![e.node] = 0]

(* Lines 69-77: a Ping sets last_ping = now of a listed node; a Ping of a *)
(* node that is not listed is ignored.                                    *)
OnPing(e) ==
    /\ e.kind = "Ping"
    /\ age' = IF e.node \in listed THEN [age EXCEPT ![e.node] = 0] ELSE age
    /\ UNCHANGED listed

(* Lines 78-84: a Disconnect removes its node.                            *)
OnDisconnect(e) ==
    /\ e.kind = "Disconnect"
    /\ listed' = listed \ {e.node}
    /\ age' = [age EXCEPT ![e.node] = 0]

(* Mutant of OnQuery: the server's own Query is taken for a node          *)
(* introducing itself, and "server" is listed as a media node.            *)
OnQueryAsDescription(e) ==
    /\ e.kind = "Query"
    /\ listed' = listed \cup {e.node}
    /\ UNCHANGED age

(* Line 99: Query, the server's own included, changes nothing.            *)
OnQuery(e) ==
    /\ e.kind = "Query"
    /\ UNCHANGED <<listed, age>>

(* Lines 53-110: take the next event of the channel and apply it.         *)
Consume ==
    /\ consumer = "running"
    /\ bus # <<>>
    /\ \/ OnDescription(Head(bus)) \/ OnPing(Head(bus))
       \/ OnDisconnect(Head(bus)) \/ OnQuery(Head(bus))
    /\ bus' = Tail(bus)
    /\ UNCHANGED <<wake, consumer, up, asked>>

(* Lines 53-55: the message stream ends (the pub/sub connection drops)   *)
(* or get_payload/deserialize fails and its unwrap panics; the task is   *)
(* gone and nothing consumes the channel any more.                        *)
ConsumerStop ==
    /\ ConsumerFaults
    /\ consumer = "running"
    /\ consumer' = "stopped"
    /\ bus' = <<>>
    /\ UNCHANGED <<listed, age, wake, up, asked>>

(* Mutant of Sweep: the time is read with timestamp() in seconds while   *)
(* last_ping is in ms, so last_ping + 10000 < time never holds.            *)
SweepSeconds ==
    /\ wake = 0
    /\ UNCHANGED <<listed, age>>
    /\ \E t \in SleepTicks : wake' = t
    /\ UNCHANGED <<bus, consumer, up, asked>>

(* Lines 114-126: the sweeper wakes, reads the time and retains the nodes *)
(* with last_ping + 10000 >= time, then sleeps 1000 ms.                   *)
Sweep ==
    /\ wake = 0
    /\ listed' = {n \in listed : ~(age[n] * Unit > PingTimeout)}
    /\ age' = [n \in Nodes |-> IF n \in listed' THEN age[n] ELSE 0]
    /\ \E t \in SleepTicks : wake' = t
    /\ UNCHANGED <<bus, consumer, up, asked>>

(* Time passes while the sweeper sleeps; it runs as soon as it is due.    *)
Tick ==
    /\ wake > 0
    /\ wake' = wake - 1
    /\ age' = [n \in Nodes |-> IF n \in listed THEN age[n] + 1 ELSE 0]
    /\ UNCHANGED <<listed, bus, consumer, up, asked>>

-----------------------------------------------------------------------------
(* The media nodes (environment).                                         *)

NodeStart(n) ==
    /\ n \notin up
    /\ Publish("Description", n)
    /\ up' = up \cup {n}
    /\ UNCHANGED <<listed, age, wake, consumer, asked>>

NodeAnswer(n) ==
    /\ n \in asked \cap up
    /\ Publish("Description", n)
    /\ asked' = asked \ {n}
    /\ UNCHANGED <<listed, age, wake, consumer, up>>

NodePing(n) ==
    /\ n \in up
    /\ Publish("Ping", n)
    /\ UNCHANGED <<listed, age, wake, consumer, up, asked>>

NodeStop(n) ==
    /\ n \in up
    /\ \/ Publish("Disconnect", n)
       \/ UNCHANGED bus
    /\ up' = up \ {n}
    /\ asked' = asked \ {n}
    /\ UNCHANGED <<listed, age, wake, consumer>>

Environment(n) ==
    NodeStart(n) \/ NodeAnswer(n) \/ NodePing(n) \/ NodeStop(n)

Next ==
    \/ Subscribe \/ Consume \/ ConsumerStop \/ Sweep \/ Tick
    \/ \E n \in Nodes : Environment(n)

Spec == Init /\ [][Next]_vars

(* The consumer and the sweeper are async-std tasks that the executor     *)
(* keeps running, and time passes; a running media node keeps pinging and *)
(* answers Query.  Pings and answers are strongly fair: with the channel  *)
(* bounded in the model they are enabled only while it has room.          *)
Fairness ==
    /\ WF_vars(Subscribe) /\ WF_vars(Consume) /\ WF_vars(Sweep) /\ WF_vars(Tick)
    /\ \A n \in Nodes : SF_vars(NodePing(n)) /\ SF_vars(NodeAnswer(n))

FairSpec == Spec /\ Fairness

-----------------------------------------------------------------------------
(* Properties.                                                            *)

(* Spec 8.9: a node whose last ping is more than PingTimeout old is gone  *)
(* from AVAILABLE_NODES within Deadline ms: the sweeper's strict          *)
(* comparison, its 1000 ms sleep and the executor's delay in waking it    *)
(* together never let a listed node's last_ping grow older than that.     *)
EvictionDeadline ==
    \A n \in listed : age[n] * Unit <= PingTimeout + Deadline

(* A media node that stays up, keeps pinging and whose events the         *)
(* consumer keeps applying is listed in AVAILABLE_NODES again and again:  *)
(* the directory does not lose a live node.                               *)
LiveNodeListed ==
    \A n \in Nodes : <>[](n \in up) => []<>(n \in listed)

=============================================================================
