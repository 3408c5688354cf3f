------------------------ MODULE NodeDirectoryProofs -------------------------
(***************************************************************************)
(* Proofs about NodeDirectory for every set of nodes, every tick length,   *)
(* timeout, sleep period, jitter and channel bound.                        *)
(***************************************************************************)
EXTENDS NodeDirectory, TLAPS

(* The longest sleep of the sweeper, in ticks.                            *)
MaxSleep == (SweepPeriod + Jitter + Unit - 1) \div Unit

(* The oldest a listed node may be, in ticks, when the sweeper wakes.     *)
Bound == PingTimeout \div Unit + MaxSleep

(* The condition on the constants under which spec 8.9 holds: a node that *)
(* survived a scan by a hair and is caught by the next, after the longest *)
(* sleep, is at most PingTimeout + Deadline ms old.                       *)
DeadlineFits == Bound * Unit <= PingTimeout + Deadline

(* The strengthening: the sweeper never sleeps longer than MaxSleep, and  *)
(* a listed node's age plus the sleep still to go never exceeds Bound.    *)
(* Ticks move age and wake in step; a scan leaves only nodes of at most   *)
(* PingTimeout \div Unit ticks; the consumer only resets ages to 0.       *)
Timely ==
    /\ wake \in 0..MaxSleep
    /\ \A n \in listed : age[n] + wake <= Bound

IInv == TypeOK /\ Timely

-----------------------------------------------------------------------------
(* Arithmetic.                                                            *)

(* A count of ticks within PingTimeout ms is within its tick quotient.    *)
LEMMA WithinQuotient ==
    ASSUME NEW a \in Nat, NEW u \in Nat \ {0}, NEW t \in Nat, a * u <= t
    PROVE  a <= t \div u
  <1>1. t = (t \div u) * u + (t % u) /\ t % u \in 0..u-1
    OBVIOUS
  <1>2. a * u < (t \div u + 1) * u
    BY <1>1
  <1>3. QED
    BY <1>2

(* Integer division by a positive number is monotone.                    *)
LEMMA DivMonotone ==
    ASSUME NEW x \in Nat, NEW y \in Nat, NEW u \in Nat \ {0}, x <= y
    PROVE  x \div u <= y \div u
  <1>1. x = (x \div u) * u + (x % u) /\ x % u \in 0..u-1
    OBVIOUS
  <1>2. y = (y \div u) * u + (y % u) /\ y % u \in 0..u-1
    OBVIOUS
  <1>3. (x \div u) * u < (y \div u + 1) * u
    BY <1>1, <1>2
  <1>4. QED
    BY <1>3

(* Multiplying by a natural number is monotone.                         *)
LEMMA MulMonotone ==
    ASSUME NEW a \in Nat, NEW b \in Nat, NEW c \in Nat, a <= b
    PROVE  a * c <= b * c
  <1>1. (b - a) \in Nat /\ (b - a) * c \in Nat
    OBVIOUS
  <1>2. b * c = a * c + (b - a) * c
    OBVIOUS
  <1>3. QED
    BY <1>1, <1>2

(* Every sleep the sweeper draws lasts between 0 and MaxSleep ticks.      *)
LEMMA SleepBound ==
    ASSUME NEW t \in SleepTicks PROVE t \in 0..MaxSleep
  <1>1. PICK j \in 0..Jitter : t = (SweepPeriod + j + Unit - 1) \div Unit
    BY DEF SleepTicks
  <1>2. SweepPeriod + j + Unit - 1 \in Nat /\ SweepPeriod + Jitter + Unit - 1 \in Nat
    BY NodeAssumption
  <1>3. t \in Nat
    BY <1>1, <1>2, NodeAssumption
  <1>4. t <= MaxSleep
    BY <1>1, <1>2, DivMonotone, NodeAssumption DEF MaxSleep
  <1>5. QED
    BY <1>3, <1>4

-----------------------------------------------------------------------------
(* The invariant.                                                         *)

(* Before the consumer subscribes nothing is listed and the sweeper is    *)
(* due.                                                                   *)
LEMMA InitIInv == Init => IInv
  BY NodeAssumption DEF Init, IInv, TypeOK, Timely, ConsumerStates, MaxSleep

(* Every event the consumer takes is a well-formed NodeEvent.            *)
LEMMA HeadEvent ==
    ASSUME TypeOK, bus # <<>> PROVE Head(bus) \in Event /\ Tail(bus) \in Seq(Event)
  BY DEF TypeOK

(* Every step keeps the state well typed.                                 *)
LEMMA TypeStep == IInv /\ [Next]_vars => TypeOK'
  <1> SUFFICES ASSUME IInv, [Next]_vars PROVE TypeOK'
    OBVIOUS
  <1> USE NodeAssumption DEF IInv, TypeOK, ConsumerStates
  <1>1. CASE Subscribe
    BY <1>1 DEF Subscribe, Event, EventKinds
  <1>2. CASE Consume
    <2> DEFINE e == Head(bus)
    <2>1. e \in Event /\ bus' \in Seq(Event)
      BY <1>2, HeadEvent DEF Consume
    <2>2. listed' \subseteq Nodes /\ age' \in [Nodes -> Nat]
      <3>1. CASE OnDescription(e)
        <4>1. e.node \in Nodes
          BY <2>1, <3>1 DEF OnDescription, Event
        <4>2. QED
          BY <3>1, <4>1 DEF OnDescription
      <3>2. CASE OnPing(e)
        BY <3>2 DEF OnPing
      <3>3. CASE OnDisconnect(e)
        BY <3>3 DEF OnDisconnect
      <3>4. CASE OnQuery(e)
        BY <3>4 DEF OnQuery
      <3>5. QED
        BY <1>2, <3>1, <3>2, <3>3, <3>4 DEF Consume
    <2>3. QED
      BY <1>2, <2>1, <2>2 DEF Consume
  <1>3. CASE ConsumerStop
    BY <1>3 DEF ConsumerStop
  <1>4. CASE Sweep
    <2>1. PICK t \in SleepTicks : wake' = t
      BY <1>4 DEF Sweep
    <2>2. wake' \in Nat
      BY <2>1, SleepBound
    <2>3. QED
      BY <1>4, <2>2 DEF Sweep
  <1>5. CASE Tick
    BY <1>5 DEF Tick
  <1>6. ASSUME NEW n \in Nodes, Environment(n) PROVE TypeOK'
    <2>1. ASSUME NEW k \in EventKinds \ {"Query"}, Publish(k, n) PROVE bus' \in Seq(Event)
      <3>1. [kind |-> k, node |-> n] \in Event
        BY DEF Event
      <3>2. CASE consumer = "running"
        <4>1. bus' = Append(bus, [kind |-> k, node |-> n])
          BY <2>1, <3>2 DEF Publish
        <4>2. QED
          BY <3>1, <4>1
      <3>3. CASE consumer # "running"
        BY <2>1, <3>3 DEF Publish
      <3>4. QED
        BY <3>2, <3>3
    <2>2. {"Description", "Ping", "Disconnect"} \subseteq EventKinds \ {"Query"}
      BY DEF EventKinds
    <2>3. CASE NodeStart(n)
      BY <2>1, <2>2, <2>3 DEF NodeStart
    <2>4. CASE NodeAnswer(n)
      BY <2>1, <2>2, <2>4 DEF NodeAnswer
    <2>5. CASE NodePing(n)
      BY <2>1, <2>2, <2>5 DEF NodePing
    <2>6. CASE NodeStop(n)
      BY <2>1, <2>2, <2>6 DEF NodeStop
    <2>7. QED
      BY <1>6, <2>3, <2>4, <2>5, <2>6 DEF Environment
  <1>7. CASE UNCHANGED vars
    BY <1>7 DEF vars
  <1>8. QED
    BY <1>1, <1>2, <1>3, <1>4, <1>5, <1>6, <1>7 DEF Next

(* Every step keeps the sweeper timely: one case per action that moves    *)
(* time, the sleep or the listing.                                        *)
LEMMA TimelyStep == IInv /\ [Next]_vars => Timely'
  <1> SUFFICES ASSUME IInv, [Next]_vars PROVE Timely'
    OBVIOUS
  <1> USE NodeAssumption DEF IInv, TypeOK
  <1>0. MaxSleep \in Nat /\ PingTimeout \div Unit \in Nat /\ Bound \in Nat /\ MaxSleep <= Bound
    BY DEF MaxSleep, Bound
  <1>t. TypeOK'
    BY TypeStep
  <1>1. CASE Consume
    <2> DEFINE e == Head(bus)
    <2>1. UNCHANGED wake
      BY <1>1 DEF Consume
    <2>2. \A n \in listed' : (n \in listed /\ age'[n] = age[n]) \/ age'[n] = 0
      <3>1. CASE OnDescription(e)
        <4>1. e.node \in Nodes
          BY <1>1, <3>1, HeadEvent DEF Consume, OnDescription, Event
        <4>2. QED
          BY <3>1, <4>1 DEF OnDescription
      <3>2. CASE OnPing(e)
        BY <3>2 DEF OnPing
      <3>3. CASE OnDisconnect(e)
        BY <3>3 DEF OnDisconnect
      <3>4. CASE OnQuery(e)
        BY <3>4 DEF OnQuery
      <3>5. QED
        BY <1>1, <3>1, <3>2, <3>3, <3>4 DEF Consume
    <2>3. ASSUME NEW n \in listed' PROVE age'[n] + wake' <= Bound
      <3>1. CASE n \in listed /\ age'[n] = age[n]
        BY <2>1, <3>1 DEF Timely
      <3>2. CASE age'[n] = 0
        <4>1. wake' = wake /\ wake \in 0..MaxSleep
          BY <2>1 DEF Timely
        <4>3. QED
          BY <1>0, <3>2, <4>1
      <3>3. QED
        BY <2>2, <3>1, <3>2
    <2>4. QED
      BY <2>1, <2>3 DEF Timely
  <1>2. CASE Sweep
    <2>1. PICK t \in SleepTicks : wake' = t
      BY <1>2 DEF Sweep
    <2>2. wake' \in 0..MaxSleep
      BY <2>1, SleepBound
    <2>3. ASSUME NEW n \in listed' PROVE age'[n] <= PingTimeout \div Unit
      <3>1. n \in listed /\ age[n] * Unit <= PingTimeout /\ age'[n] = age[n]
        BY <1>2 DEF Sweep
      <3>2. QED
        BY <3>1, WithinQuotient
    <2>4. ASSUME NEW n \in listed' PROVE age'[n] + wake' <= Bound
      BY <1>0, <1>t, <2>2, <2>3 DEF Bound
    <2>5. QED
      BY <2>2, <2>4 DEF Timely
  <1>3. CASE Tick
    <2>1. wake \in 1..MaxSleep /\ wake' = wake - 1 /\ UNCHANGED listed
      BY <1>3 DEF Tick, Timely
    <2>2. \A n \in listed : age'[n] = age[n] + 1
      BY <1>3 DEF Tick
    <2>3. ASSUME NEW n \in listed' PROVE age'[n] + wake' <= Bound
      BY <1>0, <2>1, <2>2 DEF Timely
    <2>4. QED
      BY <1>0, <2>1, <2>3 DEF Timely
  <1>4. CASE UNCHANGED <<listed, age, wake>>
    BY <1>4 DEF Timely
  <1>5. QED
    BY <1>1, <1>2, <1>3, <1>4
       DEF Next, Subscribe, ConsumerStop, Environment, NodeStart, NodeAnswer, NodePing,
           NodeStop, vars

LEMMA IInvStep == IInv /\ [Next]_vars => IInv'
  BY TypeStep, TimelyStep DEF IInv

(* The directory's state is well typed in every reachable state.          *)
THEOREM TypeCorrect == Spec => []TypeOK
  BY InitIInv, IInvStep, PTL DEF Spec, IInv

(* Spec 8.9, for every choice of the constants that fits the deadline: no *)
(* node stays in AVAILABLE_NODES more than PingTimeout + Deadline ms after *)
(* the consumer last applied its Description or Ping, whatever the         *)
(* consumer's lag and the order of pings, disconnects and scans.          *)
THEOREM EvictionDeadlineHolds == DeadlineFits => (Spec => []EvictionDeadline)
  <1> SUFFICES ASSUME DeadlineFits PROVE Spec => []EvictionDeadline
    OBVIOUS
  <1>1. IInv => EvictionDeadline
    <2> SUFFICES ASSUME IInv, NEW n \in listed
                 PROVE age[n] * Unit <= PingTimeout + Deadline
      BY DEF EvictionDeadline
    <2>1. age[n] \in Nat /\ age[n] <= Bound /\ Bound \in Nat
      BY NodeAssumption DEF IInv, TypeOK, Timely, Bound, MaxSleep
    <2>2. age[n] * Unit <= Bound * Unit
      BY <2>1, NodeAssumption, MulMonotone
    <2>3. Bound * Unit <= PingTimeout + Deadline
      BY DEF DeadlineFits
    <2>4. QED
      BY <2>2, <2>3, <2>1, NodeAssumption
  <1>2. QED
    BY <1>1, InitIInv, IInvStep, PTL DEF Spec

=============================================================================
