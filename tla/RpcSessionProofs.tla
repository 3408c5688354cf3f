-------------------------- MODULE RpcSessionProofs --------------------------
(***************************************************************************)
(* Proofs about the connection lifecycle of RpcSession, for every set of  *)
(* connections and users and every bound.                                 *)
(***************************************************************************)
EXTENDS RpcSession, TLAPS

-----------------------------------------------------------------------------
(* The frames handle_packet and accept build are frames.                 *)
LEMMA MkFrameType ==
    ASSUME NEW t \in FrameTypes, NEW i \in 0..MaxFrames,
           NEW a \in {"Message", "Other", "none"}
    PROVE  MkFrame(t, i, a) \in Frame
  BY DEF MkFrame, Frame

(* The id fields used by the model are in range.                          *)
LEMMA NoIdType == NoId \in 0..MaxFrames
  BY ConstAssumption DEF NoId

(* Every reachable state starts well typed.                               *)
LEMMA TypeInit == Init => TypeOK
  <1> SUFFICES ASSUME Init PROVE TypeOK
    OBVIOUS
  <1>1. MkFrame("Error", NoId, "none") \in Frame
    BY MkFrameType, NoIdType DEF FrameTypes
  <1>2. QED
    BY <1>1, ConstAssumption DEF Init, TypeOK, ReadStates, HbStates, PumpStates

(* Every step keeps the state well typed: one case per action.            *)
LEMMA TypeStep == TypeOK /\ [Next]_vars => TypeOK'
  <1> SUFFICES ASSUME TypeOK, [Next]_vars PROVE TypeOK'
    OBVIOUS
  <1> USE ConstAssumption, NoIdType DEF TypeOK, FrameTypes,
          SetRl, RemoveAndClose, Respond, ReadFrame, IdBatch, ReadStates,
          HbStates, PumpStates
  <1>1. ASSUME NEW c \in Conns, AcceptFail(c) PROVE TypeOK'
    BY <1>1 DEF AcceptFail
  <1>2. ASSUME NEW c \in Conns, Accept(c) PROVE TypeOK'
    BY <1>2 DEF Accept
  <1>3. ASSUME NEW c \in Conns, ReadEnd(c) \/ ReadClose(c) PROVE TypeOK'
    BY <1>3 DEF ReadEnd, ReadClose
  <1>4. ASSUME NEW c \in Conns, ReadNonBinary(c) PROVE TypeOK'
    <2>1. CASE c \in clients
      <3>1. clients' = clients \ {c} /\ chanOpen' = [chanOpen EXCEPT ![c] = FALSE]
        BY <1>4, <2>1 DEF ReadNonBinary
      <3>2. frames' = [frames EXCEPT ![c] = frames[c] + 1] /\ frames[c] < MaxFrames
        BY <1>4 DEF ReadNonBinary
      <3>3. UNCHANGED <<rl, user, pool, hb, ticks, backlog, pump, resp, emits, nEmits>>
        BY <1>4 DEF ReadNonBinary
      <3>4. QED
        BY <3>1, <3>2, <3>3
    <2>2. CASE c \notin clients
      BY <1>4, <2>2 DEF ReadNonBinary
    <2>3. QED
      BY <2>1, <2>2
  <1>5. ASSUME NEW c \in Conns, ReadUndecodable(c) PROVE TypeOK'
    BY <1>5, MkFrameType DEF ReadUndecodable
  <1>6. ASSUME NEW c \in Conns, ReadIdentify(c) PROVE TypeOK'
    BY <1>6 DEF ReadIdentify
  <1>7. ASSUME NEW c \in Conns, NEW u \in Users, AuthOk(c, u) PROVE TypeOK'
    BY <1>7, MkFrameType DEF AuthOk
  <1>8. ASSUME NEW c \in Conns, AuthFail(c) PROVE TypeOK'
    BY <1>8, MkFrameType DEF AuthFail
  <1>9. ASSUME NEW c \in Conns, ReadHeartbeat(c) PROVE TypeOK'
    BY <1>9, MkFrameType DEF ReadHeartbeat
  <1>10. ASSUME NEW c \in Conns, ReadGetId(c) PROVE TypeOK'
    BY <1>10, MkFrameType DEF ReadGetId
  <1>11. ASSUME NEW c \in Conns, ReadUnknownMethod(c) PROVE TypeOK'
    BY <1>11, MkFrameType DEF ReadUnknownMethod
  <1>12. ASSUME NEW c \in Conns, ReadMessage(c) PROVE TypeOK'
    BY <1>12, MkFrameType DEF ReadMessage
  <1>13. ASSUME NEW c \in Conns, HandlerDone(c) PROVE TypeOK'
    BY <1>13 DEF HandlerDone
  <1>14. ASSUME NEW c \in Conns, Reply(c) PROVE TypeOK'
    BY <1>14 DEF Reply
  <1>15. ASSUME NEW c \in Conns, HbTick(c) PROVE TypeOK'
    BY <1>15 DEF HbTick
  <1>16. ASSUME NEW c \in Conns, HbTimeout(c) PROVE TypeOK'
    BY <1>16 DEF HbTimeout
  <1>17. ASSUME NEW c \in Conns, HbSpin(c) PROVE TypeOK'
    BY <1>17 DEF HbSpin
  <1>18. ASSUME NEW c \in Conns, PumpWrite(c) PROVE TypeOK'
    BY <1>18 DEF PumpWrite
  <1>19. ASSUME NEW c \in Conns, PumpClose(c) \/ PumpFail(c) PROVE TypeOK'
    <2>1. CASE PumpClose(c)
      BY <2>1 DEF PumpClose
    <2>2. CASE PumpFail(c)
      <3>a. pump' = [pump EXCEPT ![c] = "failed"]
            /\ chanOpen' = [chanOpen EXCEPT ![c] = FALSE]
            /\ backlog' = [backlog EXCEPT ![c] = backlog[c] - 1] /\ backlog[c] > 0
        BY <2>2 DEF PumpFail
      <3>b. UNCHANGED <<rl, clients, user, pool, hb, ticks, frames, resp, emits, nEmits>>
        BY <2>2 DEF PumpFail
      <3>c. QED
        BY <3>a, <3>b
    <2>3. QED
      BY <1>19, <2>1, <2>2
  <1>20. ASSUME NEW c \in Conns, EmitSend(c) PROVE TypeOK'
    BY <1>20 DEF EmitSend
  <1>21. ASSUME NEW T \in SUBSET Conns, Fanout(T) PROVE TypeOK'
    BY <1>21 DEF Fanout
  <1>22. CASE UNCHANGED vars
    BY <1>22 DEF vars
  <1>23. QED
    <2>1. ASSUME NEW u \in Users PROVE {c \in clients : user[c] = u} \in SUBSET Conns
      OBVIOUS
    <2>2. clients \in SUBSET Conns
      OBVIOUS
    <2>3. QED
      BY <1>1, <1>2, <1>3, <1>4, <1>5, <1>6, <1>7, <1>8, <1>9, <1>10, <1>11, <1>12, <1>13, <1>14, <1>15, <1>16, <1>17, <1>18, <1>19, <1>20, <1>21, <1>22, <2>1, <2>2
      DEF Next, Connection, Supervisor, WritePump, EmitToId, EmitAll

(* The type invariant holds in every reachable state.                     *)
THEOREM TypeCorrect == Spec => []TypeOK
  BY TypeInit, TypeStep, PTL DEF Spec

-----------------------------------------------------------------------------
(* RegistryConsistent needs no strengthening beyond the type invariant:  *)
(* every action that adds a connection to the registry also opens its    *)
(* channel and starts its supervisor (Accept), and every action that      *)
(* removes it also closes the channel (ReadNonBinary, HbTimeout); the     *)
(* supervisor leaves "waiting" only by removing the entry itself or after *)
(* it is gone (HbSpin); no action returns a connection to init.           *)
IInv == TypeOK /\ RegistryConsistent

LEMMA RegistryInit == Init => RegistryConsistent
  BY DEF Init, RegistryConsistent, Accepted

LEMMA RegistryStep ==
    TypeOK /\ RegistryConsistent /\ [Next]_vars => RegistryConsistent'
  <1> SUFFICES ASSUME TypeOK, RegistryConsistent, [Next]_vars
               PROVE RegistryConsistent'
    OBVIOUS
  <1> USE DEF TypeOK, RegistryConsistent, Accepted, SetRl, RemoveAndClose,
          Respond, ReadFrame
  <1>1. ASSUME NEW c \in Conns, AcceptFail(c) PROVE RegistryConsistent'
    BY <1>1 DEF AcceptFail
  <1>2. ASSUME NEW c \in Conns, Accept(c) PROVE RegistryConsistent'
    BY <1>2 DEF Accept
  <1>3. ASSUME NEW c \in Conns, ReadEnd(c) \/ ReadClose(c) PROVE RegistryConsistent'
    BY <1>3 DEF ReadEnd, ReadClose
  <1>4. ASSUME NEW c \in Conns, ReadNonBinary(c) PROVE RegistryConsistent'
    BY <1>4 DEF ReadNonBinary
  <1>5. ASSUME NEW c \in Conns, ReadUndecodable(c) PROVE RegistryConsistent'
    BY <1>5 DEF ReadUndecodable
  <1>6. ASSUME NEW c \in Conns, ReadIdentify(c) PROVE RegistryConsistent'
    BY <1>6 DEF ReadIdentify
  <1>7. ASSUME NEW c \in Conns, NEW u \in Users, AuthOk(c, u) PROVE RegistryConsistent'
    BY <1>7 DEF AuthOk
  <1>8. ASSUME NEW c \in Conns, AuthFail(c) PROVE RegistryConsistent'
    BY <1>8 DEF AuthFail
  <1>9. ASSUME NEW c \in Conns, ReadHeartbeat(c) PROVE RegistryConsistent'
    BY <1>9 DEF ReadHeartbeat
  <1>10. ASSUME NEW c \in Conns, ReadGetId(c) PROVE RegistryConsistent'
    BY <1>10 DEF ReadGetId
  <1>11. ASSUME NEW c \in Conns, ReadUnknownMethod(c) PROVE RegistryConsistent'
    BY <1>11 DEF ReadUnknownMethod
  <1>12. ASSUME NEW c \in Conns, ReadMessage(c) PROVE RegistryConsistent'
    BY <1>12 DEF ReadMessage
  <1>13. ASSUME NEW c \in Conns, HandlerDone(c) PROVE RegistryConsistent'
    BY <1>13 DEF HandlerDone
  <1>14. ASSUME NEW c \in Conns, Reply(c) PROVE RegistryConsistent'
    BY <1>14 DEF Reply
  <1>15. ASSUME NEW c \in Conns, HbTick(c) PROVE RegistryConsistent'
    BY <1>15 DEF HbTick
  <1>16. ASSUME NEW c \in Conns, HbTimeout(c) PROVE RegistryConsistent'
    BY <1>16 DEF HbTimeout
  <1>17. ASSUME NEW c \in Conns, HbSpin(c) PROVE RegistryConsistent'
    BY <1>17 DEF HbSpin
  <1>18. ASSUME NEW c \in Conns, PumpWrite(c) PROVE RegistryConsistent'
    BY <1>18 DEF PumpWrite
  <1>19. ASSUME NEW c \in Conns, PumpClose(c) \/ PumpFail(c) PROVE RegistryConsistent'
    BY <1>19 DEF PumpClose, PumpFail
  <1>20. ASSUME NEW c \in Conns, EmitSend(c) PROVE RegistryConsistent'
    BY <1>20 DEF EmitSend
  <1>21. ASSUME NEW T \in SUBSET Conns, Fanout(T) PROVE RegistryConsistent'
    BY <1>21 DEF Fanout
  <1>22. CASE UNCHANGED vars
    BY <1>22 DEF vars
  <1>23. QED
    <2>1. ASSUME NEW u \in Users PROVE {c \in clients : user[c] = u} \in SUBSET Conns
      OBVIOUS
    <2>2. clients \in SUBSET Conns
      OBVIOUS
    <2>3. QED
      BY <1>1, <1>2, <1>3, <1>4, <1>5, <1>6, <1>7, <1>8, <1>9, <1>10, <1>11, <1>12, <1>13, <1>14, <1>15, <1>16, <1>17, <1>18, <1>19, <1>20, <1>21, <1>22, <2>1, <2>2
      DEF Next, Connection, Supervisor, WritePump, EmitToId, EmitAll

(* The registry and the outbound channels stay coupled in every reachable *)
(* state, whatever the number of connections and the bounds.              *)
THEOREM RegistryConsistency == Spec => []RegistryConsistent
  BY TypeInit, TypeStep, RegistryInit, RegistryStep, PTL DEF Spec

(* No frame is ever queued on the channel of an evicted session: the only *)
(* actions that queue (Reply, EmitSend) need the session registered or    *)
(* its channel open, which RegistryConsistent makes the same thing.       *)
LEMMA SilentStep ==
    TypeOK /\ RegistryConsistent /\ [Next]_vars
      => \A c \in Conns : Accepted(c) /\ c \notin clients => backlog'[c] <= backlog[c]
  <1> SUFFICES ASSUME TypeOK, RegistryConsistent, [Next]_vars,
                      NEW c \in Conns, Accepted(c), c \notin clients
               PROVE  backlog'[c] <= backlog[c]
    OBVIOUS
  <1> USE DEF TypeOK, Accepted
  <1>1. ~chanOpen[c]
    BY DEF RegistryConsistent
  <1>2. ASSUME NEW d \in Conns, Connection(d) PROVE backlog'[c] <= backlog[c]
    BY <1>2, <1>1 DEF Connection, AcceptFail, Accept, ReadEnd, ReadNonBinary,
       ReadUndecodable, ReadIdentify, AuthOk, AuthFail, ReadHeartbeat,
       ReadGetId, ReadUnknownMethod, ReadMessage, HandlerDone, Reply, SetRl,
       RemoveAndClose, Respond, ReadFrame, ReadClose
  <1>3. ASSUME NEW d \in Conns, Supervisor(d) \/ WritePump(d) \/ PumpFail(d)
        PROVE backlog'[c] <= backlog[c]
    BY <1>3 DEF Supervisor, HbTick, HbTimeout, HbSpin, WritePump, PumpWrite,
       PumpClose, PumpFail, RemoveAndClose
  <1>4. ASSUME NEW d \in Conns, EmitSend(d) PROVE backlog'[c] <= backlog[c]
    BY <1>4, <1>1 DEF EmitSend
  <1>5. ASSUME NEW T, Fanout(T) PROVE backlog'[c] <= backlog[c]
    BY <1>5 DEF Fanout
  <1>6. CASE UNCHANGED vars
    BY <1>6 DEF vars
  <1>7. QED
    BY <1>2, <1>3, <1>4, <1>5, <1>6 DEF Next, EmitToId, EmitAll

(* Spec satisfies the action property SilentAfterEviction.                *)
THEOREM SilentAfterEvictionHolds == Spec => SilentAfterEviction
  <1>1. IInv /\ [Next]_vars => IInv'
    BY TypeStep, RegistryStep DEF IInv
  <1>2. Init => IInv
    BY TypeInit, RegistryInit DEF IInv
  <1>3. IInv /\ [Next]_vars
          => [\A c \in Conns : Accepted(c) /\ c \notin clients
                 => backlog'[c] <= backlog[c]]_vars
    BY SilentStep DEF IInv
  <1>4. QED
    BY <1>1, <1>2, <1>3, PTL DEF Spec, SilentAfterEviction

-----------------------------------------------------------------------------
(* Refinement of SessionRegistry.  Besides RegistryConsistent the         *)
(* mapping needs to know that a connection that never got past its        *)
(* handshake has nothing queued, no open channel and no user: then        *)
(* Accept's Hello is exactly one more frame, and EmitSend and PumpWrite   *)
(* cannot touch such a connection.                                        *)
Unaccepted ==
    \A c \in Conns :
        ~Accepted(c) => ~chanOpen[c] /\ backlog[c] = 0 /\ user[c] = NoUser

RInv == TypeOK /\ RegistryConsistent /\ Unaccepted

(* The session phases the refinement mapping gives.                       *)
Sess == [c \in Conns |-> SessionOf(c)]

LEMMA UnacceptedInit == Init => Unaccepted
  BY DEF Init, Unaccepted, Accepted

(* The handshake is behind a connection for good: no step takes the read *)
(* loop back to init or to refused, except AcceptFail from init.          *)
LEMMA HandshakeFinal ==
    ASSUME TypeOK, [Next]_vars, NEW d \in Conns, rl'[d] \in {"init", "refused"}
    PROVE  rl[d] \in {"init", "refused"}
  <1> DEFINE Fwd(c) == \E s \in ReadStates \ {"init", "refused"} :
                          rl' = [rl EXCEPT ![c] = s]
  <1>1. ASSUME NEW c \in Conns, Fwd(c) PROVE rl[d] \in {"init", "refused"}
    BY <1>1 DEF TypeOK
  <1>2. ASSUME NEW c \in Conns, AcceptFail(c) PROVE rl[d] \in {"init", "refused"}
    BY <1>2 DEF AcceptFail, SetRl, TypeOK
  <1>3. ASSUME NEW c \in Conns,
               \/ Accept(c) \/ ReadEnd(c) \/ ReadIdentify(c) \/ ReadMessage(c)
               \/ HandlerDone(c) \/ ReadUndecodable(c) \/ ReadUnknownMethod(c)
               \/ AuthFail(c)
        PROVE  Fwd(c)
    BY <1>3 DEF Accept, ReadEnd, ReadIdentify, ReadMessage, HandlerDone,
       ReadUndecodable, ReadUnknownMethod, AuthFail, SetRl, Respond, ReadStates
  <1>4. ASSUME NEW c \in Conns,
               \/ \E u \in Users : AuthOk(c, u)
               \/ ReadHeartbeat(c) \/ ReadGetId(c) \/ Reply(c)
        PROVE  Fwd(c)
    BY <1>4 DEF AuthOk, ReadHeartbeat, ReadGetId, Reply, SetRl, Respond, ReadStates
  <1>5. ASSUME NEW c \in Conns,
               \/ ReadClose(c) \/ ReadNonBinary(c) \/ Supervisor(c)
               \/ WritePump(c) \/ EmitSend(c) \/ PumpFail(c)
        PROVE  rl' = rl
    BY <1>5 DEF ReadClose, ReadNonBinary, Supervisor, HbTick, HbTimeout, HbSpin,
       WritePump, PumpWrite, PumpClose, EmitSend, PumpFail
  <1>6. ASSUME NEW T, Fanout(T) PROVE rl' = rl
    BY <1>6 DEF Fanout
  <1>7. CASE rl' = rl
    BY <1>7
  <1>8. QED
    BY <1>1, <1>2, <1>3, <1>4, <1>5, <1>6, <1>7
    DEF Next, Connection, EmitToId, EmitAll, vars

LEMMA UnacceptedStep == RInv /\ [Next]_vars => Unaccepted'
  <1> SUFFICES ASSUME RInv, [Next]_vars, NEW d \in Conns, ~Accepted(d)'
               PROVE  ~chanOpen'[d] /\ backlog'[d] = 0 /\ user'[d] = NoUser
    BY DEF Unaccepted
  <1> USE DEF RInv, TypeOK, Accepted
  <1>0. ~Accepted(d) /\ ~chanOpen[d] /\ backlog[d] = 0 /\ user[d] = NoUser
    <2>1. rl'[d] \in {"init", "refused"}
      OBVIOUS
    <2>2. rl[d] \in {"init", "refused"}
      BY <2>1, HandshakeFinal
    <2>3. QED
      BY <2>2 DEF Unaccepted
  <1>1. ASSUME NEW c \in Conns, Connection(c)
        PROVE  ~chanOpen'[d] /\ backlog'[d] = 0 /\ user'[d] = NoUser
    BY <1>0, <1>1 DEF Connection, AcceptFail, Accept, ReadEnd, ReadClose,
       ReadNonBinary, ReadUndecodable, ReadIdentify, AuthOk, AuthFail,
       ReadHeartbeat, ReadGetId, ReadUnknownMethod, ReadMessage, HandlerDone,
       Reply, SetRl, Respond, ReadFrame, RemoveAndClose
  <1>2. ASSUME NEW c \in Conns,
               Supervisor(c) \/ WritePump(c) \/ EmitSend(c) \/ PumpFail(c)
        PROVE  ~chanOpen'[d] /\ backlog'[d] = 0 /\ user'[d] = NoUser
    BY <1>0, <1>2 DEF Supervisor, HbTick, HbTimeout, HbSpin, WritePump,
       PumpWrite, PumpClose, PumpFail, EmitSend, RemoveAndClose
  <1>3. ASSUME NEW T, Fanout(T)
        PROVE  ~chanOpen'[d] /\ backlog'[d] = 0 /\ user'[d] = NoUser
    BY <1>0, <1>3 DEF Fanout
  <1>4. CASE UNCHANGED vars
    BY <1>0, <1>4 DEF vars
  <1>5. QED
    BY <1>1, <1>2, <1>3, <1>4 DEF Next, EmitToId, EmitAll

LEMMA RInvInit == Init => RInv
  BY TypeInit, RegistryInit, UnacceptedInit DEF RInv

LEMMA RInvStep == RInv /\ [Next]_vars => RInv'
  BY TypeStep, RegistryStep, UnacceptedStep DEF RInv

(* A read loop step between accepted states that leaves the registry     *)
(* alone leaves every session's phase alone.                              *)
LEMMA SessKept ==
    ASSUME TypeOK, NEW c \in Conns, NEW st \in ReadStates \ {"init", "refused"},
           rl[c] \notin {"init", "refused"},
           rl' = [rl EXCEPT ![c] = st], clients' = clients
    PROVE  Sess' = Sess
  BY DEF Sess, SessionOf, TypeOK

(* Every step of the session layer is a step of SessionRegistry under the *)
(* mapping, or leaves the phases, the users and the queues as they are.   *)
LEMMA RefineStep == RInv /\ [Next]_vars => [Abs!SNext]_Abs!svars
  <1> SUFFICES ASSUME RInv, [Next]_vars PROVE [Abs!SNext]_Abs!svars
    OBVIOUS
  <1> USE DEF RInv
  <1>t. TypeOK /\ RegistryConsistent /\ Unaccepted
    OBVIOUS
  <1>u. Sess' = Sess /\ user' = user /\ backlog' = backlog => [Abs!SNext]_Abs!svars
    BY DEF Abs!svars, Sess
  <1>n. ASSUME NEW c \in Conns,
               \/ Abs!Refuse(c) \/ Abs!Open(c) \/ Abs!Enqueue(c)
               \/ Abs!Drain(c) \/ Abs!Evict(c) \/ \E u \in Users : Abs!Bind(c, u)
        PROVE  [Abs!SNext]_Abs!svars
    BY <1>n DEF Abs!SNext
  <1>1. ASSUME NEW c \in Conns, AcceptFail(c) PROVE [Abs!SNext]_Abs!svars
    <2>1. Abs!Refuse(c)
      BY <1>1, <1>t DEF AcceptFail, SetRl, Abs!Refuse, Sess, SessionOf, TypeOK
    <2>2. QED
      BY <2>1, <1>n
  <1>2. ASSUME NEW c \in Conns, Accept(c) PROVE [Abs!SNext]_Abs!svars
    <2>1. rl[c] = "init" /\ backlog[c] = 0
      BY <1>2, <1>t DEF Accept, Unaccepted, Accepted
    <2>2. Sess' = [Sess EXCEPT ![c] = "live"]
      <3>1. rl' = [rl EXCEPT ![c] = "read"] /\ clients' = clients \cup {c}
        BY <1>2 DEF Accept, SetRl
      <3>2. \A x \in Conns : x # c => SessionOf(x)' = SessionOf(x)
        BY <3>1, <1>t DEF SessionOf, TypeOK
      <3>3. SessionOf(c)' = "live"
        BY <3>1, <1>t DEF SessionOf, TypeOK
      <3>4. QED
        BY <3>2, <3>3 DEF Sess
    <2>3. Sess[c] = "new"
      BY <2>1 DEF Sess, SessionOf
    <2>4. /\ user' = [user EXCEPT ![c] = NoUser]
          /\ backlog' = [backlog EXCEPT ![c] = backlog[c] + 1]
      BY <1>2, <2>1, <1>t DEF Accept, TypeOK
    <2>5. Abs!Open(c)
      BY <2>2, <2>3, <2>4 DEF Abs!Open, Sess
    <2>6. QED
      BY <2>5, <1>n
  <1>3. ASSUME NEW c \in Conns, rl[c] \notin {"init", "refused"},
               NEW st \in ReadStates \ {"init", "refused"},
               rl' = [rl EXCEPT ![c] = st],
               clients' = clients, user' = user, backlog' = backlog
        PROVE  [Abs!SNext]_Abs!svars
    BY <1>3, <1>t, <1>u, SessKept
  <1>r. ASSUME NEW c \in Conns,
               \/ ReadEnd(c) \/ ReadClose(c) \/ ReadUndecodable(c)
               \/ ReadIdentify(c) \/ AuthFail(c) \/ ReadUnknownMethod(c)
               \/ ReadMessage(c) \/ HandlerDone(c) \/ ReadHeartbeat(c)
               \/ ReadGetId(c)
        PROVE  [Abs!SNext]_Abs!svars
    <2>1. CASE ReadEnd(c)
      BY <2>1, <1>3 DEF ReadEnd, SetRl, ReadStates
    <2>2. CASE ReadClose(c)
      <3>1. rl[c] = "read" /\ rl' = [rl EXCEPT ![c] = "read"]
        BY <2>2, <1>t DEF ReadClose, ReadFrame, TypeOK
      <3>2. QED
        BY <2>2, <3>1, <1>3 DEF ReadClose, ReadStates
    <2>3. CASE ReadUndecodable(c) \/ ReadUnknownMethod(c)
      BY <2>3, <1>3 DEF ReadUndecodable, ReadUnknownMethod, ReadFrame, Respond,
         SetRl, ReadStates
    <2>4. CASE ReadIdentify(c) \/ ReadMessage(c)
      BY <2>4, <1>3 DEF ReadIdentify, ReadMessage, ReadFrame, SetRl, ReadStates
    <2>5. CASE AuthFail(c) \/ HandlerDone(c)
      BY <2>5, <1>3 DEF AuthFail, HandlerDone, Respond, SetRl, ReadStates
    <2>6. CASE ReadHeartbeat(c)
      BY <2>6, <1>3 DEF ReadHeartbeat, ReadFrame, Respond, SetRl, ReadStates
    <2>7. CASE ReadGetId(c)
      BY <2>7, <1>3 DEF ReadGetId, ReadFrame, Respond, SetRl, ReadStates
    <2>8. QED
      BY <1>r, <2>1, <2>2, <2>3, <2>4, <2>5, <2>6, <2>7
  <1>4. ASSUME NEW c \in Conns, ReadNonBinary(c) PROVE [Abs!SNext]_Abs!svars
    <2>1. CASE c \in clients
      <3>a. Abs!Evict(c)
        BY <1>4, <2>1, <1>t DEF ReadNonBinary, ReadFrame, RemoveAndClose,
           Abs!Evict, Sess, SessionOf, TypeOK
      <3>b. QED
        BY <3>a, <1>n
    <2>2. CASE c \notin clients
      <3>1. rl' = rl /\ clients' = clients /\ user' = user /\ backlog' = backlog
        BY <1>4, <2>2 DEF ReadNonBinary
      <3>2. Sess' = Sess
        BY <3>1 DEF Sess, SessionOf
      <3>3. QED
        BY <3>1, <3>2, <1>u
    <2>3. QED
      BY <2>1, <2>2
  <1>5. ASSUME NEW c \in Conns, NEW u \in Users, AuthOk(c, u)
        PROVE  [Abs!SNext]_Abs!svars
    <2>1. CASE c \in clients
      <3>a. Abs!Bind(c, u)
        BY <1>5, <2>1, <1>t DEF AuthOk, SetRl, Respond, Abs!Bind, Sess,
           SessionOf, TypeOK
      <3>b. QED
        BY <3>a, <1>n
    <2>2. CASE c \notin clients
      <3>a. rl[c] = "auth" /\ rl' = [rl EXCEPT ![c] = "panic"] /\ clients' = clients
            /\ user' = user /\ backlog' = backlog
        BY <1>5, <2>2 DEF AuthOk, SetRl
      <3>b. QED
        BY <3>a, <1>t, <1>u, SessKept DEF ReadStates
    <2>3. QED
      BY <2>1, <2>2
  <1>6. ASSUME NEW c \in Conns, Reply(c) PROVE [Abs!SNext]_Abs!svars
    <2>1. CASE c \in clients /\ chanOpen[c]
      <3>a. Abs!Enqueue(c)
        BY <1>6, <2>1, <1>t DEF Reply, SetRl, Abs!Enqueue, Sess, SessionOf,
           TypeOK
      <3>b. QED
        BY <3>a, <1>n
    <2>2. CASE ~(c \in clients /\ chanOpen[c])
      <3>a. rl[c] = "reply" /\ rl' = [rl EXCEPT ![c] = "panic"] /\ clients' = clients
            /\ user' = user /\ backlog' = backlog
        BY <1>6, <2>2 DEF Reply, SetRl
      <3>b. QED
        BY <3>a, <1>t, <1>u, SessKept DEF ReadStates
    <2>3. QED
      BY <2>1, <2>2
  <1>7. ASSUME NEW c \in Conns,
               HbTick(c) \/ HbSpin(c) \/ PumpClose(c)
        PROVE  [Abs!SNext]_Abs!svars
    BY <1>7, <1>u DEF HbTick, HbSpin, PumpClose, Sess, SessionOf
  <1>8. ASSUME NEW c \in Conns, HbTimeout(c) PROVE [Abs!SNext]_Abs!svars
    <2>1. Abs!Evict(c)
      BY <1>8, <1>t DEF HbTimeout, RemoveAndClose, RegistryConsistent, Accepted,
         Abs!Evict, Sess, SessionOf, TypeOK
    <2>2. QED
      BY <2>1, <1>n
  <1>9. ASSUME NEW c \in Conns, PumpWrite(c) \/ PumpFail(c)
        PROVE  [Abs!SNext]_Abs!svars
    <2>1. Abs!Drain(c)
      BY <1>9, <1>t DEF PumpWrite, PumpFail, Abs!Drain, Sess, SessionOf
    <2>2. QED
      BY <2>1, <1>n
  <1>10. ASSUME NEW c \in Conns, EmitSend(c) PROVE [Abs!SNext]_Abs!svars
    <2>1. CASE chanOpen[c]
      <3>a. Accepted(c) /\ c \in clients
        BY <2>1, <1>t DEF Unaccepted, RegistryConsistent, TypeOK
      <3>b. Abs!Enqueue(c)
        BY <1>10, <2>1, <3>a, <1>t DEF EmitSend, Abs!Enqueue, Sess, SessionOf,
           Accepted, TypeOK
      <3>c. QED
        BY <3>b, <1>n
    <2>2. CASE ~chanOpen[c]
      BY <1>10, <2>2, <1>u DEF EmitSend, Sess, SessionOf
    <2>3. QED
      BY <2>1, <2>2
  <1>11. ASSUME NEW T, Fanout(T) PROVE [Abs!SNext]_Abs!svars
    BY <1>11, <1>u DEF Fanout, Sess, SessionOf
  <1>12. CASE UNCHANGED vars
    BY <1>12, <1>u DEF vars, Sess, SessionOf
  <1>13. QED
    BY <1>1, <1>2, <1>r, <1>4, <1>5, <1>6, <1>7, <1>8, <1>9, <1>10, <1>11, <1>12
    DEF Next, Connection, Supervisor, WritePump, EmitToId, EmitAll

(* RpcSession implements SessionRegistry under the mapping SessionOf,     *)
(* for every set of connections and users and every bound: initial states *)
(* map to the initial state and every step to a step or a stutter.        *)
THEOREM Refinement == Spec => RegistrySpec
  <1>1. Init => Abs!SInit
    BY DEF Init, Abs!SInit, SessionOf
  <1>2. QED
    BY <1>1, RInvInit, RInvStep, RefineStep, PTL
    DEF Spec, RegistrySpec, Abs!SSpec

=============================================================================
