--------------------------- MODULE SessionRegistry ---------------------------
(***************************************************************************)
(* What the rapid session layer (src/crates/rapid/src/socket.rs) promises *)
(* its users, without tasks, channels or heartbeats: every connection is  *)
(* opened at most once, is live from its registration until it is        *)
(* evicted and never live again; a user is bound only to a live session;  *)
(* frames are queued for a connection only while its session is live,    *)
(* and the queue drains one frame at a time in any state.                 *)
(*                                                                         *)
(* RpcSession implements this specification (see RegistrySpec there).    *)
(***************************************************************************)
EXTENDS Naturals

CONSTANTS
    Conns,      \* connections the listener accepts
    Users,      \* user identities the authenticator can return
    NoUser      \* no user bound

(* Life of one session: not yet registered, in the registry, gone for     *)
(* good (refused at the handshake or evicted).                            *)
Phases == {"new", "live", "gone"}

VARIABLES
    session,    \* phase of each connection's session
    owner,      \* user bound to each session
    out         \* frames queued for each connection and not yet written

svars == <<session, owner, out>>

STypeOK ==
    /\ session \in [Conns -> Phases]
    /\ owner \in [Conns -> Users \cup {NoUser}]
    /\ out \in [Conns -> Nat]

SInit ==
    /\ session = [c \in Conns |-> "new"]
    /\ owner = [c \in Conns |-> NoUser]
    /\ out = [c \in Conns |-> 0]

(* The handshake fails: the connection never gets a session.             *)
Refuse(c) ==
    /\ session[c] = "new"
    /\ session' = [session EXCEPT ![c] = "gone"]
    /\ UNCHANGED <<owner, out>>

(* The session is registered with no user, and Hello is queued.          *)
Open(c) ==
    /\ session[c] = "new"
    /\ session' = [session EXCEPT ![c] = "live"]
    /\ owner' = [owner EXCEPT ![c] = NoUser]
    /\ out' = [out EXCEPT ![c] = @ + 1]

(* Identify succeeds on a live session and binds user u to it.           *)
Bind(c, u) ==
    /\ session[c] = "live"
    /\ owner' = [owner EXCEPT ![c] = u]
    /\ UNCHANGED <<session, out>>

(* A reply or an event is queued for a live session.                     *)
Enqueue(c) ==
    /\ session[c] = "live"
    /\ out' = [out EXCEPT ![c] = @ + 1]
    /\ UNCHANGED <<session, owner>>

(* The writer sends the oldest queued frame to the socket.               *)
Drain(c) ==
    /\ out[c] > 0
    /\ out' = [out EXCEPT ![c] = @ - 1]
    /\ UNCHANGED <<session, owner>>

(* The session leaves the registry for good.                             *)
Evict(c) ==
    /\ session[c] = "live"
    /\ session' = [session EXCEPT ![c] = "gone"]
    /\ UNCHANGED <<owner, out>>

SNext ==
    \E c \in Conns :
        \/ Refuse(c) \/ Open(c) \/ Enqueue(c) \/ Drain(c) \/ Evict(c)
        \/ \E u \in Users : Bind(c, u)

SSpec == SInit /\ [][SNext]_svars

=============================================================================
