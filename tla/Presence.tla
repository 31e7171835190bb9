------------------------------- MODULE Presence -------------------------------
(***************************************************************************)
(* The presence gateway (presence.gateway.ts) and the keys it keeps in      *)
(* Redis (presence.service.ts): a socket is connected, bound to its user    *)
(* when the answer of Redis has come, put into its user's room when its     *)
(* client asks for it, and disconnected at any time.                        *)
(*                                                                          *)
(* The commands of the gateway go through one connection to Redis, which    *)
(* executes them in the order in which they are issued: a command takes     *)
(* effect when it is issued, its answer comes in a later step.              *)
(***************************************************************************)
EXTENDS Naturals, FiniteSets

CONSTANTS Users,         \* user ids, the subjects of the tokens
          Nobody,        \* the user of a slot without a connection, "undefined" as a room
          Sockets,       \* slots for client connections
          ConnectBound   \* bound: connections in a behaviour

ASSUME NobodyIsNoUser == Nobody \notin Users
ASSUME ConnectBoundAssumption == ConnectBound \in Nat

VARIABLES token,   \* the user in the verified token of each connected socket
          bound,   \* client.data.userId
          rooms,   \* the rooms of each socket, named by a user or by "undefined"
          key,     \* the users with a key online:user:<id> in Redis
          connects \* connections so far

presenceVars == <<token, bound, rooms, key, connects>>

Live(u)   == \E s \in Sockets : token[s] = u
InRoom(u) == {s \in Sockets : u \in rooms[s]}

PresenceInit ==
  /\ token = [s \in Sockets |-> Nobody]
  /\ bound = [s \in Sockets |-> Nobody]
  /\ rooms = [s \in Sockets |-> {}]
  /\ key = {}
  /\ connects = 0

PresenceTypeOK ==
  /\ token \in [Sockets -> Users \union {Nobody}]
  /\ bound \in [Sockets -> Users \union {Nobody}]
  /\ rooms \in [Sockets -> SUBSET (Users \union {Nobody})]
  /\ key \in SUBSET Users
  /\ connects \in Nat

Hangup(s) ==
  /\ token' = [token EXCEPT ![s] = Nobody]
  /\ bound' = [bound EXCEPT ![s] = Nobody]
  /\ rooms' = [rooms EXCEPT ![s] = {}]

-----------------------------------------------------------------------------
(* Mutants of the operators below.                                          *)

\* A client names the room itself.
handleJoinMutant(s) == \E u \in Users :
  /\ token[s] # Nobody
  /\ rooms' = [rooms EXCEPT ![s] = @ \union {u}]
  /\ UNCHANGED <<token, bound, key, connects>>

\* The key is written without EX.
ExpireMutant(u) == FALSE /\ UNCHANGED presenceVars

-----------------------------------------------------------------------------
(* SET online:user:<id> ... EX 300.                                         *)
setOnline(u) == key' = key \union {u}

(* DEL online:user:<id>, whichever socket has written it.                   *)
removeOnline(u) == key' = key \ {u}

(* GET online:user:<id>.                                                    *)
isOnline(u) == u \in key

(* The key's 300 seconds are over.                                          *)
Expire(u) ==
  /\ u \in key
  /\ key' = key \ {u}
  /\ UNCHANGED <<token, bound, rooms, connects>>

(* handleConnection up to its await: the token is valid, SET is issued. A   *)
(* token that is refused leaves nothing behind.                             *)
handleConnection(s) == \E u \in Users :
  /\ token[s] = Nobody
  /\ connects < ConnectBound
  /\ connects' = connects + 1
  /\ token' = [token EXCEPT ![s] = u]
  /\ setOnline(u)
  /\ UNCHANGED <<bound, rooms>>

(* The rest of handleConnection: Redis has answered.                        *)
Bind(s) ==
  /\ token[s] # Nobody
  /\ bound[s] = Nobody
  /\ bound' = [bound EXCEPT ![s] = token[s]]
  /\ UNCHANGED <<token, rooms, key, connects>>

(* Its catch block: no answer has come, though SET has taken effect; the    *)
(* socket is disconnected without a bound user, so that handleDisconnect    *)
(* removes nothing. (A SET that was not executed leaves nothing behind.)    *)
Refuse(s) ==
  /\ token[s] # Nobody
  /\ bound[s] = Nobody
  /\ Hangup(s)
  /\ UNCHANGED <<key, connects>>

handleDisconnect(s) ==
  /\ token[s] # Nobody
  /\ Hangup(s)
  /\ IF bound[s] # Nobody THEN removeOnline(bound[s]) ELSE UNCHANGED key
  /\ UNCHANGED connects

(* "set-online": the socket joins the room named by what is bound so far.   *)
handleJoin(s) ==
  /\ token[s] # Nobody
  /\ rooms' = [rooms EXCEPT ![s] = @ \union {bound[s]}]
  /\ UNCHANGED <<token, bound, key, connects>>

(* The process dies: the sockets are gone, the keys stay until they expire. *)
PresenceCrash ==
  /\ token' = [s \in Sockets |-> Nobody]
  /\ bound' = [s \in Sockets |-> Nobody]
  /\ rooms' = [s \in Sockets |-> {}]
  /\ UNCHANGED <<key, connects>>

SocketNext(s) ==
  \/ handleConnection(s)
  \/ Bind(s)
  \/ Refuse(s)
  \/ handleDisconnect(s)
  \/ handleJoin(s)
=============================================================================
