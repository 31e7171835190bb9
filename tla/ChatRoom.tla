------------------------------- MODULE ChatRoom -------------------------------
(***************************************************************************)
(* One chat: the socket.io gateway (chat.gateway.ts), the chat service      *)
(* behind RabbitMQ (chat.controller.ts, chat.service.ts) and rmqSend, which *)
(* joins them (rmq-utils.nest.ts).                                          *)
(*                                                                          *)
(* An event is one run of a gateway handler. The handlers of a socket run   *)
(* concurrently with each other and with its handleConnection. An event's   *)
(* request waits in the queue, is taken at most once (the consumers use     *)
(* noAck), and its answer is dropped when rmqSend has given up by then.     *)
(* Chats share nothing but the process; no operation changes the members of *)
(* a chat or ends it, so the two checks of the service read constants.      *)
(***************************************************************************)
EXTENDS Naturals, Sequences, FiniteSets

CONSTANTS Users,       \* user ids
          Members,     \* the users with a chat-user row of this chat
          Nobody,      \* the user of a slot without a connection
          Sockets,     \* slots for client connections
          Events,      \* slots for gateway handlers that run at the same time
          Kinds,       \* bound: the events clients send, of "join", "send", "image"
          Faults,      \* bound: what goes wrong, of "timeout", "error", "crash"
          MessageBound \* bound: messages stored or being sent

ASSUME MembersAssumption == Members \subseteq Users
ASSUME NobodyAssumption == Nobody \notin Users
ASSUME KindsAssumption == Kinds \subseteq {"join", "send", "image"}
ASSUME FaultsAssumption == Faults \subseteq {"timeout", "error", "crash"}
ASSUME MessageBoundAssumption == MessageBound \in Nat

VARIABLES sock,      \* the user in the token of each connected socket
          room,      \* the sockets in the socket.io room of the chat
          messages,  \* the table message: authors, in the order of creation
          seen,      \* the messages each connected client has been shown
          event     \* each handler's local state, with its request and answer

vars == <<sock, room, messages, seen, event>>

Idle == [phase |-> "idle"]

(* phase: where the event's request is; awaited: rmqSend still waits for it; *)
(* got: the message ids in the answer; ok: the answer says success.          *)
EventType == [phase : {"upload", "queued", "working", "replied"}, kind : Kinds,
              s : Sockets, user : Users, awaited : BOOLEAN, ok : BOOLEAN, got : SUBSET Nat]

Connected == {s \in Sockets : sock[s] # Nobody}
Pending   == {e \in Events : event[e] # Idle}
Writing   == {e \in Pending : event[e].kind # "join"}

Init ==
  /\ sock = [s \in Sockets |-> Nobody]
  /\ room = {}
  /\ messages = <<>>
  /\ seen = [s \in Sockets |-> {}]
  /\ event = [e \in Events |-> Idle]

To(e, phase) == event' = [event EXCEPT ![e].phase = phase]
End(e)       == event' = [event EXCEPT ![e] = Idle]

(* socket.io takes a socket that disconnects out of its rooms; what its     *)
(* client has been shown is forgotten.                                      *)
Leave(s) ==
  /\ sock' = [sock EXCEPT ![s] = Nobody]
  /\ room' = room \ {s}
  /\ seen' = [seen EXCEPT ![s] = {}]

(* An answer that comes after rmqSend has given up is dropped.              *)
Answer(e, ok, ids) ==
  event' = [event EXCEPT ![e] =
    IF @.awaited THEN [@ EXCEPT !.phase = "replied", !.ok = ok, !.got = ids] ELSE Idle]

Show(S, ids) == seen' = [s \in Sockets |-> IF s \in S THEN seen[s] \union ids ELSE seen[s]]

-----------------------------------------------------------------------------
(* Mutants of the operators below.                                          *)

\* The service trusts the check of handleConnection.
AllowedMutant(u) == u \in Users

\* The catch block of sendMessage answers with success.
FailMutant(e) ==
  /\ Answer(e, TRUE, {Len(messages) + 1})
  /\ UNCHANGED messages

\* The join of a socket that has left meanwhile is carried out.
JoinedMutant(s) == room \union {s}

\* rmqSend has no time limit.
TimeoutMutant(e) == FALSE /\ UNCHANGED vars

\* handleJoinChat reads the user without waiting for handleConnection to set it.
ReceiveMutant(e) == \E s \in Sockets, k \in Kinds :
  /\ event[e] = Idle
  /\ event' = [event EXCEPT ![e] =
       [phase |-> IF k = "image" THEN "upload" ELSE "queued", kind |-> k, s |-> s,
        user |-> sock[s], awaited |-> TRUE, ok |-> FALSE, got |-> {}]]
  /\ UNCHANGED <<sock, room, messages, seen>>

-----------------------------------------------------------------------------
(* handleConnection sets the user before its first await; from then on the  *)
(* events of the socket are handled, while chat_user is read. A slot is used *)
(* again when no handler refers to its former connection.                   *)
Connect(s) == \E u \in Users :
  /\ s \notin Connected
  /\ ~ \E e \in Pending : event[e].awaited /\ event[e].s = s
  /\ sock' = [sock EXCEPT ![s] = u]
  /\ UNCHANGED <<room, messages, seen, event>>

(* The client leaves, or the query of handleConnection ends in its refusal: *)
(* the user is no member, or the query has failed. Its success changes      *)
(* nothing.                                                                 *)
Disconnect(s) ==
  /\ s \in Connected
  /\ Leave(s)
  /\ UNCHANGED <<messages, event>>

(* handleJoinChat, handleSendMessage, handleUploadImage up to the first await. *)
Receive(e) == \E s \in Connected, k \in Kinds :
  /\ event[e] = Idle
  /\ k # "join" => Len(messages) + Cardinality(Writing) < MessageBound
  /\ event' = [event EXCEPT ![e] =
       [phase |-> IF k = "image" THEN "upload" ELSE "queued", kind |-> k, s |-> s,
        user |-> sock[s], awaited |-> TRUE, ok |-> FALSE, got |-> {}]]
  /\ UNCHANGED <<sock, room, messages, seen>>

(* mediaService.uploadMedia, called directly; its failure ends the handler. *)
Upload(e) ==
  /\ event[e].phase = "upload"
  /\ To(e, "queued") \/ ("error" \in Faults /\ End(e))
  /\ UNCHANGED <<sock, room, messages, seen>>

-----------------------------------------------------------------------------
(* The consumer takes the request; it is gone from the queue.               *)
Take(e) ==
  /\ event[e].phase = "queued"
  /\ To(e, "working")
  /\ UNCHANGED <<sock, room, messages, seen>>

(* checkIfUserAllowedInChat: a chat-user row of the user.                   *)
Allowed(u) == u \in Members

Fail(e) == Answer(e, FALSE, {}) /\ UNCHANGED messages

ReadHistory(e) == Answer(e, TRUE, 1 .. Len(messages)) /\ UNCHANGED messages

(* One row, whose id is in the answer.                                      *)
Store(e) ==
  /\ messages' = Append(messages, event[e].user)
  /\ Answer(e, TRUE, {Len(messages) + 1})

(* getChatHistory, sendMessage and uploadImage of the service.              *)
Serve(e) ==
  /\ event[e].phase = "working"
  /\ \/ ~ Allowed(event[e].user) /\ Fail(e)
     \/ "error" \in Faults /\ Fail(e)
     \/ Allowed(event[e].user) /\ event[e].kind = "join" /\ ReadHistory(e)
     \/ Allowed(event[e].user) /\ event[e].kind # "join" /\ Store(e)
  /\ UNCHANGED <<sock, room, seen>>

-----------------------------------------------------------------------------
(* The error branch of the handlers: an image that fails is only logged.    *)
Refuse(e) ==
  IF event[e].kind \in {"join", "send"} THEN Leave(event[e].s)
  ELSE UNCHANGED <<sock, room, seen>>

(* socket.io: a socket that has disconnected joins no room any more.        *)
Joined(s) == IF s \in Connected THEN room \union {s} ELSE room

(* The handler passed to rmqSend, called with the answer.                   *)
Handle(e) ==
  /\ event[e].phase = "replied" /\ event[e].awaited
  /\ \/ ~ event[e].ok /\ Refuse(e)
     \/ /\ event[e].ok /\ event[e].kind = "join"
        /\ Show({event[e].s} \intersect Connected, event[e].got)
        /\ room' = Joined(event[e].s)
        /\ UNCHANGED sock
     \/ /\ event[e].ok /\ event[e].kind # "join"
        /\ Show(room \intersect Connected, event[e].got)
        /\ UNCHANGED <<sock, room>>
  /\ End(e)
  /\ UNCHANGED messages

(* Five seconds without an answer: the handler is called with a failure,    *)
(* whatever becomes of the request; an answer on its way will be dropped.   *)
Timeout(e) ==
  /\ "timeout" \in Faults
  /\ event[e].phase \in {"queued", "working", "replied"} /\ event[e].awaited
  /\ Refuse(e)
  /\ IF event[e].phase = "replied" THEN End(e)
     ELSE event' = [event EXCEPT ![e].awaited = FALSE]
  /\ UNCHANGED messages

(* The message expires after 30 seconds in the queue.                       *)
Expire(e) ==
  /\ event[e].phase = "queued" /\ ~ event[e].awaited
  /\ End(e)
  /\ UNCHANGED <<sock, room, messages, seen>>

(* The process dies: what is in the queues stays there, nobody waits for it. *)
Crash ==
  /\ "crash" \in Faults
  /\ sock' = [s \in Sockets |-> Nobody]
  /\ room' = {}
  /\ seen' = [s \in Sockets |-> {}]
  /\ event' = [e \in Events |-> IF event[e].phase = "queued"
                                THEN [event[e] EXCEPT !.awaited = FALSE] ELSE Idle]
  /\ UNCHANGED messages

Next ==
  \/ \E s \in Sockets : Connect(s) \/ Disconnect(s)
  \/ \E e \in Events : \/ Receive(e) \/ Upload(e) \/ Take(e) \/ Serve(e)
                       \/ Handle(e) \/ Timeout(e) \/ Expire(e)
  \/ Crash

Spec == Init /\ [][Next]_vars

(* The process runs its timers and what it has started; that a consumer     *)
(* takes a request from the queue is not assumed.                           *)
Fairness == \A e \in Events :
  /\ WF_vars(Upload(e)) /\ WF_vars(Serve(e)) /\ WF_vars(Handle(e) \/ Timeout(e))
  /\ WF_vars(Expire(e))

FairSpec == Spec /\ Fairness

-----------------------------------------------------------------------------
TypeOK ==
  /\ sock \in [Sockets -> Users \union {Nobody}]
  /\ room \subseteq Sockets
  /\ messages \in Seq(Users)
  /\ seen \in [Sockets -> SUBSET Nat]
  /\ event \in [Events -> {Idle} \union EventType]

(* Although events are served while handleConnection still checks the user, *)
(* only members get into the room, are shown messages, or write them.       *)
OnlyMembersTakePart ==
  /\ \A s \in Connected : s \in room \/ seen[s] # {} => sock[s] \in Members
  /\ \A i \in DOMAIN messages : messages[i] \in Members

(* Answers that come after a socket has gone leave it out of the room.      *)
RoomIsConnected == room \subseteq Connected

(* Nobody is shown a message that the table does not have, also when the    *)
(* insert fails or the sender has been told so.                             *)
SeenIsStored == \A s \in Sockets : seen[s] \subseteq 1 .. Len(messages)

(* No handler of the gateway hangs and no request lives forever, also when  *)
(* no consumer takes it, the service is slow or the socket has gone.        *)
EveryEventEnds == \A e \in Events : event[e] # Idle ~> event[e] = Idle

(* "sends all messages from the chat history": with nothing under way, a    *)
(* socket in the room has been shown every message.                         *)
JoinedSeesEveryMessage ==
  Pending = {} => \A s \in room : 1 .. Len(messages) \subseteq seen[s]
=============================================================================
