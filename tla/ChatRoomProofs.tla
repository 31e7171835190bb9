---------------------------- MODULE ChatRoomProofs ----------------------------
(***************************************************************************)
(* Proofs about ChatRoom, for every number of users, sockets, concurrent    *)
(* handlers and messages, and every combination of faults.                  *)
(***************************************************************************)
EXTENDS ChatRoom, TLAPS

(* What a handler knows: as long as its answer is awaited its socket is the *)
(* one it began with, a granted answer is a member's, and the messages in   *)
(* an answer are stored.                                                    *)
KnowsSocket(x)  == x.awaited /\ sock[x.s] # Nobody => sock[x.s] = x.user
MemberAnswer(x) == x.ok => x.user \in Members
StoredAnswer(x) == x.got \subseteq 1 .. Len(messages)

EventsOK == \A e \in Events : event[e] # Idle =>
              KnowsSocket(event[e]) /\ MemberAnswer(event[e]) /\ StoredAnswer(event[e])

(* A slot without a connection has been shown nothing.                      *)
GoneIsBlank == \A s \in Sockets : sock[s] = Nobody => seen[s] = {}

CInv == TypeOK /\ OnlyMembersTakePart /\ RoomIsConnected /\ SeenIsStored
        /\ EventsOK /\ GoneIsBlank

-----------------------------------------------------------------------------
LEMMA IdlePhase == Idle.phase = "idle" /\ \A x \in EventType : x # Idle
  BY DEF Idle, EventType

(* A pending event is a record of the type of events.                       *)
LEMMA PendingType ==
  ASSUME TypeOK, NEW e \in Events, event[e] # Idle
  PROVE  event[e] \in EventType
  BY DEF TypeOK

(* Only one event changes, and the tables and sockets that the invariant is *)
(* about do not.                                                            *)
LEMMA EventStep ==
  ASSUME CInv, NEW e \in Events, NEW x \in EventType \union {Idle},
         event' = [event EXCEPT ![e] = x],
         UNCHANGED <<sock, room, messages, seen>>,
         x # Idle => KnowsSocket(x) /\ MemberAnswer(x) /\ StoredAnswer(x)
  PROVE  CInv'
<1>1. TypeOK'
  BY DEF CInv, TypeOK
<1>2. EventsOK'
  BY DEF CInv, TypeOK, EventsOK, KnowsSocket, MemberAnswer, StoredAnswer
<1>3. OnlyMembersTakePart' /\ RoomIsConnected' /\ SeenIsStored' /\ GoneIsBlank'
  BY DEF CInv, OnlyMembersTakePart, RoomIsConnected, SeenIsStored, GoneIsBlank, Connected
<1> QED
  BY <1>1, <1>2, <1>3 DEF CInv

(* Sockets leave.                                                           *)
LEMMA LeaveStep ==
  ASSUME CInv, NEW G \in SUBSET Sockets,
         sock' = [s \in Sockets |-> IF s \in G THEN Nobody ELSE sock[s]],
         room' = room \ G,
         seen' = [s \in Sockets |-> IF s \in G THEN {} ELSE seen[s]],
         messages' = messages,
         event' \in [Events -> {Idle} \union EventType],
         \A e \in Events : event'[e] # Idle =>
           /\ event[e] # Idle
           /\ event'[e].awaited => event[e].awaited
           /\ event'[e].s = event[e].s /\ event'[e].user = event[e].user
           /\ event'[e].ok = event[e].ok /\ event'[e].got = event[e].got
  PROVE  CInv'
<1>1. TypeOK'
  BY DEF CInv, TypeOK
<1>2. EventsOK'
  <2>1. ASSUME NEW e \in Events, event'[e] # Idle
        PROVE  /\ event[e] \in EventType /\ event'[e] \in EventType
               /\ KnowsSocket(event[e]) /\ MemberAnswer(event[e]) /\ StoredAnswer(event[e])
    BY <2>1 DEF CInv, TypeOK, EventsOK
  <2>2. ASSUME NEW e \in Events, event'[e] # Idle
        PROVE  KnowsSocket(event[e])' /\ MemberAnswer(event[e])' /\ StoredAnswer(event[e])'
    BY <2>1, <2>2 DEF KnowsSocket, MemberAnswer, StoredAnswer, EventType, CInv, TypeOK
  <2> QED
    BY <2>2 DEF EventsOK
<1>3. OnlyMembersTakePart' /\ RoomIsConnected' /\ SeenIsStored' /\ GoneIsBlank'
  BY DEF CInv, TypeOK, OnlyMembersTakePart, RoomIsConnected, SeenIsStored, GoneIsBlank, Connected
<1> QED
  BY <1>1, <1>2, <1>3 DEF CInv

LEMMA ChatInit == Init => CInv
<1> SUFFICES ASSUME Init PROVE CInv
  OBVIOUS
<1>1. TypeOK
  BY DEF Init, TypeOK, Idle
<1>2. OnlyMembersTakePart /\ RoomIsConnected /\ SeenIsStored /\ GoneIsBlank
  BY DEF Init, OnlyMembersTakePart, RoomIsConnected, SeenIsStored, GoneIsBlank, Connected
<1>3. EventsOK
  BY DEF Init, EventsOK
<1> QED
  BY <1>1, <1>2, <1>3 DEF CInv

LEMMA ConnectStep ==
  ASSUME CInv, NEW s \in Sockets, Connect(s)
  PROVE  CInv'
<1> PICK u \in Users : sock' = [sock EXCEPT ![s] = u]
  BY DEF Connect
<1>1. /\ sock[s] = Nobody /\ UNCHANGED <<room, messages, seen, event>>
      /\ \A e \in Events : event[e] # Idle => ~ (event[e].awaited /\ event[e].s = s)
  BY DEF Connect, Connected, Pending
<1>2. TypeOK'
  BY <1>1 DEF CInv, TypeOK
<1>3. s \notin room /\ seen[s] = {}
  BY <1>1 DEF CInv, RoomIsConnected, GoneIsBlank, Connected
<1>4. OnlyMembersTakePart' /\ RoomIsConnected' /\ SeenIsStored' /\ GoneIsBlank'
  BY <1>1, <1>3, NobodyAssumption
     DEF CInv, TypeOK, OnlyMembersTakePart, RoomIsConnected, SeenIsStored, GoneIsBlank, Connected
<1>5. ASSUME NEW e \in Events, event[e] # Idle
      PROVE  KnowsSocket(event[e])' /\ MemberAnswer(event[e])' /\ StoredAnswer(event[e])'
  BY <1>1, <1>5 DEF CInv, TypeOK, EventsOK, KnowsSocket, MemberAnswer, StoredAnswer
<1>6. EventsOK'
  BY <1>1, <1>5 DEF EventsOK
<1> QED
  BY <1>2, <1>4, <1>6 DEF CInv

LEMMA DisconnectStep ==
  ASSUME CInv, NEW s \in Sockets, Disconnect(s)
  PROVE  CInv'
<1> DEFINE G == {s}
<1>1. /\ sock' = [x \in Sockets |-> IF x \in G THEN Nobody ELSE sock[x]]
      /\ seen' = [x \in Sockets |-> IF x \in G THEN {} ELSE seen[x]]
      /\ room' = room \ G /\ messages' = messages /\ event' = event
  BY DEF Disconnect, Leave, CInv, TypeOK
<1>2. event' \in [Events -> {Idle} \union EventType]
  BY <1>1 DEF CInv, TypeOK
<1> HIDE DEF G
<1>3. G \in SUBSET Sockets
  BY DEF G
<1> QED
  BY <1>1, <1>2, <1>3, LeaveStep

LEMMA CrashStep ==
  ASSUME CInv, Crash
  PROVE  CInv'
<1>1. /\ sock' = [x \in Sockets |-> IF x \in Sockets THEN Nobody ELSE sock[x]]
      /\ seen' = [x \in Sockets |-> IF x \in Sockets THEN {} ELSE seen[x]]
      /\ room' = room \ Sockets /\ messages' = messages
  BY DEF Crash, CInv, TypeOK
<1>2. \A e \in Events : event'[e] =
        IF event[e].phase = "queued" THEN [event[e] EXCEPT !.awaited = FALSE] ELSE Idle
  BY DEF Crash
<1>3. ASSUME NEW e \in Events
      PROVE  /\ event'[e] \in {Idle} \union EventType
             /\ event'[e] # Idle => /\ event[e] # Idle
                                    /\ ~ event'[e].awaited
                                    /\ event'[e].s = event[e].s
                                    /\ event'[e].user = event[e].user
                                    /\ event'[e].ok = event[e].ok
                                    /\ event'[e].got = event[e].got
  <2>1. CASE event[e].phase = "queued"
    <3>1. event[e] \in EventType
      BY <2>1 DEF CInv, TypeOK, Idle
    <3>2. event'[e] = [event[e] EXCEPT !.awaited = FALSE]
      BY <1>2, <2>1
    <3> QED
      BY <3>1, <3>2, IdlePhase DEF EventType
  <2>2. CASE event[e].phase # "queued"
    BY <1>2, <2>2
  <2> QED
    BY <2>1, <2>2
<1>4. event' \in [Events -> {Idle} \union EventType]
  BY <1>3 DEF Crash
<1> QED
  BY <1>1, <1>3, <1>4, LeaveStep

(* The steps that change nothing but one event.                             *)
LEMMA LocalSteps ==
  ASSUME CInv, NEW e \in Events, Receive(e) \/ Upload(e) \/ Take(e) \/ Expire(e)
  PROVE  CInv'
<1> TypeOK
  BY DEF CInv
<1>1. CASE Receive(e)
  <2> PICK s \in Connected, k \in Kinds : event' = [event EXCEPT ![e] =
         [phase |-> IF k = "image" THEN "upload" ELSE "queued", kind |-> k, s |-> s,
          user |-> sock[s], awaited |-> TRUE, ok |-> FALSE, got |-> {}]]
    BY <1>1 DEF Receive
  <2> DEFINE x == [phase |-> IF k = "image" THEN "upload" ELSE "queued", kind |-> k, s |-> s,
                   user |-> sock[s], awaited |-> TRUE, ok |-> FALSE, got |-> {}]
  <2>1. x \in EventType
    BY DEF TypeOK, EventType, Connected
  <2>2. KnowsSocket(x) /\ MemberAnswer(x) /\ StoredAnswer(x)
    BY DEF KnowsSocket, MemberAnswer, StoredAnswer
  <2>3. event' = [event EXCEPT ![e] = x] /\ UNCHANGED <<sock, room, messages, seen>>
    BY <1>1 DEF Receive
  <2> HIDE DEF x
  <2> QED
    BY <2>1, <2>2, <2>3, EventStep
<1>2. ASSUME NEW p \in {"queued", "working"}, event[e].phase \in {"upload", "queued"}, To(e, p),
             UNCHANGED <<sock, room, messages, seen>>
      PROVE  CInv'
  <2> DEFINE x == [event[e] EXCEPT !.phase = p]
  <2>1. event[e] \in EventType /\ event[e] # Idle
    BY <1>2 DEF TypeOK, Idle
  <2>2. KnowsSocket(event[e]) /\ MemberAnswer(event[e]) /\ StoredAnswer(event[e])
    BY <2>1 DEF CInv, EventsOK
  <2>3. x \in EventType /\ KnowsSocket(x) /\ MemberAnswer(x) /\ StoredAnswer(x)
    BY <2>1, <2>2 DEF EventType, KnowsSocket, MemberAnswer, StoredAnswer
  <2>4. event' = [event EXCEPT ![e] = x]
    BY <1>2, <2>1 DEF To, TypeOK
  <2> HIDE DEF x
  <2> QED
    BY <1>2, <2>3, <2>4, EventStep
<1>3. ASSUME End(e), UNCHANGED <<sock, room, messages, seen>>
      PROVE  CInv'
  BY <1>3, EventStep DEF End
<1>4. CASE Upload(e)
  BY <1>2, <1>3, <1>4 DEF Upload
<1>5. CASE Take(e)
  BY <1>2, <1>5 DEF Take
<1>6. CASE Expire(e)
  BY <1>3, <1>6 DEF Expire
<1> QED
  BY <1>1, <1>4, <1>5, <1>6

(* The service answers, after it has read the table or added to it.         *)
LEMMA AnswerStep ==
  ASSUME CInv, NEW e \in Events, event[e].phase = "working",
         NEW ok \in BOOLEAN, NEW ids \in SUBSET Nat, Answer(e, ok, ids),
         messages' \in Seq(Users), Len(messages) <= Len(messages'),
         \A i \in DOMAIN messages' : messages'[i] \in Members,
         ok => event[e].user \in Members, ids \subseteq 1 .. Len(messages'),
         UNCHANGED <<sock, room, seen>>
  PROVE  CInv'
<1> DEFINE x == IF event[e].awaited
                THEN [event[e] EXCEPT !.phase = "replied", !.ok = ok, !.got = ids] ELSE Idle
<1>1. event[e] \in EventType /\ event[e] # Idle
  BY DEF CInv, TypeOK, Idle
<1>2. event' = [event EXCEPT ![e] = x]
  BY DEF Answer, CInv, TypeOK
<1>3. /\ x \in EventType \union {Idle}
      /\ x # Idle => /\ x.ok = ok /\ x.got = ids /\ x.s = event[e].s
                     /\ x.user = event[e].user /\ x.awaited = event[e].awaited
  BY <1>1 DEF EventType
<1> HIDE DEF x
<1>4. TypeOK'
  BY <1>2, <1>3 DEF CInv, TypeOK
<1>5. OnlyMembersTakePart' /\ RoomIsConnected' /\ GoneIsBlank'
  BY DEF CInv, OnlyMembersTakePart, RoomIsConnected, GoneIsBlank, Connected
<1>6. 1 .. Len(messages) \subseteq 1 .. Len(messages')
  BY DEF CInv, TypeOK
<1>7. SeenIsStored'
  BY <1>6 DEF CInv, SeenIsStored
<1>8. ASSUME NEW d \in Events, event'[d] # Idle
      PROVE  KnowsSocket(event[d])' /\ MemberAnswer(event[d])' /\ StoredAnswer(event[d])'
  <2>1. CASE d = e
    <3>1. event'[d] = x /\ KnowsSocket(event[e])
      BY <1>1, <1>2, <2>1 DEF CInv, TypeOK, EventsOK
    <3> QED
      BY <1>3, <1>8, <3>1 DEF KnowsSocket, MemberAnswer, StoredAnswer
  <2>2. CASE d # e
    <3>1. event'[d] = event[d]
      BY <1>2, <2>2 DEF CInv, TypeOK
    <3>2. KnowsSocket(event[d]) /\ MemberAnswer(event[d]) /\ StoredAnswer(event[d])
      BY <1>8, <3>1 DEF CInv, EventsOK
    <3> QED
      BY <1>6, <3>1, <3>2 DEF KnowsSocket, MemberAnswer, StoredAnswer
  <2> QED
    BY <2>1, <2>2
<1>9. EventsOK'
  BY <1>8 DEF EventsOK
<1> QED
  BY <1>4, <1>5, <1>7, <1>9 DEF CInv

LEMMA ServeStep ==
  ASSUME CInv, NEW e \in Events, Serve(e)
  PROVE  CInv'
<1>1. /\ event[e].phase = "working" /\ UNCHANGED <<sock, room, seen>>
      /\ \/ Fail(e)
         \/ Allowed(event[e].user) /\ ReadHistory(e)
         \/ Allowed(event[e].user) /\ Store(e)
  BY DEF Serve
<1>2. /\ messages \in Seq(Users) /\ Len(messages) \in Nat
      /\ \A i \in DOMAIN messages : messages[i] \in Members
      /\ event[e].user \in Users
  BY <1>1 DEF CInv, TypeOK, OnlyMembersTakePart, EventType, Idle
<1>3. CASE Fail(e)
  <2>1. Answer(e, FALSE, {}) /\ messages' = messages /\ {} \in SUBSET Nat
    BY <1>3 DEF Fail
  <2>2. /\ messages' \in Seq(Users) /\ Len(messages) <= Len(messages')
        /\ \A i \in DOMAIN messages' : messages'[i] \in Members
        /\ {} \subseteq 1 .. Len(messages')
    BY <1>2, <2>1
  <2> QED
    BY <1>1, <2>1, <2>2, AnswerStep
<1>4. CASE Allowed(event[e].user) /\ ReadHistory(e)
  <2> DEFINE ids == 1 .. Len(messages)
  <2>1. Answer(e, TRUE, ids) /\ messages' = messages /\ event[e].user \in Members
    BY <1>4 DEF ReadHistory, Allowed
  <2>2. ids \in SUBSET Nat
    <3>1. ids \subseteq Nat
      BY <1>2
    <3> QED
      BY <3>1
  <2>3. /\ messages' \in Seq(Users) /\ Len(messages) <= Len(messages')
        /\ \A i \in DOMAIN messages' : messages'[i] \in Members
        /\ ids \subseteq 1 .. Len(messages')
    BY <1>2, <2>1
  <2> HIDE DEF ids
  <2> QED
    BY <1>1, <2>1, <2>2, <2>3, AnswerStep
<1>5. CASE Allowed(event[e].user) /\ Store(e)
  <2>1. /\ messages' \in Seq(Users) /\ Len(messages') = Len(messages) + 1
        /\ \A i \in DOMAIN messages' : messages'[i] \in Members
    BY <1>2, <1>5 DEF Store, Allowed
  <2>2. /\ {Len(messages) + 1} \subseteq 1 .. Len(messages')
        /\ {Len(messages) + 1} \in SUBSET Nat /\ Len(messages) <= Len(messages')
    BY <1>2, <2>1
  <2>3. Answer(e, TRUE, {Len(messages) + 1}) /\ event[e].user \in Members
    BY <1>5 DEF Store, Allowed
  <2> QED
    BY <1>1, <2>1, <2>2, <2>3, AnswerStep
<1> QED
  BY <1>1, <1>3, <1>4, <1>5

(* The error branch of a handler, after an answer or the time limit.        *)
LEMMA RefuseStep ==
  ASSUME CInv, NEW e \in Events, event[e] # Idle, Refuse(e), UNCHANGED messages,
         NEW x \in {Idle, [event[e] EXCEPT !.awaited = FALSE]},
         event' = [event EXCEPT ![e] = x]
  PROVE  CInv'
<1>1. event[e] \in EventType
  BY PendingType DEF CInv
<1>2. PICK G \in SUBSET Sockets :
        /\ sock' = [s \in Sockets |-> IF s \in G THEN Nobody ELSE sock[s]]
        /\ seen' = [s \in Sockets |-> IF s \in G THEN {} ELSE seen[s]]
        /\ room' = room \ G
  <2>1. CASE event[e].kind \in {"join", "send"}
    <3>1. {event[e].s} \in SUBSET Sockets
      BY <1>1 DEF EventType
    <3> QED
      BY <2>1, <3>1 DEF Refuse, Leave, CInv, TypeOK
  <2>2. CASE event[e].kind \notin {"join", "send"}
    <3>1. /\ sock' = [s \in Sockets |-> IF s \in {} THEN Nobody ELSE sock[s]]
          /\ seen' = [s \in Sockets |-> IF s \in {} THEN {} ELSE seen[s]]
          /\ room' = room \ {}
      BY <2>2 DEF Refuse, CInv, TypeOK
    <3> QED
      BY <3>1
  <2> QED
    BY <2>1, <2>2
<1>3. x \in {Idle} \union EventType
  BY <1>1 DEF EventType
<1>4. event' \in [Events -> {Idle} \union EventType]
  BY <1>3 DEF CInv, TypeOK
<1>5. ASSUME NEW d \in Events, event'[d] # Idle
      PROVE  /\ event[d] # Idle
             /\ event'[d].awaited => event[d].awaited
             /\ event'[d].s = event[d].s /\ event'[d].user = event[d].user
             /\ event'[d].ok = event[d].ok /\ event'[d].got = event[d].got
  <2>1. CASE d # e
    BY <1>5, <2>1 DEF CInv, TypeOK
  <2>2. CASE d = e
    <3>1. event'[e] = [event[e] EXCEPT !.awaited = FALSE]
      BY <1>5, <2>2 DEF CInv, TypeOK
    <3> QED
      BY <1>1, <2>2, <3>1 DEF EventType
  <2> QED
    BY <2>1, <2>2
<1> HIDE DEF Idle
<1> QED
  BY <1>2, <1>4, <1>5, LeaveStep

(* The client of a socket, or the clients of the room, are shown the        *)
(* messages of an answer.                                                   *)
LEMMA ShowStep ==
  ASSUME CInv, NEW e \in Events, event[e] # Idle, event[e].ok, event[e].awaited,
         NEW S \in SUBSET Connected, Show(S, event[e].got),
         S \subseteq {event[e].s} \/ S \subseteq room,
         room' = room \/ (event[e].s \in Connected /\ room' = room \union {event[e].s}),
         End(e), UNCHANGED <<sock, messages>>
  PROVE  CInv'
<1>1. event[e] \in EventType
  BY PendingType DEF CInv
<1>2. KnowsSocket(event[e]) /\ MemberAnswer(event[e]) /\ StoredAnswer(event[e])
  BY DEF CInv, EventsOK
<1>3. event[e].s \in Sockets /\ (event[e].s \in Connected => sock[event[e].s] \in Members)
  BY <1>1, <1>2 DEF KnowsSocket, MemberAnswer, Connected, EventType
<1>4. event[e].got \in SUBSET Nat /\ event[e].got \subseteq 1 .. Len(messages)
  BY <1>1, <1>2 DEF StoredAnswer, EventType
<1>5. seen' = [s \in Sockets |-> IF s \in S THEN seen[s] \union event[e].got ELSE seen[s]]
  BY DEF Show
<1>6. \A s \in S : s \in Connected /\ sock[s] \in Members
  BY <1>3 DEF CInv, OnlyMembersTakePart
<1>7. TypeOK'
  BY <1>3, <1>4, <1>5 DEF CInv, TypeOK, End
<1>8. OnlyMembersTakePart'
  BY <1>3, <1>5, <1>6 DEF CInv, TypeOK, OnlyMembersTakePart, Connected
<1>9. RoomIsConnected' /\ SeenIsStored' /\ GoneIsBlank'
  BY <1>4, <1>5, <1>6 DEF CInv, TypeOK, RoomIsConnected, SeenIsStored, GoneIsBlank, Connected
<1>10. EventsOK'
  BY DEF CInv, TypeOK, EventsOK, KnowsSocket, MemberAnswer, StoredAnswer, End
<1> QED
  BY <1>7, <1>8, <1>9, <1>10 DEF CInv

LEMMA HandleStep ==
  ASSUME CInv, NEW e \in Events, Handle(e)
  PROVE  CInv'
<1>1. event[e] # Idle /\ event[e].awaited /\ End(e) /\ UNCHANGED messages
  BY DEF Handle, Idle
<1>2. CASE ~ event[e].ok /\ Refuse(e)
  BY <1>1, <1>2, RefuseStep DEF End
<1>3. CASE /\ event[e].ok /\ Show({event[e].s} \intersect Connected, event[e].got)
           /\ room' = Joined(event[e].s) /\ UNCHANGED sock
  <2> DEFINE S == {event[e].s} \intersect Connected
  <2>1. room' = room \/ (event[e].s \in Connected /\ room' = room \union {event[e].s})
    BY <1>3 DEF Joined
  <2>2. S \in SUBSET Connected /\ S \subseteq {event[e].s}
    OBVIOUS
  <2> QED
    BY <1>1, <1>3, <2>1, <2>2, ShowStep
<1>4. CASE /\ event[e].ok /\ Show(room \intersect Connected, event[e].got)
           /\ UNCHANGED <<sock, room>>
  <2>1. room \intersect Connected \in SUBSET Connected /\ room \intersect Connected \subseteq room
    OBVIOUS
  <2> QED
    BY <1>1, <1>4, <2>1, ShowStep
<1> QED
  BY <1>2, <1>3, <1>4 DEF Handle

LEMMA TimeoutStep ==
  ASSUME CInv, NEW e \in Events, Timeout(e)
  PROVE  CInv'
<1>1. event[e] # Idle /\ Refuse(e) /\ UNCHANGED messages
  BY DEF Timeout, Idle
<1>2. PICK x \in {Idle, [event[e] EXCEPT !.awaited = FALSE]} : event' = [event EXCEPT ![e] = x]
  <2>1. CASE End(e)
    BY <2>1 DEF End
  <2>2. CASE event' = [event EXCEPT ![e].awaited = FALSE]
    BY <2>2 DEF CInv, TypeOK
  <2> QED
    BY <2>1, <2>2 DEF Timeout
<1> QED
  BY <1>1, <1>2, RefuseStep

LEMMA ChatNext == CInv /\ [Next]_vars => CInv'
<1> SUFFICES ASSUME CInv, [Next]_vars PROVE CInv'
  OBVIOUS
<1>1. ASSUME NEW s \in Sockets, Connect(s) PROVE CInv'
  BY <1>1, ConnectStep
<1>2. ASSUME NEW s \in Sockets, Disconnect(s) PROVE CInv'
  BY <1>2, DisconnectStep
<1>3. ASSUME NEW e \in Events, Receive(e) \/ Upload(e) \/ Take(e) \/ Expire(e) PROVE CInv'
  BY <1>3, LocalSteps
<1>4. ASSUME NEW e \in Events, Serve(e) PROVE CInv'
  BY <1>4, ServeStep
<1>5. ASSUME NEW e \in Events, Handle(e) PROVE CInv'
  BY <1>5, HandleStep
<1>6. ASSUME NEW e \in Events, Timeout(e) PROVE CInv'
  BY <1>6, TimeoutStep
<1>7. CASE Crash
  BY <1>7, CrashStep
<1>8. CASE UNCHANGED vars
  <2>1. sock' = sock /\ room' = room /\ messages' = messages /\ seen' = seen /\ event' = event
    BY <1>8 DEF vars
  <2>2. TypeOK' /\ OnlyMembersTakePart' /\ RoomIsConnected' /\ SeenIsStored' /\ GoneIsBlank'
    BY <2>1 DEF CInv, TypeOK, OnlyMembersTakePart, RoomIsConnected, SeenIsStored,
                GoneIsBlank, Connected
  <2>3. EventsOK'
    BY <2>1 DEF CInv, EventsOK, KnowsSocket, MemberAnswer, StoredAnswer
  <2> QED
    BY <2>2, <2>3 DEF CInv
<1> QED
  BY <1>1, <1>2, <1>3, <1>4, <1>5, <1>6, <1>7, <1>8 DEF Next

(* For every number of sockets and handlers: no event that is served while  *)
(* its socket is still being checked, and no answer that comes late, shows  *)
(* a message to a stranger or stores a stranger's message.                  *)
THEOREM ChatIsPrivate == Spec => []OnlyMembersTakePart
<1>1. CInv => OnlyMembersTakePart
  BY DEF CInv
<1> QED
  BY <1>1, ChatInit, ChatNext, PTL DEF Spec

(* The room holds live connections only.                                    *)
THEOREM RoomStaysConnected == Spec => []RoomIsConnected
<1>1. CInv => RoomIsConnected
  BY DEF CInv
<1> QED
  BY <1>1, ChatInit, ChatNext, PTL DEF Spec

(* What a client has been shown is in the table.                            *)
THEOREM ShownIsStored == Spec => []SeenIsStored
<1>1. CInv => SeenIsStored
  BY DEF CInv
<1> QED
  BY <1>1, ChatInit, ChatNext, PTL DEF Spec

(* The sockets, the events and the table keep their types.                  *)
THEOREM ChatTypeCorrect == Spec => []TypeOK
<1>1. CInv => TypeOK
  BY DEF CInv
<1> QED
  BY <1>1, ChatInit, ChatNext, PTL DEF Spec
=============================================================================
