-------------------------------- MODULE Notify --------------------------------
(***************************************************************************)
(* A call of the likes service from the client to the notification: the api *)
(* controller (api.likes.controller.ts) sends the request with rmqSend; the *)
(* likes controller executes it, and its decorator WithNotify sends a       *)
(* second request, to the notifications service, before the answer leaves;  *)
(* that service stores the notification and shows it to a user who is       *)
(* online. What the operations do to the tables is the subject of Likes;    *)
(* here an operation has an effect or fails.                                *)
(*                                                                          *)
(* Every rmqSend runs a timer of RmqLimit ticks and drops an answer that    *)
(* comes after it. The queues are durable, their messages outlive the       *)
(* timer and a restart of the process, which holds all the services; a      *)
(* message taken from a queue is gone (noAck).                              *)
(***************************************************************************)
EXTENDS Presence

CONSTANTS Calls,      \* calls, each made once
          Recipient,  \* the user each call's notification is for
          Kinds,      \* bound: the operations called
          RmqLimit,   \* the time limit of rmqSend, in ticks
          CrashBound  \* bound: crashes of the process

ASSUME RecipientAssumption == Recipient \in [Calls -> Users]
ASSUME KindsAssumption == Kinds \subseteq {"sendLike", "dismissLike", "rejectLike", "match"}
ASSUME RmqLimitAssumption == RmqLimit \in Nat \ {0}
ASSUME CrashBoundAssumption == CrashBound \in Nat

VARIABLES call,     \* each call's state in the likes service
          note,     \* its notification's state in the notifications service
          timer,    \* ticks left to the api's rmqSend and to WithNotify's
          told,     \* what the client has been told
          stored,   \* the calls with a row in the table notification
          shown,    \* the notifications each connected client has received
          crashes

deliveryVars == <<call, note, timer, told, stored, shown, crashes>>
vars == <<presenceVars, deliveryVars>>

Off == RmqLimit + 1   \* a timer that does not run

(* phase: "queued" at the likes queue, "working" in the service, "notifying" *)
(* while WithNotify waits; took: the operation has taken effect.            *)
CallType == [phase : {"new", "queued", "working", "notifying", "ended", "lost"},
             kind : Kinds, took : BOOLEAN]
NotePhases == {"none", "queued", "storing", "checking", "pushing", "ended", "lost"}

TypeOK ==
  /\ PresenceTypeOK
  /\ call \in [Calls -> CallType]
  /\ note \in [Calls -> NotePhases]
  /\ timer \in [Calls -> [api : 0..Off, notify : 0..Off]]
  /\ told \in [Calls -> {"nothing", "ok", "failed"}]
  /\ stored \in SUBSET Calls
  /\ shown \in [Sockets -> SUBSET Calls]
  /\ crashes \in Nat

Init ==
  /\ PresenceInit
  /\ call \in [Calls -> {[phase |-> "new", kind |-> k, took |-> FALSE] : k \in Kinds}]
  /\ note = [c \in Calls |-> "none"]
  /\ timer = [c \in Calls |-> [api |-> Off, notify |-> Off]]
  /\ told = [c \in Calls |-> "nothing"]
  /\ stored = {}
  /\ shown = [s \in Sockets |-> {}]
  /\ crashes = 0

Took == {c \in Calls : call[c].took}

CallTo(c, phase) == call' = [call EXCEPT ![c].phase = phase]
NoteTo(c, phase) == note' = [note EXCEPT ![c] = phase]

(* The kinds with a decorator WithNotify, and of these the events for which *)
(* the notifications controller has a handler: none for LIKE_REJECTED.      *)
Decorated == {"sendLike", "rejectLike", "match"}
Handled   == {"sendLike", "match"}

-----------------------------------------------------------------------------
(* Mutants of the operators below.                                          *)

\* The notification is sent while the service is still at work.
WithNotifyMutant(c) ==
  /\ NoteTo(c, "queued")
  /\ timer' = [timer EXCEPT ![c].notify = IF RmqLimit = 1 THEN 1 ELSE RmqLimit - 1]
  /\ CallTo(c, "notifying")

\* rmqSend has no time limit.
ApiTimeoutMutant(c) == FALSE /\ UNCHANGED vars

\* The client is told what its request is, not what became of it.
ReplyMutant(c, outcome) ==
  /\ timer' = [timer EXCEPT ![c].api = Off]
  /\ told' = [told EXCEPT ![c] = outcome]

\* A timer that is over goes on running until it is cleared.
TickMutant ==
  /\ \E c \in Calls : timer[c] # [api |-> Off, notify |-> Off]
  /\ timer' = [c \in Calls |-> [k \in {"api", "notify"} |->
       IF timer[c][k] = Off THEN Off ELSE timer[c][k] - 1]]
  /\ UNCHANGED <<presenceVars, call, note, told, stored, shown, crashes>>

\* The notification is emitted to everybody.
sendInAppNotificationMutant(c) ==
  shown' = [s \in Sockets |-> IF token[s] # Nobody THEN shown[s] \union {c} ELSE shown[s]]

-----------------------------------------------------------------------------
(* rmqSend: the message is queued and the timer runs.                       *)
StartTimer(c, side) == timer' = [timer EXCEPT ![c][side] = RmqLimit]

(* The handlers of the api controller: the guard has passed, the request    *)
(* goes to the queue of the likes service.                                  *)
ApiCall(c) ==
  /\ call[c].phase = "new"
  /\ CallTo(c, "queued")
  /\ StartTimer(c, "api")
  /\ UNCHANGED <<presenceVars, note, told, stored, shown, crashes>>

(* The likes queue hands the message over, however late.                    *)
Take(c) ==
  /\ call[c].phase = "queued"
  /\ CallTo(c, "working")
  /\ UNCHANGED <<presenceVars, note, timer, told, stored, shown, crashes>>

(* Its expiration of 30 s is over: it is dropped.                           *)
ExpireMessage(c) ==
  /\ call[c].phase = "queued"
  /\ told[c] # "nothing"
  /\ CallTo(c, "lost")
  /\ UNCHANGED <<presenceVars, note, timer, told, stored, shown, crashes>>

(* The answer reaches the api's rmqSend, which passes it on unless its time *)
(* is over; its callback sets the status: 200, or that of TekeroError.      *)
Reply(c, outcome) ==
  IF told[c] = "nothing" /\ timer[c].api # Off
  THEN /\ timer' = [timer EXCEPT ![c].api = Off]
       /\ told' = [told EXCEPT ![c] = outcome]
  ELSE UNCHANGED <<timer, told>>

(* The operation takes effect; WithNotify sends the event of its kind and   *)
(* waits, or there is none and the answer leaves.                           *)
WithNotify(c) ==
  /\ NoteTo(c, "queued")
  /\ StartTimer(c, "notify")
  /\ CallTo(c, "notifying")

Execute(c) ==
  /\ call[c].phase = "working"
  /\ ~ call[c].took
  /\ call' = [call EXCEPT ![c].took = TRUE]
  /\ UNCHANGED <<presenceVars, note, timer, told, stored, shown, crashes>>

Executed(c) ==
  /\ call[c].phase = "working"
  /\ call[c].took
  /\ IF call[c].kind \in Decorated
     THEN WithNotify(c) /\ UNCHANGED told
     ELSE CallTo(c, "ended") /\ Reply(c, "ok") /\ UNCHANGED note
  /\ UNCHANGED <<presenceVars, stored, shown, crashes>>

(* The service throws; the controller answers with success: false, which    *)
(* WithNotify passes on.                                                    *)
Reject(c) ==
  /\ call[c].phase = "working"
  /\ ~ call[c].took
  /\ CallTo(c, "ended")
  /\ Reply(c, "failed")
  /\ UNCHANGED <<presenceVars, note, stored, shown, crashes>>

(* The api's timer is over: rmqSend calls the handler with an error. The    *)
(* handler of rejectLike takes a status from it that is not there and       *)
(* throws; the framework answers in its place.                              *)
ApiTimeout(c) ==
  /\ timer[c].api = 0
  /\ Reply(c, "failed")
  /\ UNCHANGED <<presenceVars, call, note, stored, shown, crashes>>

(* WithNotify has its answer, whatever it says, or none in time, and lets   *)
(* the answer to the client go. A timer that was started later does not run *)
(* out first.                                                               *)
Release(c) ==
  /\ call[c].phase = "notifying"
  /\ \/ note[c] = "ended" /\ timer[c].notify \in 0..RmqLimit
     \/ timer[c].notify = 0 /\ timer[c].api # 0
  /\ CallTo(c, "ended")
  /\ LET t == [timer EXCEPT ![c].notify = Off] IN
     IF told[c] = "nothing" /\ timer[c].api # Off
     THEN /\ timer' = [t EXCEPT ![c].api = Off]
          /\ told' = [told EXCEPT ![c] = "ok"]
     ELSE timer' = t /\ UNCHANGED told
  /\ UNCHANGED <<presenceVars, note, stored, shown, crashes>>

(* Time passes; a timer that is over fires first.                           *)
Tick ==
  /\ \A c \in Calls : timer[c].api # 0 /\ timer[c].notify # 0
  /\ \E c \in Calls : timer[c] # [api |-> Off, notify |-> Off]
  /\ timer' = [c \in Calls |-> [k \in {"api", "notify"} |->
       IF timer[c][k] = Off THEN Off ELSE timer[c][k] - 1]]
  /\ UNCHANGED <<presenceVars, call, note, told, stored, shown, crashes>>

-----------------------------------------------------------------------------
(* The queue "notification-delivery" hands the event to receiveLike or      *)
(* match; one without a handler is answered with an error at once.          *)
TakeNote(c) ==
  /\ note[c] = "queued"
  /\ NoteTo(c, IF call[c].kind \in Handled THEN "storing" ELSE "ended")
  /\ UNCHANGED <<presenceVars, call, timer, told, stored, shown, crashes>>

(* The statements of the notifications service fail, or do not find the ad  *)
(* or the like; the controller answers with success: false.                 *)
NoteFails(c) ==
  /\ note[c] \in {"storing", "checking"}
  /\ NoteTo(c, "ended")
  /\ UNCHANGED <<presenceVars, call, timer, told, stored, shown, crashes>>

(* notifyAdOwnerAboutLike finds the ad, notifyLikeSenderAboutMatch the like: *)
(* its user is the recipient. Nothing that happens between this read and    *)
(* the insert matters to it.                                                *)
StoreNotification(c) ==
  /\ note[c] = "storing"
  /\ stored' = stored \union {c}
  /\ NoteTo(c, "checking")
  /\ UNCHANGED <<presenceVars, call, timer, told, shown, crashes>>

CheckOnline(c) ==
  /\ note[c] = "checking"
  /\ NoteTo(c, IF isOnline(Recipient[c]) THEN "pushing" ELSE "ended")
  /\ UNCHANGED <<presenceVars, call, timer, told, stored, shown, crashes>>

(* The emission reaches the sockets in the recipient's room, if any.        *)
sendInAppNotification(c) ==
  shown' = [s \in Sockets |-> IF s \in InRoom(Recipient[c]) THEN shown[s] \union {c} ELSE shown[s]]

Push(c) ==
  /\ note[c] = "pushing"
  /\ sendInAppNotification(c)
  /\ NoteTo(c, "ended")
  /\ UNCHANGED <<presenceVars, call, timer, told, stored, crashes>>

(* The presence gateway at work; a client that leaves forgets.              *)
Clients ==
  /\ shown' = [s \in Sockets |-> IF token'[s] = Nobody THEN {} ELSE shown[s]]
  /\ UNCHANGED <<call, note, timer, told, stored, crashes>>

SocketStep == (\E s \in Sockets : SocketNext(s)) /\ Clients
KeyExpires(u) == Expire(u) /\ Clients

(* The process dies with everything it has taken from the queues and with   *)
(* its connections; what waits in the queues is taken after the restart.    *)
Crash ==
  /\ crashes < CrashBound
  /\ crashes' = crashes + 1
  /\ PresenceCrash
  /\ call' = [c \in Calls |->
       IF call[c].phase \in {"working", "notifying"} THEN [call[c] EXCEPT !.phase = "lost"] ELSE call[c]]
  /\ note' = [c \in Calls |-> IF note[c] \in {"none", "queued", "ended"} THEN note[c] ELSE "lost"]
  /\ timer' = [c \in Calls |-> [api |-> Off, notify |-> Off]]
  /\ told' = [c \in Calls |->
       IF told[c] = "nothing" /\ call[c].phase # "new" THEN "failed" ELSE told[c]]
  /\ shown' = [s \in Sockets |-> {}]
  /\ UNCHANGED stored

Next ==
  \/ \E c \in Calls :
       \/ ApiCall(c) \/ Take(c) \/ ExpireMessage(c) \/ Execute(c) \/ Executed(c) \/ Reject(c)
       \/ ApiTimeout(c) \/ Release(c)
       \/ TakeNote(c) \/ NoteFails(c) \/ StoreNotification(c)
       \/ CheckOnline(c) \/ Push(c)
  \/ Tick
  \/ SocketStep
  \/ \E u \in Users : KeyExpires(u)
  \/ Crash

Spec == Init /\ [][Next]_vars

(* The event loop runs the timers, whatever becomes of the services behind  *)
(* the queues; Redis drops keys whose time is over.                         *)
FairSpec ==
  /\ Spec
  /\ WF_vars(Tick)
  /\ \A c \in Calls : WF_vars(ApiTimeout(c)) /\ WF_vars(Release(c))
  /\ \A u \in Users : WF_vars(KeyExpires(u))

-----------------------------------------------------------------------------
(* A call has at most one effect, at most one notification and only one of  *)
(* an effect, and is reported as done only when it is (rmqSend, WithNotify, *)
(* queues without acknowledgement).                                         *)
Call == INSTANCE LikeCall WITH done <- Took, noticed <- stored
CallImplemented == Call!CallSpec

(* A notification is pushed only to clients of its recipient, although a    *)
(* socket may join a room before its user is bound (handleJoin,             *)
(* sendInAppNotification).                                                  *)
PushReachesOwner ==
  \A s \in Sockets : \A c \in shown[s] : token[s] = Recipient[c] /\ c \in stored

(* Who is told that a like, a rejection or a match has succeeded is told so *)
(* after its notification has been dealt with, for better or worse:         *)
(* WithNotify waits for it, and when its patience ends that of the api,     *)
(* whose timer has the same limit and was started before, has ended too     *)
(* (rmqSend within rmqSend).                                                *)
OkMeansNoticeSettled ==
  \A c \in Calls : (told[c] = "ok" /\ call[c].kind \in Decorated) => note[c] = "ended"

(* Every client is told something in bounded time, although the services    *)
(* and the queues may be slow for ever (rmqSend).                           *)
EveryClientIsTold == \A c \in Calls : (call[c].phase # "new") ~> (told[c] # "nothing")

(* The presence of a user without connection ends, although the last        *)
(* disconnect may have come before the user was bound, or a crash instead   *)
(* of it (setOnline with EX).                                               *)
AbsenceShows == \A u \in Users : (~ Live(u)) ~> (Live(u) \/ u \notin key)
=============================================================================
