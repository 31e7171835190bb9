----------------------------- MODULE NotifyProofs -----------------------------
(***************************************************************************)
(* Proofs about Notify, for every number of users, sockets and calls, every *)
(* time limit and every number of crashes: who is shown a notification,     *)
(* what a client may conclude from "ok", and that the calls implement       *)
(* LikeCall.                                                                *)
(***************************************************************************)
EXTENDS Notify, TLAPS

(* A socket is bound to the user of its token and is in no other room than  *)
(* that user's and "undefined"; a slot without a connection is blank.       *)
SocketOK(s) ==
  /\ bound[s] \in {token[s], Nobody}
  /\ rooms[s] \subseteq {token[s], Nobody}
  /\ token[s] = Nobody => rooms[s] = {} /\ shown[s] = {}
  /\ \A c \in shown[s] : token[s] = Recipient[c] /\ c \in stored

SocketsOK == \A s \in Sockets : SocketOK(s)

(* What the parts of a call know of each other: its state x, that of its    *)
(* notification n, the timers t, what the client is told w, and the stored  *)
(* notifications S. As long as the api waits, its timer is not behind the   *)
(* one of WithNotify.                                                       *)
CallOK(c, x, n, t, w, S) ==
  /\ n # "none" => x.took
  /\ x.phase \in {"new", "queued", "working"} => n = "none"
  /\ x.phase = "notifying" => x.took
  /\ w = "ok" => x.took /\ x.phase = "ended" /\ (x.kind \in Decorated => n = "ended")
  /\ n \in {"none", "queued", "storing"} => c \notin S
  /\ n \in {"checking", "pushing"} => c \in S
  /\ x.phase = "notifying" /\ w = "nothing" /\ t.api \in 0..RmqLimit => t.api <= t.notify

CallsOK == \A c \in Calls : CallOK(c, call[c], note[c], timer[c], told[c], stored)

NInv == TypeOK /\ SocketsOK /\ CallsOK

-----------------------------------------------------------------------------
LEMMA InitNInv == Init => NInv
<1> SUFFICES ASSUME Init PROVE NInv
  OBVIOUS
<1>1. TypeOK
  <2>1. call \in [Calls -> CallType]
    <3>1. \A k \in Kinds : [phase |-> "new", kind |-> k, took |-> FALSE] \in CallType
      BY DEF CallType
    <3> QED
      BY <3>1 DEF Init
  <2>2. timer \in [Calls -> [api : 0..Off, notify : 0..Off]]
    BY RmqLimitAssumption DEF Init, Off
  <2>3. PresenceTypeOK
    BY DEF Init, PresenceInit, PresenceTypeOK
  <2> QED
    BY <2>1, <2>2, <2>3 DEF Init, TypeOK, NotePhases
<1>2. SocketsOK
  BY DEF Init, PresenceInit, SocketsOK, SocketOK
<1>3. CallsOK
  BY DEF Init, CallsOK, CallOK
<1> QED
  BY <1>1, <1>2, <1>3 DEF NInv

-----------------------------------------------------------------------------
(* Types.                                                                   *)
TimerSet == [Calls -> [api : 0..Off, notify : 0..Off]]

LEMMA Limits == RmqLimit \in 0..Off /\ Off \in 0..Off /\ 0 \in 0..Off /\ Off \notin 0..RmqLimit
BY RmqLimitAssumption DEF Off

LEMMA TimerTypes ==
  ASSUME TypeOK, NEW c \in Calls, NEW v \in 0..Off
  PROVE  /\ timer \in TimerSet
         /\ [timer EXCEPT ![c].api = v] \in TimerSet
         /\ [timer EXCEPT ![c].notify = v] \in TimerSet
<1>1. timer[c] \in [api : 0..Off, notify : 0..Off]
  BY DEF TypeOK
<1>2. /\ [timer[c] EXCEPT !.api = v] \in [api : 0..Off, notify : 0..Off]
      /\ [timer[c] EXCEPT !.notify = v] \in [api : 0..Off, notify : 0..Off]
  BY <1>1
<1> QED
  BY <1>2 DEF TypeOK, TimerSet

LEMMA StartType ==
  ASSUME TypeOK, NEW c \in Calls, StartTimer(c, "api") \/ StartTimer(c, "notify")
  PROVE  timer' \in TimerSet
<1>1. \/ timer' = [timer EXCEPT ![c].api = RmqLimit]
      \/ timer' = [timer EXCEPT ![c].notify = RmqLimit]
  BY DEF StartTimer
<1> QED
  BY <1>1, TimerTypes, Limits

LEMMA PhaseTypes ==
  ASSUME TypeOK, NEW c \in Calls,
         NEW p \in {"new", "queued", "working", "notifying", "ended", "lost"}
  PROVE  [call EXCEPT ![c].phase = p] \in [Calls -> CallType]
<1>1. call[c] \in CallType
  BY DEF TypeOK
<1>2. [call[c] EXCEPT !.phase = p] \in CallType
  BY <1>1 DEF CallType
<1> QED
  BY <1>2 DEF TypeOK

LEMMA ReplyType ==
  ASSUME TypeOK, NEW c \in Calls, NEW outcome \in {"ok", "failed"}, Reply(c, outcome)
  PROVE  /\ timer' \in TimerSet
         /\ told' \in [Calls -> {"nothing", "ok", "failed"}]
<1>1. timer' = [timer EXCEPT ![c].api = Off] \/ timer' = timer
  BY DEF Reply
<1>2. timer' \in TimerSet
  BY <1>1, TimerTypes, Limits
<1>3. told' \in [Calls -> {"nothing", "ok", "failed"}]
  BY DEF Reply, TypeOK
<1> QED
  BY <1>2, <1>3

LEMMA NextType == TypeOK /\ [Next]_vars => TypeOK'
<1> SUFFICES ASSUME TypeOK, [Next]_vars PROVE TypeOK'
  OBVIOUS
<1> USE Limits
<1>1. ASSUME NEW c \in Calls, ApiCall(c) PROVE TypeOK'
  <2>1. timer' \in TimerSet /\ call' \in [Calls -> CallType]
    BY <1>1, StartType, PhaseTypes DEF ApiCall, CallTo
  <2> QED
    BY <1>1, <2>1 DEF ApiCall, TypeOK, TimerSet, PresenceTypeOK, presenceVars
<1>2. ASSUME NEW c \in Calls, Take(c) \/ ExpireMessage(c) PROVE TypeOK'
  <2>1. call' \in [Calls -> CallType]
    BY <1>2, PhaseTypes DEF Take, ExpireMessage, CallTo
  <2> QED
    BY <1>2, <2>1 DEF Take, ExpireMessage, TypeOK, PresenceTypeOK, presenceVars
<1>3. ASSUME NEW c \in Calls, Execute(c) PROVE TypeOK'
  <2>1. call' \in [Calls -> CallType]
    BY <1>3 DEF Execute, TypeOK, CallType
  <2> QED
    BY <1>3, <2>1 DEF Execute, TypeOK, PresenceTypeOK, presenceVars
<1>4. ASSUME NEW c \in Calls, Executed(c) PROVE TypeOK'
  <2>1. CASE call[c].kind \in Decorated
    <3>1. timer' \in TimerSet /\ call' \in [Calls -> CallType]
      BY <1>4, <2>1, StartType, PhaseTypes DEF Executed, WithNotify, CallTo
    <3> QED
      BY <1>4, <2>1, <3>1 DEF Executed, WithNotify, NoteTo, TypeOK, TimerSet, NotePhases, PresenceTypeOK, presenceVars
  <2>2. CASE call[c].kind \notin Decorated
    BY <1>4, <2>2, ReplyType, PhaseTypes DEF Executed, CallTo, TypeOK, TimerSet, PresenceTypeOK, presenceVars
  <2> QED
    BY <2>1, <2>2
<1>5. ASSUME NEW c \in Calls, Reject(c) PROVE TypeOK'
  BY <1>5, ReplyType, PhaseTypes DEF Reject, CallTo, TypeOK, TimerSet, PresenceTypeOK, presenceVars
<1>6. ASSUME NEW c \in Calls, ApiTimeout(c) PROVE TypeOK'
  BY <1>6, ReplyType DEF ApiTimeout, TypeOK, TimerSet, PresenceTypeOK, presenceVars
<1>7. ASSUME NEW c \in Calls, Release(c) PROVE TypeOK'
  <2> DEFINE t == [timer EXCEPT ![c].notify = Off]
  <2>1. t \in [Calls -> [api : 0..Off, notify : 0..Off]]
    BY TimerTypes DEF TimerSet
  <2>2. t[c] \in [api : 0..Off, notify : 0..Off]
    BY <2>1
  <2>3. [t[c] EXCEPT !.api = Off] \in [api : 0..Off, notify : 0..Off]
    BY <2>2
  <2>4. [t EXCEPT ![c].api = Off] \in [Calls -> [api : 0..Off, notify : 0..Off]]
    BY <2>1, <2>3
  <2>5. timer' = t \/ timer' = [t EXCEPT ![c].api = Off]
    BY <1>7 DEF Release
  <2>6. timer' \in [Calls -> [api : 0..Off, notify : 0..Off]]
    BY <2>1, <2>4, <2>5
  <2> HIDE DEF t
  <2> QED
    BY <1>7, <2>6, PhaseTypes DEF Release, CallTo, TypeOK, PresenceTypeOK, presenceVars
<1>8. ASSUME Tick PROVE TypeOK'
  <2>1. timer' \in [Calls -> [api : 0..Off, notify : 0..Off]]
    <3> SUFFICES ASSUME NEW c \in Calls
                 PROVE  [k \in {"api", "notify"} |-> IF timer[c][k] = Off THEN Off ELSE timer[c][k] - 1]
                          \in [api : 0..Off, notify : 0..Off]
      BY <1>8 DEF Tick
    <3>1. /\ timer[c] \in [api : 0..Off, notify : 0..Off]
          /\ timer[c].api # 0 /\ timer[c].notify # 0
      BY <1>8 DEF Tick, TypeOK
    <3> QED
      BY <3>1, RmqLimitAssumption DEF Off
  <2> QED
    BY <1>8, <2>1 DEF Tick, TypeOK, PresenceTypeOK, presenceVars
<1>9. ASSUME NEW c \in Calls,
             TakeNote(c) \/ NoteFails(c) \/ StoreNotification(c) \/ CheckOnline(c)
      PROVE  TypeOK'
  BY <1>9 DEF TakeNote, NoteFails, StoreNotification, CheckOnline, NoteTo, TypeOK, NotePhases,
              PresenceTypeOK, presenceVars
<1>10. ASSUME NEW c \in Calls, Push(c) PROVE TypeOK'
  BY <1>10 DEF Push, sendInAppNotification, NoteTo, TypeOK, NotePhases, PresenceTypeOK, presenceVars
<1>11. ASSUME SocketStep PROVE TypeOK'
  <2>1. PICK s \in Sockets : SocketNext(s)
    BY <1>11 DEF SocketStep
  <2>2. PresenceTypeOK'
    BY <2>1 DEF SocketNext, handleConnection, Bind, Refuse, handleDisconnect, handleJoin, Hangup,
                setOnline, removeOnline, TypeOK, PresenceTypeOK
  <2> QED
    BY <1>11, <2>2 DEF SocketStep, Clients, TypeOK
<1>12. ASSUME NEW u \in Users, KeyExpires(u) PROVE TypeOK'
  BY <1>12 DEF KeyExpires, Expire, Clients, TypeOK, PresenceTypeOK
<1>13. ASSUME Crash PROVE TypeOK'
  <2>1. PresenceTypeOK'
    BY <1>13 DEF Crash, PresenceCrash, TypeOK, PresenceTypeOK
  <2>2. call' \in [Calls -> CallType]
    <3>1. \A c \in Calls : [call[c] EXCEPT !.phase = "lost"] \in CallType
      BY DEF TypeOK, CallType
    <3> QED
      BY <1>13, <3>1 DEF Crash, TypeOK
  <2>3. timer' \in [Calls -> [api : 0..Off, notify : 0..Off]]
    BY <1>13 DEF Crash
  <2> QED
    BY <1>13, <2>1, <2>2, <2>3 DEF Crash, TypeOK, NotePhases
<1>14. ASSUME UNCHANGED vars PROVE TypeOK'
  BY <1>14 DEF vars, presenceVars, deliveryVars, TypeOK, PresenceTypeOK
<1> QED
  BY <1>1, <1>2, <1>3, <1>4, <1>5, <1>6, <1>7, <1>8, <1>9, <1>10, <1>11, <1>12, <1>13, <1>14
  DEF Next

-----------------------------------------------------------------------------
(* Sockets.                                                                 *)
LEMMA SocketsKept ==
  ASSUME NInv, UNCHANGED <<presenceVars, shown>>, stored \subseteq stored'
  PROVE  SocketsOK'
BY DEF NInv, SocketsOK, SocketOK, presenceVars

LEMMA PushSockets ==
  ASSUME NInv, NEW c \in Calls, Push(c)
  PROVE  SocketsOK'
<1>1. c \in stored
  BY DEF NInv, CallsOK, CallOK, Push
<1>2. Recipient[c] \in Users /\ Recipient[c] # Nobody
  BY RecipientAssumption, NobodyIsNoUser
<1> SUFFICES ASSUME NEW s \in Sockets
             PROVE  SocketOK(s)'
  BY DEF SocketsOK
<1>3. SocketOK(s)
  BY DEF NInv, SocketsOK
<1>4. UNCHANGED <<token, bound, rooms, stored>>
  BY DEF Push, presenceVars
<1>5. shown'[s] = IF s \in InRoom(Recipient[c]) THEN shown[s] \union {c} ELSE shown[s]
  BY DEF Push, sendInAppNotification
<1>6. s \in InRoom(Recipient[c]) => Recipient[c] \in rooms[s] /\ token[s] = Recipient[c]
  BY <1>2, <1>3 DEF InRoom, SocketOK
<1> QED
  BY <1>1, <1>3, <1>4, <1>5, <1>6 DEF SocketOK

LEMMA ClientSockets ==
  ASSUME NInv, SocketStep
  PROVE  SocketsOK'
<1>1. PICK t \in Sockets : SocketNext(t)
  BY DEF SocketStep
<1>2. UNCHANGED stored /\ shown' = [s \in Sockets |-> IF token'[s] = Nobody THEN {} ELSE shown[s]]
  BY DEF SocketStep, Clients
<1> SUFFICES ASSUME NEW s \in Sockets
             PROVE  SocketOK(s)'
  BY DEF SocketsOK
<1>3. SocketOK(s)
  BY DEF NInv, SocketsOK
<1>4. /\ token \in [Sockets -> Users \union {Nobody}] /\ bound \in [Sockets -> Users \union {Nobody}]
      /\ rooms \in [Sockets -> SUBSET (Users \union {Nobody})]
  BY DEF NInv, TypeOK, PresenceTypeOK
<1>5. CASE handleConnection(t)
  BY <1>2, <1>3, <1>4, <1>5, NobodyIsNoUser DEF handleConnection, SocketOK
<1>6. CASE Bind(t)
  BY <1>2, <1>3, <1>4, <1>6 DEF Bind, SocketOK
<1>7. CASE Refuse(t) \/ handleDisconnect(t)
  BY <1>2, <1>3, <1>4, <1>7 DEF Refuse, handleDisconnect, Hangup, SocketOK
<1>8. CASE handleJoin(t)
  BY <1>2, <1>3, <1>4, <1>8 DEF handleJoin, SocketOK
<1> QED
  BY <1>1, <1>5, <1>6, <1>7, <1>8 DEF SocketNext

LEMMA SocketsStep == NInv /\ [Next]_vars => SocketsOK'
<1> SUFFICES ASSUME NInv, [Next]_vars PROVE SocketsOK'
  OBVIOUS
<1>1. CASE \E c \in Calls :
         \/ ApiCall(c) \/ Take(c) \/ ExpireMessage(c) \/ Execute(c) \/ Executed(c) \/ Reject(c)
         \/ ApiTimeout(c) \/ Release(c)
         \/ TakeNote(c) \/ NoteFails(c) \/ StoreNotification(c) \/ CheckOnline(c)
  <2>1. UNCHANGED <<presenceVars, shown>> /\ stored \subseteq stored'
    BY <1>1 DEF ApiCall, Take, ExpireMessage, Execute, Executed, Reject, ApiTimeout, Release,
                TakeNote, NoteFails, StoreNotification, CheckOnline
  <2> QED
    BY <2>1, SocketsKept
<1>2. CASE \E c \in Calls : Push(c)
  BY <1>2, PushSockets
<1>3. CASE Tick
  BY <1>3, SocketsKept DEF Tick
<1>4. CASE SocketStep
  BY <1>4, ClientSockets
<1>5. CASE \E u \in Users : KeyExpires(u)
  BY <1>5 DEF KeyExpires, Expire, Clients, NInv, TypeOK, SocketsOK, SocketOK
<1>6. CASE Crash
  BY <1>6 DEF Crash, PresenceCrash, NInv, SocketsOK, SocketOK
<1>7. CASE UNCHANGED vars
  BY <1>7, SocketsKept DEF vars, deliveryVars
<1> QED
  BY <1>1, <1>2, <1>3, <1>4, <1>5, <1>6, <1>7 DEF Next

-----------------------------------------------------------------------------
(* Calls.                                                                   *)
LEMMA Parts ==
  ASSUME NInv, NEW c \in Calls
  PROVE  /\ call[c] \in CallType /\ note[c] \in NotePhases
         /\ timer[c] \in [api : 0..Off, notify : 0..Off]
         /\ told[c] \in {"nothing", "ok", "failed"}
         /\ CallOK(c, call[c], note[c], timer[c], told[c], stored)
BY DEF NInv, TypeOK, CallsOK

LEMMA CallsKept ==
  ASSUME NInv, NEW c \in Calls,
         \A d \in Calls \ {c} :
           /\ call'[d] = call[d] /\ note'[d] = note[d] /\ timer'[d] = timer[d] /\ told'[d] = told[d]
           /\ d \in stored' <=> d \in stored,
         CallOK(c, call'[c], note'[c], timer'[c], told'[c], stored')
  PROVE  CallsOK'
BY DEF NInv, CallsOK, CallOK

LEMMA EarlyStep ==
  ASSUME NInv, NEW c \in Calls, ApiCall(c) \/ Take(c) \/ ExpireMessage(c)
  PROVE  CallsOK'
<1>1. /\ \E p \in {"queued", "working", "lost"} : call' = [call EXCEPT ![c].phase = p]
      /\ call[c].phase \in {"new", "queued"}
      /\ UNCHANGED <<note, told, stored>>
      /\ UNCHANGED timer \/ timer' = [timer EXCEPT ![c].api = RmqLimit]
  BY DEF ApiCall, Take, ExpireMessage, CallTo, StartTimer
<1>2. CallOK(c, call'[c], note'[c], timer'[c], told'[c], stored')
  BY <1>1, Parts DEF CallOK, CallType, NInv, TypeOK
<1> QED
  BY <1>1, <1>2, CallsKept DEF NInv, TypeOK

LEMMA ExecuteStep ==
  ASSUME NInv, NEW c \in Calls, Execute(c)
  PROVE  CallsOK'
<1>1. CallOK(c, call'[c], note'[c], timer'[c], told'[c], stored')
  BY Parts DEF Execute, CallOK, CallType, NInv, TypeOK
<1> QED
  BY <1>1, CallsKept DEF Execute, NInv, TypeOK

(* What Reply does to the client and the timers.                            *)
LEMMA Replied ==
  ASSUME NInv, NEW c \in Calls, NEW outcome \in {"ok", "failed"}, Reply(c, outcome)
  PROVE  /\ told'[c] \in {told[c], outcome}
         /\ timer'[c].notify = timer[c].notify
         /\ told'[c] # "nothing" \/ timer'[c] = timer[c]
         /\ told[c] = "ok" => told'[c] = "ok"
         /\ \A d \in Calls \ {c} : timer'[d] = timer[d] /\ told'[d] = told[d]
BY Parts DEF Reply, NInv, TypeOK

LEMMA ExecutedStep ==
  ASSUME NInv, NEW c \in Calls, Executed(c)
  PROVE  CallsOK'
<1>0. call[c].phase = "working" /\ call[c].took /\ UNCHANGED stored
  BY DEF Executed
<1>1. CASE call[c].kind \in Decorated
  <2>1. /\ note' = [note EXCEPT ![c] = "queued"] /\ UNCHANGED told
        /\ timer' = [timer EXCEPT ![c].notify = RmqLimit]
        /\ call' = [call EXCEPT ![c].phase = "notifying"]
    BY <1>1 DEF Executed, WithNotify, NoteTo, StartTimer, CallTo
  <2>2. CallOK(c, call'[c], note'[c], timer'[c], told'[c], stored')
    BY <1>0, <2>1, Parts, RmqLimitAssumption DEF CallOK, CallType, NInv, TypeOK, Off
  <2> QED
    BY <1>0, <2>1, <2>2, CallsKept DEF NInv, TypeOK
<1>2. CASE call[c].kind \notin Decorated
  <2>1. /\ call' = [call EXCEPT ![c].phase = "ended"] /\ UNCHANGED note
        /\ Reply(c, "ok")
    BY <1>2 DEF Executed, CallTo
  <2>2. CallOK(c, call'[c], note'[c], timer'[c], told'[c], stored')
    BY <1>0, <1>2, <2>1, Parts, Replied DEF CallOK, CallType, NInv, TypeOK
  <2> QED
    BY <1>0, <2>1, <2>2, Replied, CallsKept DEF NInv, TypeOK
<1> QED
  BY <1>1, <1>2

LEMMA FailedStep ==
  ASSUME NInv, NEW c \in Calls, Reject(c) \/ ApiTimeout(c)
  PROVE  CallsOK'
<1>1. /\ call' = call \/ (call[c].phase = "working" /\ call' = [call EXCEPT ![c].phase = "ended"])
      /\ UNCHANGED <<note, stored>> /\ Reply(c, "failed")
  BY DEF Reject, ApiTimeout, CallTo
<1>2. CallOK(c, call'[c], note'[c], timer'[c], told'[c], stored')
  <2>1. told[c] = "ok" => call[c].phase = "ended"
    BY Parts DEF CallOK
  <2> QED
    BY <1>1, <2>1, Parts, Replied DEF CallOK, CallType, NInv, TypeOK
<1> QED
  BY <1>1, <1>2, Replied, CallsKept DEF NInv, TypeOK

(* WithNotify lets the answer go: the notification has ended, or the api    *)
(* does not wait any more.                                                  *)
LEMMA ReleaseStep ==
  ASSUME NInv, NEW c \in Calls, Release(c)
  PROVE  CallsOK'
<1>1. /\ call[c].phase = "notifying" /\ call' = [call EXCEPT ![c].phase = "ended"]
      /\ UNCHANGED <<note, stored>>
      /\ note[c] = "ended" \/ (timer[c].notify = 0 /\ timer[c].api # 0)
  BY DEF Release, CallTo
<1>2. \A d \in Calls \ {c} : timer'[d] = timer[d] /\ told'[d] = told[d]
  BY DEF Release, NInv, TypeOK
<1>3. \/ told'[c] = told[c]
      \/ told[c] = "nothing" /\ timer[c].api # Off /\ told'[c] = "ok"
  BY DEF Release, NInv, TypeOK
<1>4. told[c] = "nothing" /\ timer[c].api # Off => note[c] = "ended"
  BY <1>1, Parts, RmqLimitAssumption DEF CallOK, Off
<1>5. CallOK(c, call'[c], note'[c], timer'[c], told'[c], stored')
  BY <1>1, <1>3, <1>4, Parts DEF CallOK, CallType, NInv, TypeOK
<1> QED
  BY <1>1, <1>2, <1>5, CallsKept DEF NInv, TypeOK

LEMMA TickStep ==
  ASSUME NInv, Tick
  PROVE  CallsOK'
<1> SUFFICES ASSUME NEW c \in Calls
             PROVE  CallOK(c, call'[c], note'[c], timer'[c], told'[c], stored')
  BY DEF CallsOK
<1>1. /\ UNCHANGED <<call, note, told, stored>>
      /\ timer[c].api # 0 /\ timer[c].notify # 0
      /\ timer'[c].api = IF timer[c].api = Off THEN Off ELSE timer[c].api - 1
      /\ timer'[c].notify = IF timer[c].notify = Off THEN Off ELSE timer[c].notify - 1
  BY DEF Tick
<1>2. timer'[c].api \in 0..RmqLimit =>
        /\ timer[c].api \in 0..RmqLimit
        /\ timer[c].api <= timer[c].notify => timer'[c].api <= timer'[c].notify
  BY <1>1, Parts, RmqLimitAssumption DEF Off
<1> QED
  BY <1>1, <1>2, Parts DEF CallOK

LEMMA NoteStep ==
  ASSUME NInv, NEW c \in Calls,
         TakeNote(c) \/ NoteFails(c) \/ StoreNotification(c) \/ CheckOnline(c) \/ Push(c)
  PROVE  CallsOK'
<1>1. UNCHANGED <<call, timer, told>>
  BY DEF TakeNote, NoteFails, StoreNotification, CheckOnline, Push
<1>2. /\ note' = [note EXCEPT ![c] = note'[c]]
      /\ \/ note[c] = "queued" /\ note'[c] \in {"storing", "ended"} /\ stored' = stored
         \/ note[c] \in {"storing", "checking"} /\ note'[c] = "ended" /\ stored' = stored
         \/ note[c] = "storing" /\ note'[c] = "checking" /\ stored' = stored \union {c}
         \/ note[c] \in {"checking", "pushing"} /\ note'[c] \in {"pushing", "ended"} /\ stored' = stored
  BY DEF TakeNote, NoteFails, StoreNotification, CheckOnline, Push, NoteTo, NInv, TypeOK
<1>3. CallOK(c, call'[c], note'[c], timer'[c], told'[c], stored')
  BY <1>1, <1>2, Parts DEF CallOK
<1> QED
  BY <1>1, <1>2, <1>3, CallsKept DEF NInv, TypeOK

LEMMA CrashStep ==
  ASSUME NInv, Crash
  PROVE  CallsOK'
<1> SUFFICES ASSUME NEW c \in Calls
             PROVE  CallOK(c, call'[c], note'[c], timer'[c], told'[c], stored')
  BY DEF CallsOK
<1>1. /\ call'[c].took = call[c].took /\ call'[c].kind = call[c].kind
      /\ call'[c].phase = IF call[c].phase \in {"working", "notifying"} THEN "lost" ELSE call[c].phase
  BY Parts DEF Crash, CallType
<1>2. /\ note'[c] = IF note[c] \in {"none", "queued", "ended"} THEN note[c] ELSE "lost"
      /\ told'[c] = IF told[c] = "nothing" /\ call[c].phase # "new" THEN "failed" ELSE told[c]
      /\ stored' = stored
  BY DEF Crash
<1> QED
  BY <1>1, <1>2, Parts DEF CallOK

LEMMA CallsStep == NInv /\ [Next]_vars => CallsOK'
<1> SUFFICES ASSUME NInv, [Next]_vars PROVE CallsOK'
  OBVIOUS
<1>1. CASE SocketStep \/ (\E u \in Users : KeyExpires(u)) \/ UNCHANGED vars
  <2>1. UNCHANGED <<call, note, timer, told, stored>>
    BY <1>1 DEF SocketStep, KeyExpires, Clients, vars, deliveryVars
  <2> QED
    BY <2>1 DEF NInv, CallsOK, CallOK
<1> QED
  BY <1>1, EarlyStep, ExecuteStep, ExecutedStep, FailedStep, ReleaseStep, TickStep, NoteStep, CrashStep
  DEF Next

THEOREM Invariance == Spec => []NInv
<1>1. NInv /\ [Next]_vars => NInv'
  BY NextType, SocketsStep, CallsStep DEF NInv
<1> QED
  BY InitNInv, <1>1, PTL DEF Spec

(* Every variable keeps its type.                                          *)
THEOREM NotifyTypeCorrect == Spec => []TypeOK
<1>1. NInv => TypeOK
  BY DEF NInv
<1> QED
  BY Invariance, <1>1, PTL

(* Whatever a socket is shown is meant for the user of its token, although  *)
(* a client may join a room before its user is bound                        *)
(* (handleJoin, sendInAppNotification).                                     *)
THEOREM SpecPushReachesOwner == Spec => []PushReachesOwner
<1>1. NInv => PushReachesOwner
  BY DEF NInv, SocketsOK, SocketOK, PushReachesOwner
<1> QED
  BY Invariance, <1>1, PTL

(* "ok" is told of a like, a rejection or a match only when its             *)
(* notification has been dealt with (WithNotify, rmqSend).                  *)
THEOREM SpecOkMeansNoticeSettled == Spec => []OkMeansNoticeSettled
<1>1. NInv => OkMeansNoticeSettled
  BY DEF NInv, CallsOK, CallOK, OkMeansNoticeSettled
<1> QED
  BY Invariance, <1>1, PTL

-----------------------------------------------------------------------------
(* Refinement: the steps of Notify are steps of LikeCall.                   *)
LEMMA InitMaps == Init => Call!CallInit
<1> SUFFICES ASSUME Init PROVE Call!CallInit
  OBVIOUS
<1>1. \A c \in Calls : ~ call[c].took
  BY DEF Init
<1> QED
  BY <1>1 DEF Init, Took, Call!CallInit

(* Only Execute changes what has taken effect.                              *)
LEMMA TookKept ==
  ASSUME \A c \in Calls : call'[c].took = call[c].took
  PROVE  Took' = Took
BY DEF Took

LEMMA PhaseTook ==
  ASSUME NInv, NEW c \in Calls, NEW phase, CallTo(c, phase) \/ UNCHANGED call
  PROVE  Took' = Took
<1>1. \A d \in Calls : call'[d].took = call[d].took
  BY DEF CallTo, NInv, TypeOK, CallType
<1> QED
  BY <1>1, TookKept

LEMMA Stutters ==
  ASSUME Took' = Took, UNCHANGED <<stored, told>>
  PROVE  [Call!CallNext]_(Call!callVars)
BY DEF Call!callVars

(* An answer, whether it still finds a client that waits or not.            *)
LEMMA Answers ==
  ASSUME NEW c \in Calls, NEW outcome \in {"ok", "failed"},
         Took' = Took, UNCHANGED stored,
         outcome = "ok" => c \in Took,
         \/ told' = told
         \/ told[c] = "nothing" /\ told' = [told EXCEPT ![c] = outcome]
  PROVE  [Call!CallNext]_(Call!callVars)
BY DEF Call!CallNext, Call!Tell, Call!callVars

LEMMA ExecuteMaps ==
  ASSUME NInv, NEW c \in Calls, Execute(c)
  PROVE  [Call!CallNext]_(Call!callVars)
<1>1. /\ call' = [call EXCEPT ![c].took = TRUE] /\ ~ call[c].took
      /\ UNCHANGED <<stored, told>>
  BY DEF Execute
<1>2. \A d \in Calls : call'[d].took <=> (d = c \/ call[d].took)
  BY <1>1 DEF NInv, TypeOK, CallType
<1>3. Took' = Took \union {c} /\ c \notin Took
  BY <1>1, <1>2 DEF Took
<1> QED
  BY <1>1, <1>3 DEF Call!CallNext, Call!TakeEffect

LEMMA AnswerMaps ==
  ASSUME NInv, NEW c \in Calls, Executed(c) \/ Reject(c) \/ ApiTimeout(c) \/ Release(c)
  PROVE  [Call!CallNext]_(Call!callVars)
<1>1. Took' = Took /\ UNCHANGED stored
  BY PhaseTook DEF Executed, WithNotify, Reject, ApiTimeout, Release
<1>2. CASE Executed(c) \/ Release(c)
  <2>1. c \in Took
    BY <1>2, Parts DEF Executed, Release, CallOK, Took
  <2>2. told' = told \/ (told[c] = "nothing" /\ told' = [told EXCEPT ![c] = "ok"])
    BY <1>2 DEF Executed, Release, Reply
  <2> QED
    BY <1>1, <2>1, <2>2, Answers
<1>3. CASE Reject(c) \/ ApiTimeout(c)
  <2>1. told' = told \/ (told[c] = "nothing" /\ told' = [told EXCEPT ![c] = "failed"])
    BY <1>3 DEF Reject, ApiTimeout, Reply
  <2> QED
    BY <1>1, <2>1, Answers
<1> QED
  BY <1>2, <1>3

LEMMA StoreMaps ==
  ASSUME NInv, NEW c \in Calls, StoreNotification(c)
  PROVE  [Call!CallNext]_(Call!callVars)
<1>1. note[c] = "storing" /\ stored' = stored \union {c} /\ UNCHANGED <<call, told>>
  BY DEF StoreNotification
<1>2. c \in Took /\ c \notin stored
  BY <1>1, Parts DEF CallOK, Took
<1>3. Took' = Took
  BY <1>1 DEF Took
<1> QED
  BY <1>1, <1>2, <1>3 DEF Call!CallNext, Call!StoreNotice

LEMMA CrashMaps ==
  ASSUME NInv, Crash
  PROVE  [Call!CallNext]_(Call!callVars)
<1> DEFINE waiting == {c \in Calls : call[c].phase # "new"}
<1>1. told' = [c \in Calls |->
        IF c \in waiting /\ told[c] = "nothing" THEN "failed" ELSE told[c]]
  BY DEF Crash
<1>2. Took' = Took
  <2>1. \A c \in Calls : call'[c].took = call[c].took
    BY Parts DEF Crash, CallType
  <2> QED
    BY <2>1, TookKept
<1>3. waiting \in SUBSET Calls /\ UNCHANGED stored
  BY DEF Crash
<1> HIDE DEF waiting
<1>4. Call!Lose
  BY <1>1, <1>2, <1>3 DEF Call!Lose
<1> QED
  BY <1>4 DEF Call!CallNext

LEMMA StepMaps == NInv /\ [Next]_vars => [Call!CallNext]_(Call!callVars)
<1> SUFFICES ASSUME NInv, [Next]_vars PROVE [Call!CallNext]_(Call!callVars)
  OBVIOUS
<1>1. CASE \E c \in Calls :
         \/ ApiCall(c) \/ Take(c) \/ ExpireMessage(c)
         \/ TakeNote(c) \/ NoteFails(c) \/ CheckOnline(c) \/ Push(c)
  <2>1. PICK c \in Calls :
          /\ (\E p : CallTo(c, p)) \/ UNCHANGED call
          /\ UNCHANGED <<stored, told>>
    BY <1>1 DEF ApiCall, Take, ExpireMessage, TakeNote, NoteFails, CheckOnline, Push
  <2>2. Took' = Took
    BY <2>1, PhaseTook
  <2> QED
    BY <2>1, <2>2, Stutters
<1>2. CASE Tick \/ SocketStep \/ (\E u \in Users : KeyExpires(u)) \/ UNCHANGED vars
  <2>1. UNCHANGED <<call, stored, told>>
    BY <1>2 DEF Tick, SocketStep, KeyExpires, Clients, vars, deliveryVars
  <2>2. Took' = Took
    BY <2>1 DEF Took
  <2> QED
    BY <2>1, <2>2, Stutters
<1> QED
  BY <1>1, <1>2, ExecuteMaps, AnswerMaps, StoreMaps, CrashMaps DEF Next

(* Whatever the queues, the timers, the sockets and the crashes do, a call  *)
(* takes effect at most once, is noticed at most once and only if it took   *)
(* effect, and is answered once and with "ok" only if it took effect: it    *)
(* implements LikeCall.                                                     *)
THEOREM SpecCallImplemented == Spec => CallImplemented
<1>1. Init => Call!CallInit
  BY InitMaps
<1>2. NInv /\ [Next]_vars => [Call!CallNext]_(Call!callVars)
  BY StepMaps
<1> QED
  BY Invariance, <1>1, <1>2, PTL DEF Spec, CallImplemented, Call!CallSpec
=============================================================================
