----------------------------- MODULE DbPoolProofs -----------------------------
(***************************************************************************)
(* Proofs about DbPool, for every number of connections and of calls.      *)
(***************************************************************************)
EXTENDS DbPool, TLAPS

AllHandlers == {"send", "dismiss", "reject", "match"}

(* The four programs, statement by statement.                              *)
LEMMA SendProgram ==
  /\ Len(Program["send"]) = 8
  /\ \A i \in 1 .. 8 : KindAt("send", i) =
       IF i <= 4 THEN "plain" ELSE IF i = 5 THEN "begin"
       ELSE IF i <= 7 THEN "tx" ELSE "commit"
BY DEF Program, KindAt

LEMMA DismissProgram ==
  /\ Len(Program["dismiss"]) = 4
  /\ \A i \in 1 .. 4 : KindAt("dismiss", i) = "plain"
BY DEF Program, KindAt

LEMMA RejectProgram ==
  /\ Len(Program["reject"]) = 6
  /\ \A i \in 1 .. 6 : KindAt("reject", i) =
       IF i \in {1, 4} THEN "plain" ELSE IF i = 2 THEN "begin"
       ELSE IF i = 6 THEN "commit" ELSE "tx"
BY DEF Program, KindAt

LEMMA MatchProgram ==
  /\ Len(Program["match"]) = 11
  /\ \A i \in 1 .. 11 : KindAt("match", i) =
       IF i = 1 THEN "begin" ELSE IF i = 2 THEN "check" ELSE IF i \in {7, 8} THEN "plain"
       ELSE IF i = 11 THEN "commit" ELSE "tx"
BY DEF Program, KindAt

(* What the proofs below need of the programs: a handler opens at most one *)
(* transaction, ends it with its last statement, and only match reads      *)
(* between the begin and its try block.                                    *)
LEMMA Programs ==
  ASSUME NEW h \in AllHandlers, NEW i \in 1 .. Len(Program[h])
  PROVE  /\ Len(Program[h]) \in Nat \ {0}
         /\ KindAt(h, i) \in {"plain", "check", "begin", "tx", "commit"}
         /\ KindAt(h, i) = "check" => h = "match"
         /\ KindAt(h, i) = "commit" => i = Len(Program[h])
         /\ KindAt(h, i) = "begin" => ~ Opened(h, i) /\ i # Len(Program[h])
         /\ KindAt(h, i) \in {"check", "tx", "commit"} => Opened(h, i)
         /\ i = Len(Program[h]) /\ Opened(h, i) => KindAt(h, i) = "commit"
         /\ h = "send" /\ Opened(h, i) => KindAt(h, i) \in {"tx", "commit"}
<1>1. CASE h = "send"
  BY <1>1, SendProgram DEF Opened
<1>2. CASE h = "dismiss"
  BY <1>2, DismissProgram DEF Opened
<1>3. CASE h = "reject"
  BY <1>3, RejectProgram DEF Opened
<1>4. CASE h = "match"
  BY <1>4, MatchProgram DEF Opened
<1> QED
  BY <1>1, <1>2, <1>3, <1>4 DEF AllHandlers

LEMMA OpenedNext ==
  ASSUME NEW h, NEW i \in Nat \ {0}
  PROVE  /\ Opened(h, i + 1) <=> Opened(h, i) \/ KindAt(h, i) = "begin"
         /\ ~ Opened(h, 1)
BY DEF Opened

-----------------------------------------------------------------------------
(* A call that asked the pool is at a statement that needs the pool.       *)
AskedFromPool == \A c \in Calls :
  call[c].mode \in {"waiting", "running"} => Kind(c) \in {"begin", "plain", "check"}

PInv == TypeOK /\ HoldsWhatItUses /\ AskedFromPool

(* HoldsWhatItUses for one call, in the connections of cn and the state q  *)
(* of the call.                                                            *)
Uses(c, cn, q) ==
  /\ \A j, k \in Conns : cn[j] = Own(c, "tx") /\ cn[k] = Own(c, "tx") => j = k
  /\ \A j, k \in Conns : cn[j] = Own(c, "plain") /\ cn[k] = Own(c, "plain") => j = k
  /\ (\E k \in Conns : cn[k] = Own(c, "tx")) <=>
       \/ q # Idle /\ Opened(q.h, q.step)
       \/ q.mode = "running" /\ KindAt(q.h, q.step) = "begin"
  /\ (\E k \in Conns : cn[k] = Own(c, "plain")) <=>
       q.mode = "running" /\ KindAt(q.h, q.step) # "begin"

LEMMA HoldsIsUses == HoldsWhatItUses <=> \A c \in Calls : Uses(c, conn, call[c])
BY DEF HoldsWhatItUses, Uses, InTransaction, Kind

LEMMA HoldsIsUsesNext == HoldsWhatItUses' <=> \A c \in Calls : Uses(c, conn', call'[c])
BY DEF HoldsWhatItUses, Uses, InTransaction, Kind

(* The state of a call that is not idle.                                   *)
Busy == UNION {[h : {h}, step : 1 .. Len(Program[h]), mode : {"ready", "waiting", "running"}] :
               h \in Handlers}

(* What a step of c may do to the connections.                             *)
ConnStep(c) ==
  /\ conn' = [k \in Conns |-> conn'[k]]
  /\ \A k \in Conns :
       \/ conn'[k] = conn[k]
       \/ /\ conn[k] \in {Free, Own(c, "tx"), Own(c, "plain")}
          /\ conn'[k] \in {Free, Lost, Own(c, "tx"), Own(c, "plain")}

(* A step of call c that takes it to q and its connections to conn'.       *)
LEMMA CallStep ==
  ASSUME PInv, NEW c \in Calls, NEW q, q \in {Idle} \union Busy,
         call' = [call EXCEPT ![c] = q], onePool' = onePool, ConnStep(c), Uses(c, conn', q),
         q.mode \in {"waiting", "running"} => KindAt(q.h, q.step) \in {"begin", "plain", "check"}
  PROVE  PInv'
<1>0. /\ call \in [Calls -> {Idle} \union Busy] /\ onePool \in BOOLEAN
      /\ conn \in [Conns -> {Free, Lost} \union (Calls \X {"tx", "plain"})]
  BY DEF PInv, TypeOK, Busy
<1>1. TypeOK'
  <2>1. call' \in [Calls -> {Idle} \union Busy]
    BY <1>0
  <2>2. \A k \in Conns :
          conn'[k] \in {Free, Lost} \union (Calls \X {"tx", "plain"})
    <3>1. Own(c, "tx") \in Calls \X {"tx", "plain"} /\ Own(c, "plain") \in Calls \X {"tx", "plain"}
      BY DEF Own
    <3> QED
      BY <1>0, <3>1 DEF ConnStep
  <2>3. conn' \in [Conns -> {Free, Lost} \union (Calls \X {"tx", "plain"})]
    BY <2>2 DEF ConnStep
  <2> QED
    BY <1>0, <2>1, <2>3 DEF TypeOK, Busy
<1>2. ASSUME NEW d \in Calls, d # c
      PROVE  Uses(d, conn', call'[d])
  <2>1. call'[d] = call[d]
    BY <1>0, <1>2
  <2>2. ASSUME NEW k \in Conns, NEW use \in {"tx", "plain"}
        PROVE  conn'[k] = Own(d, use) <=> conn[k] = Own(d, use)
    <3>1. Own(d, use) \notin {Free, Own(c, "tx"), Own(c, "plain"), Lost}
      BY <1>2, MarkersAssumption DEF Own
    <3> QED
      BY <3>1 DEF ConnStep
  <2>3. Uses(d, conn, call[d])
    BY HoldsIsUses DEF PInv
  <2> QED
    BY <2>1, <2>2, <2>3 DEF Uses
<1>3. call'[c] = q
  BY <1>0
<1>4. HoldsWhatItUses'
  BY <1>2, <1>3, HoldsIsUsesNext
<1>5. AskedFromPool'
  <2>1. ASSUME NEW d \in Calls, call'[d].mode \in {"waiting", "running"}
        PROVE  KindAt(call'[d].h, call'[d].step) \in {"begin", "plain", "check"}
    <3>1. CASE d = c
      BY <1>3, <2>1, <3>1
    <3>2. CASE d # c
      <4>1. call'[d] = call[d]
        BY <1>0, <3>2
      <4> QED
        BY <2>1, <4>1 DEF PInv, AskedFromPool, Kind
    <3> QED
      BY <3>1, <3>2
  <2> QED
    BY <2>1 DEF AskedFromPool, Kind
<1> QED
  BY <1>1, <1>4, <1>5 DEF PInv

(* What PInv says of a busy call.                                          *)
LEMMA BusyCall ==
  ASSUME PInv, NEW c \in Calls, call[c] # Idle
  PROVE  /\ call[c] \in Busy
         /\ call[c].h \in Handlers /\ call[c].h \in AllHandlers
         /\ call[c].step \in 1 .. Len(Program[call[c].h])
         /\ Len(Program[call[c].h]) \in Nat \ {0}
         /\ Kind(c) = KindAt(call[c].h, call[c].step)
         /\ call[c].mode \in {"waiting", "running"} => Kind(c) \in {"begin", "plain", "check"}
         /\ Uses(c, conn, call[c])
<1>1. call[c] \in Busy
  BY DEF PInv, TypeOK, Busy
<1>2. /\ call[c].h \in Handlers
      /\ call[c].step \in 1 .. Len(Program[call[c].h])
  BY <1>1 DEF Busy
<1>3. call[c].h \in AllHandlers
  BY <1>2, HandlersAssumption DEF AllHandlers
<1>4. Uses(c, conn, call[c])
  BY HoldsIsUses DEF PInv
<1> QED
  BY <1>1, <1>2, <1>3, <1>4, Programs DEF PInv, AskedFromPool, Kind

LEMMA IdleUsesNothing ==
  ASSUME NEW c, NEW cn,
         \A k \in Conns : cn[k] # Own(c, "tx") /\ cn[k] # Own(c, "plain")
  PROVE  Uses(c, cn, Idle)
BY DEF Uses, Idle

-----------------------------------------------------------------------------
(* A call that ends early leaves nothing behind, unless it is at the check *)
(* of match.                                                               *)
LEMMA EndStep ==
  ASSUME PInv, NEW c \in Calls, call[c] # Idle, conn' = Released(c),
         call' = [call EXCEPT ![c] = Idle], onePool' = onePool
  PROVE  PInv'
<1>2. ConnStep(c)
  BY DEF ConnStep, Released
<1>3. \A k \in Conns : conn'[k] # Own(c, "tx") /\ conn'[k] # Own(c, "plain")
  <2>1. \A use \in {"tx", "plain"} : Own(c, use) \notin {Free, Lost}
    BY MarkersAssumption DEF Own
  <2> QED
    BY <2>1 DEF Released
<1>4. Uses(c, conn', Idle)
  BY <1>3, IdleUsesNothing
<1>5. Idle.mode = "idle"
  BY DEF Idle
<1> QED
  BY <1>2, <1>4, <1>5, CallStep

LEMMA SucceedStep ==
  ASSUME PInv, NEW c \in Calls, Succeed(c)
  PROVE  PInv'
<1> DEFINE q == call[c]
           h == q.h
           i == q.step
<1>1. /\ Executes(c) /\ conn' = Kept(c) /\ onePool' = onePool
      /\ call' = [call EXCEPT ![c] = NextStep(q)]
  BY DEF Succeed, PInv, TypeOK
<1>2. q # Idle
  BY <1>1 DEF Executes, Idle
<1>3. /\ q \in Busy /\ h \in Handlers /\ h \in AllHandlers
      /\ i \in 1 .. Len(Program[h]) /\ Len(Program[h]) \in Nat \ {0}
      /\ Uses(c, conn, q) /\ Kind(c) = KindAt(h, i)
  BY <1>2, BusyCall
<1>4. \A k \in Conns : conn'[k] = IF \/ conn[k] = Own(c, "plain")
                                     \/ conn[k] = Own(c, "tx") /\ KindAt(h, i) = "commit"
                                  THEN Free ELSE conn[k]
  BY <1>1, <1>3 DEF Kept
<1>5. \A use \in {"tx", "plain"} : Free # Own(c, use)
  BY MarkersAssumption DEF Own
<1>a. Own(c, "tx") # Own(c, "plain")
  BY DEF Own
<1>b. ConnStep(c)
  BY <1>1, <1>4 DEF ConnStep, Kept
<1>6. CASE i = Len(Program[h])
  <2>1. NextStep(q) = Idle
    BY <1>6 DEF NextStep
  <2>2. Opened(h, i) => KindAt(h, i) = "commit"
    BY <1>3, <1>6, Programs
  <2>3. KindAt(h, i) # "begin"
    BY <1>3, <1>6, Programs
  <2>4. \A k \in Conns : conn'[k] # Own(c, "tx") /\ conn'[k] # Own(c, "plain")
    BY <1>2, <1>3, <1>4, <1>5, <2>2, <2>3 DEF Uses
  <2>5. Uses(c, conn', Idle)
    BY <2>4, IdleUsesNothing
  <2>6. Idle.mode = "idle"
    BY DEF Idle
  <2> QED
    BY <1>1, <1>b, <2>1, <2>5, <2>6, CallStep
<1>7. CASE i # Len(Program[h])
  <2> DEFINE p == [h |-> h, step |-> i + 1, mode |-> "ready"]
  <2>1. NextStep(q) = p
    BY <1>7 DEF NextStep
  <2>2. p \in Busy /\ p.h = h /\ p.step = i + 1 /\ p.mode = "ready"
    <3>1. PICK g \in Handlers :
            q \in [h : {g}, step : 1 .. Len(Program[g]), mode : {"ready", "waiting", "running"}]
      BY <1>3 DEF Busy
    <3>2. h = g /\ i + 1 \in 1 .. Len(Program[g])
      BY <1>3, <1>7, <3>1
    <3>3. p = [h |-> g, step |-> i + 1, mode |-> "ready"]
      BY <3>2
    <3> HIDE DEF p
    <3> QED
      BY <3>2, <3>3 DEF Busy
  <2>3. KindAt(h, i) # "commit"
    BY <1>3, <1>7, Programs
  <2>4. Opened(h, i + 1) <=> Opened(h, i) \/ KindAt(h, i) = "begin"
    BY <1>3, OpenedNext
  <2>5. KindAt(h, i) = "begin" => q.mode = "running"
    BY <1>1, <1>3 DEF Executes, Pooled
  <2>6. \A k \in Conns : /\ conn'[k] = Own(c, "tx") <=> conn[k] = Own(c, "tx")
                         /\ conn'[k] # Own(c, "plain")
    BY <1>4, <1>5, <1>a, <2>3
  <2>7. p # Idle
    BY <2>2 DEF Idle
  <2> HIDE DEF p
  <2>8. Uses(c, conn', p)
    BY <1>2, <1>3, <2>2, <2>4, <2>5, <2>6, <2>7 DEF Uses
  <2> QED
    BY <1>1, <1>b, <2>1, <2>2, <2>8, CallStep
<1> QED
  BY <1>6, <1>7

(* Arrive, Ask and Grant: the call takes at most one connection.           *)
LEMMA ArriveStep ==
  ASSUME PInv, NEW c \in Calls, Arrive(c)
  PROVE  PInv'
<1>1. PICK h \in Handlers : call' = [call EXCEPT ![c] = [h |-> h, step |-> 1, mode |-> "ready"]]
  BY DEF Arrive
<1> DEFINE p == [h |-> h, step |-> 1, mode |-> "ready"]
<1>2. call[c] = Idle /\ conn' = conn /\ onePool' = onePool
  BY DEF Arrive
<1>3. Len(Program[h]) \in Nat \ {0}
  <2>1. h \in {"send", "dismiss", "reject", "match"}
    BY HandlersAssumption
  <2>2. /\ Len(Program["send"]) = 8 /\ Len(Program["dismiss"]) = 4
        /\ Len(Program["reject"]) = 6 /\ Len(Program["match"]) = 11
    BY SendProgram, DismissProgram, RejectProgram, MatchProgram
  <2>3. h = "send" => Len(Program[h]) = 8
    BY <2>2
  <2>4. h = "dismiss" => Len(Program[h]) = 4
    BY <2>2
  <2>5. h = "reject" => Len(Program[h]) = 6
    BY <2>2
  <2>6. h = "match" => Len(Program[h]) = 11
    BY <2>2
  <2>7. Len(Program[h]) \in {8, 4, 6, 11}
    BY <2>1, <2>3, <2>4, <2>5, <2>6, Zenon
  <2>8. PICK n \in {8, 4, 6, 11} : n = Len(Program[h])
    BY <2>7
  <2> HIDE DEF p
  <2> QED
    BY <2>8
<1>4. p \in Busy /\ p # Idle /\ p.h = h /\ p.step = 1 /\ p.mode = "ready"
  BY <1>3 DEF Busy, Idle
<1>5. ~ Opened(h, 1)
  BY OpenedNext
<1>6. Uses(c, conn, Idle)
  BY <1>2, HoldsIsUses DEF PInv
<1>7. ConnStep(c)
  BY <1>2 DEF PInv, TypeOK, ConnStep
<1>8. call' = [call EXCEPT ![c] = p]
  BY <1>1
<1> HIDE DEF p
<1>9. Uses(c, conn', p)
  BY <1>2, <1>4, <1>5, <1>6 DEF Uses, Idle
<1> QED
  BY <1>2, <1>4, <1>7, <1>8, <1>9, CallStep

LEMMA AskStep ==
  ASSUME PInv, NEW c \in Calls, Ask(c)
  PROVE  PInv'
<1> DEFINE p == [call[c] EXCEPT !.mode = "waiting"]
<1>1. /\ call[c].mode = "ready" /\ Pooled(c)
      /\ call' = [call EXCEPT ![c] = p] /\ conn' = conn /\ onePool' = onePool
  BY DEF Ask
<1>2. call[c] # Idle
  BY <1>1 DEF Idle
<1>3. p \in Busy /\ p # Idle /\ p.h = call[c].h /\ p.step = call[c].step /\ p.mode = "waiting"
  BY <1>2, BusyCall DEF Busy, Idle
<1>4. KindAt(p.h, p.step) \in {"begin", "plain", "check"}
  BY <1>1, <1>3 DEF Pooled, Kind
<1>5. ConnStep(c)
  BY <1>1 DEF PInv, TypeOK, ConnStep
<1> HIDE DEF p
<1>6. Uses(c, conn', p)
  BY <1>1, <1>2, <1>3, BusyCall DEF Uses
<1> QED
  BY <1>1, <1>3, <1>4, <1>5, <1>6, CallStep

LEMMA GrantStep ==
  ASSUME PInv, NEW c \in Calls, Grant(c)
  PROVE  PInv'
<1> DEFINE p == [call[c] EXCEPT !.mode = "running"]
           use == IF Kind(c) = "begin" THEN "tx" ELSE "plain"
<1>1. PICK k \in Conns :
        /\ call[c].mode = "waiting" /\ conn[k] = Free
        /\ conn' = [conn EXCEPT ![k] = Own(c, use)]
        /\ call' = [call EXCEPT ![c] = p] /\ onePool' = onePool
  BY DEF Grant
<1>2. call[c] # Idle
  BY <1>1 DEF Idle
<1>3. p \in Busy /\ p # Idle /\ p.h = call[c].h /\ p.step = call[c].step /\ p.mode = "running"
  BY <1>2, BusyCall DEF Busy, Idle
<1>4. KindAt(p.h, p.step) \in {"begin", "plain", "check"} /\ Kind(c) = KindAt(p.h, p.step)
  BY <1>1, <1>2, <1>3, BusyCall
<1>5. /\ conn' = [j \in Conns |-> conn'[j]]
      /\ \A j \in Conns : conn'[j] = IF j = k THEN Own(c, use) ELSE conn[j]
  BY <1>1 DEF PInv, TypeOK
<1>6. KindAt(p.h, p.step) = "begin" => ~ Opened(p.h, p.step)
  BY <1>2, <1>3, BusyCall, Programs
<1>7. Own(c, "tx") # Own(c, "plain") /\ \A u \in {"tx", "plain"} : Free # Own(c, u)
  BY MarkersAssumption DEF Own
<1>8. Uses(c, conn, call[c])
  BY <1>2, BusyCall
<1> HIDE DEF p
<1>9. Uses(c, conn', p)
  <2>1. CASE Kind(c) = "begin"
    <3>1. \A j \in Conns : conn[j] # Own(c, "tx") /\ conn[j] # Own(c, "plain")
      BY <1>1, <1>2, <1>3, <1>4, <1>6, <1>8, <2>1 DEF Uses
    <3> QED
      BY <1>3, <1>4, <1>5, <1>6, <1>7, <2>1, <3>1 DEF Uses
  <2>2. CASE Kind(c) # "begin"
    <3>1. \A j \in Conns : conn[j] # Own(c, "plain")
      BY <1>1, <1>8 DEF Uses
    <3>2. \A j \in Conns : conn'[j] = Own(c, "tx") <=> conn[j] = Own(c, "tx")
      BY <1>1, <1>5, <1>7, <2>2
    <3>3. \A j \in Conns : conn'[j] = Own(c, "plain") <=> j = k
      BY <1>5, <2>2, <3>1
    <3> QED
      BY <1>1, <1>2, <1>3, <1>4, <1>8, <2>2, <3>2, <3>3 DEF Uses
  <2> QED
    BY <2>1, <2>2
<1>10. ConnStep(c)
  BY <1>1, <1>5 DEF ConnStep
<1> QED
  BY <1>1, <1>3, <1>4, <1>9, <1>10, CallStep

-----------------------------------------------------------------------------
(* With every connection free and every call idle the invariant holds.     *)
LEMMA FreshInv ==
  ASSUME call = [c \in Calls |-> Idle], conn = [k \in Conns |-> Free], onePool \in BOOLEAN
  PROVE  PInv
<1>1. \A c \in Calls : Uses(c, conn, call[c])
  BY IdleUsesNothing, MarkersAssumption DEF Own
<1>2. HoldsWhatItUses
  BY <1>1, HoldsIsUses
<1>3. TypeOK
  BY DEF TypeOK
<1>4. AskedFromPool
  BY DEF AskedFromPool, Idle
<1> QED
  BY <1>2, <1>3, <1>4 DEF PInv

LEMMA PoolInit == Init => PInv
BY FreshInv DEF Init

(* Restart, for PInv of the next state.                                    *)
LEMMA RestartStep ==
  ASSUME Restart
  PROVE  PInv'
<1>1. /\ call' = [c \in Calls |-> Idle] /\ conn' = [k \in Conns |-> Free]
      /\ onePool' \in BOOLEAN
  BY DEF Restart
<1>2. \A c \in Calls : Uses(c, conn', call'[c])
  BY <1>1, IdleUsesNothing, MarkersAssumption DEF Own
<1>3. HoldsWhatItUses'
  BY <1>2, HoldsIsUsesNext
<1>4. TypeOK' /\ AskedFromPool'
  BY <1>1 DEF TypeOK, AskedFromPool, Idle
<1> QED
  BY <1>3, <1>4 DEF PInv

LEMMA PoolNext == PInv /\ [Next]_vars => PInv'
<1> SUFFICES ASSUME PInv, [Next]_vars PROVE PInv'
  OBVIOUS
<1>1. ASSUME NEW c \in Calls, Arrive(c) PROVE PInv'
  BY <1>1, ArriveStep
<1>2. ASSUME NEW c \in Calls, Ask(c) PROVE PInv'
  BY <1>2, AskStep
<1>3. ASSUME NEW c \in Calls, Grant(c) PROVE PInv'
  BY <1>3, GrantStep
<1>4. ASSUME NEW c \in Calls, Succeed(c) PROVE PInv'
  BY <1>4, SucceedStep
<1>5. ASSUME NEW c \in Calls, Stop(c) \/ Timeout(c) PROVE PInv'
  <2>1. call[c] # Idle
    BY <1>5 DEF Stop, Timeout, Executes, Idle
  <2>2. conn' = Released(c) /\ call' = [call EXCEPT ![c] = Idle] /\ onePool' = onePool
    BY <1>5 DEF Stop, Timeout
  <2> QED
    BY <2>1, <2>2, EndStep
<1>6. CASE Restart
  BY <1>6, RestartStep
<1>7. CASE UNCHANGED vars
  <2>1. call' = call /\ conn' = conn /\ onePool' = onePool
    BY <1>7 DEF vars
  <2>2. HoldsWhatItUses'
    BY <2>1, HoldsIsUses, HoldsIsUsesNext DEF PInv
  <2>3. TypeOK' /\ AskedFromPool'
    BY <2>1 DEF PInv, TypeOK, AskedFromPool, Kind
  <2> QED
    BY <2>2, <2>3 DEF PInv
<1> QED
  BY <1>1, <1>2, <1>3, <1>4, <1>5, <1>6, <1>7 DEF Next

(* For every size of the pool and every number of calls: a call holds the  *)
(* connections its current statement accounts for, and no other.           *)
THEOREM CallsHoldWhatTheyUse == Spec => []HoldsWhatItUses
<1>1. PInv => HoldsWhatItUses
  BY DEF PInv
<1> QED
  BY <1>1, PoolInit, PoolNext, PTL DEF Spec

(* A send that has begun its transaction never waits for the pool.         *)
THEOREM ChargedSendNeverWaits == Spec => []SendNeverWaitsHolding
<1>1. ASSUME PInv PROVE SendNeverWaitsHolding
  <2>1. ASSUME NEW c \in Calls, call[c].mode = "waiting", InTransaction(c)
        PROVE  call[c].h # "send"
    <3>1. /\ call[c].h \in AllHandlers /\ call[c].step \in 1 .. Len(Program[call[c].h])
          /\ KindAt(call[c].h, call[c].step) \in {"begin", "plain", "check"}
      BY <1>1, <2>1, BusyCall DEF InTransaction
    <3>2. Opened(call[c].h, call[c].step)
      BY <2>1 DEF InTransaction
    <3> QED
      BY <3>1, <3>2, Programs
  <2> QED
    BY <2>1 DEF SendNeverWaitsHolding
<1> QED
  BY <1>1, PoolInit, PoolNext, PTL DEF Spec

(* The connections, the queue and the calls keep their types.               *)
THEOREM PoolTypeCorrect == Spec => []TypeOK
<1>1. PInv => TypeOK
  BY DEF PInv
<1> QED
  BY <1>1, PoolInit, PoolNext, PTL DEF Spec
=============================================================================
