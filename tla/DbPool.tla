-------------------------------- MODULE DbPool --------------------------------
(***************************************************************************)
(* The database connections of the likes service. Its Sequelize instance   *)
(* (db-utils.nest.ts sets no pool option: 5 connections, 60 seconds to get  *)
(* one) gives a connection to each transaction for as long as it is open,   *)
(* and one to each statement outside a transaction while it runs, also when *)
(* that statement is executed in the middle of a transaction.               *)
(*                                                                          *)
(* A handler is the list of its statements; what they do to the tables is   *)
(* module Likes. Any of them may fail or find that the call must stop.      *)
(***************************************************************************)
EXTENDS Naturals, Sequences

CONSTANTS Calls,      \* slots for handler calls that run at the same time
          Conns,      \* the connections of the pool, 5 in the code
          Handlers,   \* the handlers that are called
          Free, Lost  \* markers of a connection

VARIABLES call,     \* call[c]: the handler c runs, its statement, and how far that is
          conn,     \* conn[k]: Free, held by a call, or never given back
          onePool   \* statements outside a transaction use this pool too

vars == <<call, conn, onePool>>

(* "plain" runs outside a transaction, "check" is the plain read of match   *)
(* between the begin and the try block.                                     *)
Program == [
  send    |-> <<"plain", "plain", "plain", "plain", "begin", "tx", "tx", "commit">>,
  dismiss |-> <<"plain", "plain", "plain", "plain">>,
  reject  |-> <<"plain", "begin", "tx", "plain", "tx", "commit">>,
  match   |-> <<"begin", "check", "tx", "tx", "tx", "tx", "plain", "plain", "tx", "tx",
                "commit">>]

ASSUME HandlersAssumption == Handlers \subseteq {"send", "dismiss", "reject", "match"}
ASSUME MarkersAssumption ==
  /\ Lost # Free
  /\ \A c \in Calls, use \in {"tx", "plain"} : <<c, use>> \notin {Free, Lost}

Idle == [h |-> "none", step |-> 0, mode |-> "idle"]

KindAt(h, i) == Program[h][i]
Kind(c)      == KindAt(call[c].h, call[c].step)
Own(c, use)  == <<c, use>>

(* Between the begin of handler h and the end of its statement i there is   *)
(* an open transaction.                                                     *)
Opened(h, i)     == \E j \in 1 .. i - 1 : KindAt(h, j) = "begin"
InTransaction(c) == call[c] # Idle /\ Opened(call[c].h, call[c].step)

(* Several modules create a Sequelize for the same models; the one created  *)
(* last serves the statements without a transaction.                        *)
Init ==
  /\ call = [c \in Calls |-> Idle]
  /\ conn = [k \in Conns |-> Free]
  /\ onePool \in BOOLEAN

-----------------------------------------------------------------------------
(* Mutants of the operators below.                                         *)

\* The acquisition has no time limit.
TimeoutMutant(c) == FALSE /\ UNCHANGED vars

\* Every statement of a transaction gives its connection back.
KeptMutant(c) ==
  [k \in Conns |->
     IF conn[k] = Own(c, "plain") \/ (conn[k] = Own(c, "tx") /\ Kind(c) = "tx")
     THEN Free ELSE conn[k]]

\* The option transaction is forgotten in the statements of a transaction.
PooledMutant(c) == Kind(c) \in {"begin", "plain", "check", "tx"}

\* A call goes on behind its last statement.
NextStepMutant(q) ==
  IF q.step > Len(Program[q.h]) THEN Idle
  ELSE [h |-> q.h, step |-> q.step + 1, mode |-> "ready"]

-----------------------------------------------------------------------------
(* The current statement of c takes a connection from the pool.             *)
Pooled(c) == Kind(c) = "begin" \/ (onePool /\ Kind(c) \in {"plain", "check"})

(* The connections after a statement of c has succeeded.                    *)
Kept(c) ==
  [k \in Conns |->
     IF conn[k] = Own(c, "plain") \/ (conn[k] = Own(c, "tx") /\ Kind(c) = "commit")
     THEN Free ELSE conn[k]]

(* The connections after c has ended early: the catch block rolls back, but *)
(* what is thrown at the check leaves match with its transaction open.      *)
Released(c) ==
  [k \in Conns |->
     IF conn[k] = Own(c, "plain") THEN Free
     ELSE IF conn[k] # Own(c, "tx") THEN conn[k]
     ELSE IF Kind(c) = "check" THEN Lost ELSE Free]

NextStep(q) ==
  IF q.step = Len(Program[q.h]) THEN Idle
  ELSE [h |-> q.h, step |-> q.step + 1, mode |-> "ready"]

Arrive(c) ==
  /\ call[c] = Idle
  /\ \E h \in Handlers : call' = [call EXCEPT ![c] = [h |-> h, step |-> 1, mode |-> "ready"]]
  /\ UNCHANGED <<conn, onePool>>

Ask(c) ==
  /\ call[c].mode = "ready" /\ Pooled(c)
  /\ call' = [call EXCEPT ![c].mode = "waiting"]
  /\ UNCHANGED <<conn, onePool>>

(* Which of the waiting calls is served is left open.                       *)
Grant(c) == \E k \in Conns :
  /\ call[c].mode = "waiting" /\ conn[k] = Free
  /\ conn' = [conn EXCEPT ![k] = Own(c, IF Kind(c) = "begin" THEN "tx" ELSE "plain")]
  /\ call' = [call EXCEPT ![c].mode = "running"]
  /\ UNCHANGED onePool

(* The statement has its connection.                                        *)
Executes(c) ==
  \/ call[c].mode = "running"
  \/ call[c].mode = "ready" /\ ~ Pooled(c)

Succeed(c) ==
  /\ Executes(c)
  /\ conn' = Kept(c)
  /\ call' = [call EXCEPT ![c] = NextStep(@)]
  /\ UNCHANGED onePool

(* The statement fails, or its answer ends the call.                        *)
Stop(c) ==
  /\ Executes(c)
  /\ conn' = Released(c)
  /\ call' = [call EXCEPT ![c] = Idle]
  /\ UNCHANGED onePool

(* ConnectionAcquireTimeoutError: 60 seconds in the queue of the pool.      *)
Timeout(c) ==
  /\ call[c].mode = "waiting"
  /\ conn' = Released(c)
  /\ call' = [call EXCEPT ![c] = Idle]
  /\ UNCHANGED onePool

(* Only a restart of the process gives a lost connection back.              *)
Restart ==
  /\ call' = [c \in Calls |-> Idle]
  /\ conn' = [k \in Conns |-> Free]
  /\ onePool' \in BOOLEAN

Next ==
  \/ \E c \in Calls : Arrive(c) \/ Ask(c) \/ Grant(c) \/ Succeed(c) \/ Stop(c) \/ Timeout(c)
  \/ Restart

Spec == Init /\ [][Next]_vars

(* Every statement comes back, and the timer of a waiting call runs out.    *)
Fairness == \A c \in Calls :
  WF_vars(Ask(c)) /\ WF_vars(Succeed(c) \/ Stop(c)) /\ WF_vars(Timeout(c))

FairSpec == Spec /\ Fairness

-----------------------------------------------------------------------------
TypeOK ==
  /\ call \in [Calls -> {Idle} \union
       UNION {[h : {h}, step : 1 .. Len(Program[h]), mode : {"ready", "waiting", "running"}] :
              h \in Handlers}]
  /\ conn \in [Conns -> {Free, Lost} \union (Calls \X {"tx", "plain"})]
  /\ onePool \in BOOLEAN

(* A call has a connection exactly for what it is doing: one while its      *)
(* transaction is open, one more while it runs a statement outside of it.   *)
HoldsWhatItUses == \A c \in Calls :
  LET tx    == {k \in Conns : conn[k] = Own(c, "tx")}
      plain == {k \in Conns : conn[k] = Own(c, "plain")} IN
  /\ \A j, k \in tx : j = k
  /\ \A j, k \in plain : j = k
  /\ tx # {} <=> InTransaction(c) \/ (call[c].mode = "running" /\ Kind(c) = "begin")
  /\ plain # {} <=> call[c].mode = "running" /\ Kind(c) # "begin"

(* Once a send has opened its transaction it needs nothing more from the    *)
(* pool: exhaustion cannot turn a like that is being paid for into an error. *)
SendNeverWaitsHolding ==
  \A c \in Calls : call[c].mode = "waiting" /\ InTransaction(c) => call[c].h # "send"

(* Every call ends, also when each connection is held by a call that waits  *)
(* for another one, and when all of them are lost.                          *)
EveryCallEnds == \A c \in Calls : call[c] # Idle ~> call[c] = Idle
=============================================================================
