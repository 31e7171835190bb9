--------------------------------- MODULE Rpc ---------------------------------
(***************************************************************************)
(* One request from a client to a service and back: the handler of the api  *)
(* module sends a message with rmqSend (rmq-utils.nest.ts), the service     *)
(* takes it from its durable queue (noAck), executes it statement by        *)
(* statement and answers; rmqSend gives up after its time limit, while the  *)
(* service goes on. Some handlers call their service directly (DirectOps).  *)
(*                                                                          *)
(* The components that extend this module give the operations. All of them  *)
(* run in one process, which may die.                                       *)
(***************************************************************************)
EXTENDS Naturals, FiniteSets

CONSTANTS Requests,   \* requests, each sent once
          Scenarios,  \* bound: what the requests may ask for, records with a field op
          Nothing,    \* an absent value
          CrashBound  \* bound: crashes of the process

ASSUME ScenariosAssumption == \A f \in Scenarios : DOMAIN f = Requests

VARIABLES req,    \* what each request asks for
          pc,     \* where its handler stands
          mem,    \* what the handler has read so far, at the end its result
          told,   \* the status the client has been given
          crashes

rpcVars == <<req, pc, mem, told, crashes>>

DirectOps == {"uploadMedia", "login", "refresh"}
OpenOps   == {"login", "refresh", "createUser", "register"}   \* without JwtAuthGuard

NoAnswer == 0
Success  == 200
Statuses == {200, 201, 202, 204, 400, 401, 404, 406, 500}

ASSUME CrashBoundAssumption == CrashBound \in Nat
ASSUME NothingIsNoStatus == Nothing \notin Statuses

Running(r) == pc[r] \notin {"new", "done", "lost"}

RpcInit ==
  /\ req \in Scenarios
  /\ pc = [r \in Requests |-> "new"]
  /\ mem = [r \in Requests |-> Nothing]
  /\ told = [r \in Requests |-> NoAnswer]
  /\ crashes = 0

RpcTypeOK ==
  /\ DOMAIN req = Requests
  /\ DOMAIN pc = Requests /\ DOMAIN mem = Requests
  /\ told \in [Requests -> Statuses \union {NoAnswer}]
  /\ crashes \in 0..CrashBound

(* What the controllers of the services and of the api make of an error:    *)
(* its status where it carries one.                                         *)
TekeroError(error) == IF error \in Statuses THEN error ELSE 500

(* The client has its answer; a later one has nobody to go to.              *)
Tell(r, status) ==
  told' = IF told[r] = NoAnswer THEN [told EXCEPT ![r] = status] ELSE told

(* The message is in the queue, the timer runs.                             *)
Send(r) ==
  /\ pc[r] = "new"
  /\ pc' = [pc EXCEPT ![r] = "queued"]
  /\ UNCHANGED <<req, mem, told, crashes>>

(* JwtAuthGuard: the token has no valid subject and email, or the auth      *)
(* service refuses it or does not answer; the handler is not called.        *)
authenticate(r) ==
  /\ pc[r] = "new"
  /\ req[r].op \notin OpenOps
  /\ pc' = [pc EXCEPT ![r] = "done"]
  /\ Tell(r, 401)
  /\ UNCHANGED <<req, mem, crashes>>

(* A service takes a message from its queue.                                *)
Taken(r, op) == pc[r] = "queued" /\ req[r].op = op

(* A handler has executed a statement and goes on to the next.              *)
GoOn(r, label, value) ==
  /\ pc' = [pc EXCEPT ![r] = label]
  /\ mem' = [mem EXCEPT ![r] = value]
  /\ UNCHANGED <<req, told, crashes>>

(* The handler of the service ends; the handler of the api gives its client *)
(* the status ok or that of the error.                                      *)
Finish(r, outcome, ok, result) ==
  /\ pc' = [pc EXCEPT ![r] = "done"]
  /\ mem' = [mem EXCEPT ![r] = result]
  /\ Tell(r, IF outcome = Success THEN ok ELSE TekeroError(outcome))
  /\ UNCHANGED <<req, crashes>>

(* The time limit of rmqSend: its error carries no status.                  *)
GiveUp(r) ==
  /\ Running(r)
  /\ req[r].op \notin DirectOps
  /\ told[r] = NoAnswer
  /\ Tell(r, TekeroError(Nothing))
  /\ UNCHANGED <<req, pc, mem, crashes>>

(* The message has expired in the queue, long after the client gave up.     *)
Expire(r) ==
  /\ pc[r] = "queued"
  /\ told[r] # NoAnswer
  /\ pc' = [pc EXCEPT ![r] = "lost"]
  /\ UNCHANGED <<req, mem, told, crashes>>

(* The process dies: handlers stop where they are, clients lose their       *)
(* connection; what is in a queue is taken after the restart.               *)
Crash ==
  /\ crashes < CrashBound
  /\ crashes' = crashes + 1
  /\ pc' = [r \in Requests |->
       IF Running(r) /\ (pc[r] # "queued" \/ req[r].op \in DirectOps) THEN "lost" ELSE pc[r]]
  /\ told' = [r \in Requests |->
       IF Running(r) /\ told[r] = NoAnswer THEN 500 ELSE told[r]]
  /\ UNCHANGED <<req, mem>>
=============================================================================
