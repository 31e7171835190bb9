------------------------------- MODULE LikeCall -------------------------------
(***************************************************************************)
(* What a client may rely on when it calls an operation of the likes        *)
(* service: the operation takes effect at most once; its notification is    *)
(* stored at most once and only for an operation that has taken effect;     *)
(* the client is told one outcome, and "ok" only of an operation that has   *)
(* taken effect. It may be told "failed" of one that has taken effect, or   *)
(* takes effect afterwards. Notify implements this specification.           *)
(***************************************************************************)
CONSTANT Calls

VARIABLES done,    \* the calls whose operation has taken effect
          noticed, \* the calls whose notification is stored
          told     \* what each client has been told

callVars == <<done, noticed, told>>

CallInit ==
  /\ done = {}
  /\ noticed = {}
  /\ told = [c \in Calls |-> "nothing"]

TakeEffect(c) ==
  /\ c \notin done
  /\ done' = done \union {c}
  /\ UNCHANGED <<noticed, told>>

StoreNotice(c) ==
  /\ c \in done \ noticed
  /\ noticed' = noticed \union {c}
  /\ UNCHANGED <<done, told>>

Tell(c, outcome) ==
  /\ told[c] = "nothing"
  /\ outcome = "ok" => c \in done
  /\ told' = [told EXCEPT ![c] = outcome]
  /\ UNCHANGED <<done, noticed>>

(* The process dies: the clients that wait lose their connections at once.  *)
Lose == \E waiting \in SUBSET Calls :
  /\ told' = [c \in Calls |->
       IF c \in waiting /\ told[c] = "nothing" THEN "failed" ELSE told[c]]
  /\ UNCHANGED <<done, noticed>>

CallNext ==
  \/ \E c \in Calls : TakeEffect(c) \/ StoreNotice(c)
  \/ \E c \in Calls, outcome \in {"ok", "failed"} : Tell(c, outcome)
  \/ Lose

CallSpec == CallInit /\ [][CallNext]_callVars
=============================================================================
