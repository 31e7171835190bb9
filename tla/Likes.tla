-------------------------------- MODULE Likes --------------------------------
(***************************************************************************)
(* The likes service (src/src/modules/likes-module/likes.service.ts) over   *)
(* PostgreSQL at READ COMMITTED: sendLike, dismissLike, rejectLike, match   *)
(* and the cron job that refills the balances.                              *)
(*                                                                          *)
(* A request is one call of a handler. Every action is one database         *)
(* statement, the code between two awaits: requests interleave exactly      *)
(* there. A read outside a transaction sees the committed tables. The       *)
(* writes of a transaction stay private until its commit, which is the      *)
(* action that installs them; until then the rows they touch are locked,    *)
(* and a statement that needs a row locked by another request waits.        *)
(* A failing statement ends in a rollback, one step with the failure.       *)
(***************************************************************************)
EXTENDS Integers, FiniteSets

CONSTANTS Users,        \* user ids
          Ads,          \* advertisement ids; no operation deletes or reassigns an ad
          Owner,        \* Owner[a] is advertisement.user_id
          WithStats,    \* the users that have a user-stats row
          StatsId,      \* StatsId[u] is the primary key of u's user-stats row
          MaxLikes,     \* the refilled balance, 10 in the code
          BatchSize,    \* rows the cron job reads at once, 1000 in the code
          Requests,     \* slots for calls that run at the same time
          None,         \* a local variable that is not set
          Ops,          \* bound: what the environment does
          LikeBound,    \* bound: like rows ever created
          ChatBound     \* bound: chat rows ever created

AllOps == {"send", "dismiss", "reject", "match", "cron", "expire", "crash"}

ASSUME OwnerAssumption == Owner \in [Ads -> Users]
ASSUME StatsAssumption ==
  /\ WithStats \subseteq Users /\ IsFiniteSet(WithStats)
  /\ StatsId \in [WithStats -> Nat \ {0}]
  /\ \A u, v \in WithStats : StatsId[u] = StatsId[v] => u = v
ASSUME NoneAssumption == None \notin Users \union Ads
ASSUME LimitAssumption == MaxLikes \in Nat \ {0} /\ BatchSize \in Nat \ {0}
ASSUME BoundAssumption == Ops \subseteq AllOps /\ LikeBound \in Nat /\ ChatBound \in Nat

VARIABLES likes,      \* committed rows of the table like
          cooling,    \* ids of rejected rows whose updatedAt is within 12 hours
          chats,      \* committed rows of chat, each with its two chat-user rows
          stats,      \* committed available_likes_to_send of each user-stats row
          nextLike,   \* the sequence of like ids
          nextChat,   \* the sequence of chat ids
          req,        \* local state of each request
          cron        \* local state of the refill job

tables == <<likes, cooling, chats, stats, nextLike, nextChat>>
vars == <<likes, cooling, chats, stats, nextLike, nextChat, req, cron>>

LikeType == [id : Nat, user : Users, ad : Ads, rejected : BOOLEAN, match : BOOLEAN]
ChatType == [id : Nat, ad : Ads, like : Nat, author : Users, liker : Users]

SendSteps    == {"cooldown", "balance", "existing", "charge", "insert", "commitSend"}
DismissSteps == {"readStats", "destroy", "refund"}
RejectSteps  == {"mark", "readAuthor", "credit", "commitReject"}
MatchSteps   == {"markMatch", "openChat", "touchAuthor", "touchLiker", "commitMatch"}
Steps == {"idle"} \union SendSteps \union DismissSteps \union RejectSteps \union MatchSteps

(* The locals of a handler: the caller, the ad and like it was called with,*)
(* the like's sender, and the balance it read (0 without a stats row).     *)
RequestType == [pc : Steps, user : Users \union {None}, ad : Ads \union {None},
                like : Nat, peer : Users \union {None}, seen : 0 .. MaxLikes]

(* How the last run of the job has ended; its locals; the rows it refilled. *)
CronType == [on : BOOLEAN, end : {"none", "complete", "failed"},
             last : Nat, batch : SUBSET WithStats, done : SUBSET WithStats]

Idle == [pc |-> "idle", user |-> None, ad |-> None, like |-> 0, peer |-> None, seen |-> 0]

LikesOf(u, a) == {l \in likes : l.user = u /\ l.ad = a}
LikeAt(i)     == {l \in likes : l.id = i}
BalanceOf(u)  == IF u \in WithStats THEN stats[u] ELSE 0

Init ==
  /\ likes = {} /\ cooling = {} /\ chats = {}
  /\ stats = [u \in WithStats |-> MaxLikes]
  /\ nextLike = 1 /\ nextChat = 1
  /\ req = [r \in Requests |-> Idle]
  /\ cron = [on |-> FALSE, end |-> "none", last |-> 0, batch |-> {}, done |-> {}]

-----------------------------------------------------------------------------
(* Row locks. Postgres locks a row when a transaction updates it, and the  *)
(* key of a unique index when it inserts one, until commit or rollback.    *)

StatsRow(u) == <<"stats", u>>
LikeRow(i)  == <<"like", i>>
Key(u, a)   == <<"key", <<u, a>>>>

\* Mutant: rejectLike reads the author's balance with a lock.
CallerStatsHeldMutant == {"insert", "commitSend", "touchLiker", "commitMatch", "credit"}
CallerStatsHeld == {"insert", "commitSend", "touchLiker", "commitMatch"}
PeerStatsHeld   == {"commitReject", "commitMatch"}
LikeHeld        == {"readAuthor", "credit", "commitReject",
                    "openChat", "touchAuthor", "touchLiker", "commitMatch"}

(* The rows request r has locked by the statements it has executed.        *)
Holds(r) ==
  LET q == req[r] IN
    {StatsRow(u) : u \in IF q.pc \in CallerStatsHeld THEN {q.user} ELSE {}}
    \union {StatsRow(u) : u \in IF q.pc \in PeerStatsHeld THEN {q.peer} ELSE {}}
    \union {LikeRow(i) : i \in IF q.pc \in LikeHeld THEN {q.like} ELSE {}}
    \union {Key(q.user, a) : a \in IF q.pc = "commitSend" THEN {q.ad} ELSE {}}

(* The rows the next statement of request r has to lock.                   *)
Wants(r) ==
  LET q == req[r] IN
    CASE q.pc \in {"charge", "refund", "touchAuthor"} -> {StatsRow(q.user)}
      [] q.pc \in {"credit", "touchLiker"}            -> {StatsRow(q.peer)}
      [] q.pc \in {"mark", "markMatch"}               -> {LikeRow(q.like)}
      [] q.pc = "insert"                              -> {Key(q.user, q.ad)}
      [] q.pc = "destroy" -> {LikeRow(l.id) : l \in LikesOf(q.user, q.ad)}
      [] OTHER -> {}

WaitsFor(r, s) == r # s /\ Wants(r) \intersect Holds(s) # {}
Unblocked(r)   == \A s \in Requests : ~ WaitsFor(r, s)

(* r is on a cycle of waiting transactions.                                *)
Deadlocked(r) ==
  \E S \in SUBSET Requests :
    /\ r \in S
    /\ \A s \in S : (\E t \in S : WaitsFor(s, t)) /\ (\E t \in S : WaitsFor(t, s))

-----------------------------------------------------------------------------
At(r, step)     == req[r].pc = step
Goto(r, step)   == req' = [req EXCEPT ![r].pc = step]
Read(r, step, b) == req' = [req EXCEPT ![r].pc = step, ![r].seen = b]
Finish(r)       == req' = [req EXCEPT ![r] = Idle]

(* Ends the request if cond holds, by an error reply or a rollback;        *)
(* otherwise it goes on.                                                   *)
FailIf(r, cond, step) == IF cond THEN Finish(r) ELSE Goto(r, step)

(* A statement whose outcome only the request itself sees.                 *)
Advance(r, step, cond, next) ==
  /\ At(r, step) /\ Unblocked(r)
  /\ FailIf(r, cond, next)
  /\ UNCHANGED <<tables, cron>>

Call(r, step, u, a, i, peer) ==
  /\ At(r, "idle")
  /\ req' = [req EXCEPT ![r] = [pc |-> step, user |-> u, ad |-> a, like |-> i,
                                peer |-> peer, seen |-> 0]]
  /\ UNCHANGED <<tables, cron>>

Running(steps) == {r \in Requests : req[r].pc \in steps}

-----------------------------------------------------------------------------
(* Mutants: faulty variants of the actions below, used only to see that    *)
(* the properties notice them.                                             *)

\* The table has no unique index.
SendInsertMutant(r) ==
  Advance(r, "insert", FALSE, "commitSend")

\* The update of the balance is not part of the transaction.
SendChargeMutant(r) ==
  /\ At(r, "charge") /\ Unblocked(r) /\ req[r].user \in WithStats
  /\ stats' = [stats EXCEPT ![req[r].user] = req[r].seen - 1]
  /\ Goto(r, "insert")
  /\ UNCHANGED <<likes, cooling, chats, nextLike, nextChat, cron>>

\* The credit of a rejected like is not capped.
CreditedMutant(author, seen, old) ==
  IF author \notin WithStats THEN old
  ELSE IF seen # 0 THEN seen + 1
  ELSE seen

\* A match that finds the sender's row locked starts over.
MatchTouchLikerMutant(r) ==
  /\ At(r, "touchLiker")
  /\ Goto(r, IF Unblocked(r) THEN "commitMatch" ELSE "openChat")
  /\ UNCHANGED <<tables, cron>>

\* The job goes on one id too far.
CronRefillSkipMutant == \E u \in cron.batch :
  /\ \A v \in cron.batch : StatsId[u] <= StatsId[v]
  /\ \A s \in Requests : StatsRow(u) \notin Holds(s)
  /\ stats' = [stats EXCEPT ![u] = MaxLikes]
  /\ cron' = [cron EXCEPT !.batch = @ \ {u}, !.last = StatsId[u] + 1, !.done = @ \union {u}]
  /\ UNCHANGED <<likes, cooling, chats, nextLike, nextChat, req>>

\* lastProcessedId is not moved on.
CronRefillStuckMutant == \E u \in cron.batch :
  /\ \A v \in cron.batch : StatsId[u] <= StatsId[v]
  /\ \A s \in Requests : StatsRow(u) \notin Holds(s)
  /\ stats' = [stats EXCEPT ![u] = MaxLikes]
  /\ cron' = [cron EXCEPT !.batch = @ \ {u}, !.done = @ \union {u}]
  /\ UNCHANGED <<likes, cooling, chats, nextLike, nextChat, req>>

-----------------------------------------------------------------------------
(* sendLike(user_id, advertisement_id)                                     *)

Send(r) == \E u \in Users, a \in Ads :
  /\ "send" \in Ops
  /\ nextLike + Cardinality(Running(SendSteps)) <= LikeBound
  /\ Owner[a] # u
  /\ Call(r, "cooldown", u, a, 0, None)

(* The query asks for any rejected like of the last 12 hours, whoever sent *)
(* it and whatever the ad.                                                 *)
SendCheckCooldown(r) ==
  Advance(r, "cooldown", cooling # {}, "balance")

SendReadBalance(r) ==
  /\ At(r, "balance")
  /\ LET u == req[r].user IN
       IF u \in WithStats /\ stats[u] = 0 THEN Finish(r)
       ELSE Read(r, "existing", BalanceOf(u))
  /\ UNCHANGED <<tables, cron>>

SendCheckExisting(r) ==
  Advance(r, "existing", LikesOf(req[r].user, req[r].ad) # {}, "charge")

(* Without a stats row, userStats! is null and the call ends in a rollback.*)
SendCharge(r) ==
  Advance(r, "charge", req[r].user \notin WithStats, "insert")

(* The unique index on (user_id, advertisement_id) refuses a second row.   *)
SendInsert(r) ==
  Advance(r, "insert", LikesOf(req[r].user, req[r].ad) # {}, "commitSend")

SendCommit(r) ==
  /\ At(r, "commitSend")
  /\ likes' = likes \union {[id |-> nextLike, user |-> req[r].user, ad |-> req[r].ad,
                             rejected |-> FALSE, match |-> FALSE]}
  /\ nextLike' = nextLike + 1
  /\ stats' = [stats EXCEPT ![req[r].user] = req[r].seen - 1]
  /\ Finish(r)
  /\ UNCHANGED <<cooling, chats, nextChat, cron>>

-----------------------------------------------------------------------------
(* dismissLike(user_id, advertisement_id): no transaction                  *)

Dismiss(r) == \E l \in likes :
  /\ "dismiss" \in Ops
  /\ Call(r, "readStats", l.user, l.ad, 0, None)

DismissReadStats(r) ==
  /\ At(r, "readStats")
  /\ Read(r, "destroy", BalanceOf(req[r].user))
  /\ UNCHANGED <<tables, cron>>

DismissDestroy(r) ==
  /\ At(r, "destroy") /\ Unblocked(r)
  /\ LET gone == LikesOf(req[r].user, req[r].ad) IN
       /\ likes' = likes \ gone
       /\ cooling' = cooling \ {l.id : l \in gone}
  /\ FailIf(r, req[r].user \notin WithStats \/ req[r].seen >= MaxLikes, "refund")
  /\ UNCHANGED <<chats, stats, nextLike, nextChat, cron>>

DismissRefund(r) ==
  /\ At(r, "refund") /\ Unblocked(r)
  /\ stats' = [stats EXCEPT ![req[r].user] = req[r].seen + 1]
  /\ Finish(r)
  /\ UNCHANGED <<likes, cooling, chats, nextLike, nextChat, cron>>

-----------------------------------------------------------------------------
(* rejectLike(userId, likeId)                                              *)

Reject(r) == \E l \in likes :
  /\ "reject" \in Ops
  /\ Call(r, "mark", Owner[l.ad], l.ad, l.id, l.user)

RejectMark(r) ==
  Advance(r, "mark", LikeAt(req[r].like) = {}, "readAuthor")

(* The stats read are those of the ad's author, who is the caller.         *)
RejectReadAuthor(r) ==
  /\ At(r, "readAuthor")
  /\ Read(r, "credit", BalanceOf(req[r].user))
  /\ UNCHANGED <<tables, cron>>

RejectCredit(r) ==
  Advance(r, "credit", req[r].peer \notin WithStats, "commitReject")

(* What is written to the sender's row: the author's balance, plus one if  *)
(* it is between 1 and 9. An author without a row leaves it unchanged.     *)
Credited(author, seen, old) ==
  IF author \notin WithStats THEN old
  ELSE IF seen # 0 /\ seen < MaxLikes THEN seen + 1
  ELSE seen

\* The rejection saves the like with the flag match that it has read.
RejectCommitMutant(r) ==
  /\ At(r, "commitReject")
  /\ likes' = (likes \ LikeAt(req[r].like))
              \union {[l EXCEPT !.rejected = TRUE, !.match = FALSE] : l \in LikeAt(req[r].like)}
  /\ cooling' = cooling \union {req[r].like}
  /\ stats' = [stats EXCEPT ![req[r].peer] = Credited(req[r].user, req[r].seen, @)]
  /\ Finish(r)
  /\ UNCHANGED <<chats, nextLike, nextChat, cron>>

RejectCommit(r) ==
  /\ At(r, "commitReject")
  /\ likes' = (likes \ LikeAt(req[r].like))
              \union {[l EXCEPT !.rejected = TRUE] : l \in LikeAt(req[r].like)}
  /\ cooling' = cooling \union {req[r].like}
  /\ stats' = [stats EXCEPT ![req[r].peer] = Credited(req[r].user, req[r].seen, @)]
  /\ Finish(r)
  /\ UNCHANGED <<chats, nextLike, nextChat, cron>>

-----------------------------------------------------------------------------
(* match(userId, likeId): the flag is read before the transaction's first  *)
(* write and outside of it, the caller is not compared with the ad's owner *)

Match(r) == \E u \in Users, i \in 1 .. nextLike - 1 :
  /\ "match" \in Ops
  /\ nextChat + Cardinality(Running(MatchSteps)) <= ChatBound
  /\ ~ \E l \in LikeAt(i) : l.match
  /\ Call(r, "markMatch", u, None, i, None)

MatchMark(r) ==
  /\ At(r, "markMatch") /\ Unblocked(r)
  /\ IF LikeAt(req[r].like) = {} THEN Finish(r)
     ELSE \E l \in LikeAt(req[r].like) :
            req' = [req EXCEPT ![r].pc = "openChat", ![r].ad = l.ad, ![r].peer = l.user]
  /\ UNCHANGED <<tables, cron>>

\* The match saves the like as it was when it was read.
MatchCommitMutant(r) ==
  /\ At(r, "commitMatch")
  /\ LET old == LikeAt(req[r].like) IN
       /\ likes' = (likes \ old) \union {[l EXCEPT !.match = TRUE, !.rejected = FALSE] : l \in old}
       /\ cooling' = cooling \union {l.id : l \in {k \in old : k.rejected}}
  /\ chats' = chats \union {[id |-> nextChat, ad |-> req[r].ad, like |-> req[r].like,
                             author |-> req[r].user, liker |-> req[r].peer]}
  /\ nextChat' = nextChat + 1
  /\ Finish(r)
  /\ UNCHANGED <<stats, nextLike, cron>>

(* The chat, its two members, and the reads of both stats rows.            *)
MatchOpenChat(r) ==
  Advance(r, "openChat", ~ {req[r].user, req[r].peer} \subseteq WithStats, "touchAuthor")

(* active_chats is no column of user-stats: the two updates lock the rows  *)
(* and change no balance.                                                  *)
MatchTouchAuthor(r) ==
  Advance(r, "touchAuthor", FALSE, "touchLiker")

MatchTouchLiker(r) ==
  Advance(r, "touchLiker", FALSE, "commitMatch")

MatchCommit(r) ==
  /\ At(r, "commitMatch")
  /\ LET old == LikeAt(req[r].like) IN
       /\ likes' = (likes \ old) \union {[l EXCEPT !.match = TRUE] : l \in old}
       /\ cooling' = cooling \union {l.id : l \in {k \in old : k.rejected}}
  /\ chats' = chats \union {[id |-> nextChat, ad |-> req[r].ad, like |-> req[r].like,
                             author |-> req[r].user, liker |-> req[r].peer]}
  /\ nextChat' = nextChat + 1
  /\ Finish(r)
  /\ UNCHANGED <<stats, nextLike, cron>>

-----------------------------------------------------------------------------
(* refillAvailableLikesCron: keyset pages over the primary key             *)

RowsAfter(i) == {u \in WithStats : StatsId[u] > i}
(* The first BatchSize rows after id i.                                    *)
Page(i) == {u \in RowsAfter(i) :
              Cardinality({v \in RowsAfter(i) : StatsId[v] < StatsId[u]}) < BatchSize}

CronStart ==
  /\ "cron" \in Ops /\ ~ cron.on
  /\ cron' = [on |-> TRUE, end |-> "none", last |-> 0, batch |-> {}, done |-> {}]
  /\ UNCHANGED <<tables, req>>

CronFetch ==
  /\ cron.on /\ cron.batch = {}
  /\ cron' = IF Page(cron.last) = {} THEN [cron EXCEPT !.on = FALSE, !.end = "complete"]
             ELSE [cron EXCEPT !.batch = Page(cron.last)]
  /\ UNCHANGED <<tables, req>>

(* One row, in the order of the page; lastProcessedId ends at the last one.*)
CronRefill == \E u \in cron.batch :
  /\ \A v \in cron.batch : StatsId[u] <= StatsId[v]
  /\ \A s \in Requests : StatsRow(u) \notin Holds(s)
  /\ stats' = [stats EXCEPT ![u] = MaxLikes]
  /\ cron' = [cron EXCEPT !.batch = @ \ {u}, !.last = StatsId[u], !.done = @ \union {u}]
  /\ UNCHANGED <<likes, cooling, chats, nextLike, nextChat, req>>

(* The locals of the job are gone; what it has refilled stays.             *)
Abandoned == [cron EXCEPT !.on = FALSE, !.end = "failed", !.batch = {}]

(* Nothing catches the failure of a read or an update: it ends the job,    *)
(* and the rows that follow wait for the next one, two hours later.        *)
CronFails ==
  /\ cron.on
  /\ cron' = Abandoned
  /\ UNCHANGED <<tables, req>>

-----------------------------------------------------------------------------
(* Twelve hours pass for a rejected row.                                   *)
CooldownEnds == \E i \in cooling :
  /\ "expire" \in Ops
  /\ cooling' = cooling \ {i}
  /\ UNCHANGED <<likes, chats, stats, nextLike, nextChat, req, cron>>

(* Postgres ends a deadlock by aborting one of the transactions on it.     *)
DeadlockAbort(r) ==
  /\ Deadlocked(r)
  /\ Finish(r)
  /\ UNCHANGED <<tables, cron>>

(* The process dies: open transactions roll back, messages are not redelivered. *)
Crash ==
  /\ "crash" \in Ops
  /\ req' = [r \in Requests |-> Idle]
  /\ cron' = IF cron.on THEN Abandoned ELSE cron
  /\ UNCHANGED tables

Step(r) ==
  \/ SendCheckCooldown(r) \/ SendReadBalance(r) \/ SendCheckExisting(r)
  \/ SendCharge(r) \/ SendInsert(r) \/ SendCommit(r)
  \/ DismissReadStats(r) \/ DismissDestroy(r) \/ DismissRefund(r)
  \/ RejectMark(r) \/ RejectReadAuthor(r) \/ RejectCredit(r) \/ RejectCommit(r)
  \/ MatchMark(r) \/ MatchOpenChat(r) \/ MatchTouchAuthor(r) \/ MatchTouchLiker(r)
  \/ MatchCommit(r)

Next ==
  \/ \E r \in Requests : Send(r) \/ Dismiss(r) \/ Reject(r) \/ Match(r)
  \/ \E r \in Requests : Step(r) \/ DeadlockAbort(r)
  \/ CronStart \/ CronFetch \/ CronRefill \/ CronFails
  \/ CooldownEnds \/ Crash

Spec == Init /\ [][Next]_vars

(* A statement waiting for a lock is queued first come first served, so it *)
(* does run if the lock is free again and again.                           *)
Fairness ==
  /\ \A r \in Requests : SF_vars(Step(r)) /\ WF_vars(DeadlockAbort(r))
  /\ WF_vars(CronFetch) /\ SF_vars(CronRefill)

FairSpec == Spec /\ Fairness

-----------------------------------------------------------------------------
TypeOK ==
  /\ likes \subseteq LikeType /\ cooling \subseteq Nat
  /\ chats \subseteq ChatType
  /\ stats \in [WithStats -> Int]
  /\ nextLike \in Nat \ {0} /\ nextChat \in Nat \ {0}
  /\ req \in [Requests -> RequestType]
  /\ cron \in CronType

(* Whatever stale balances the handlers write back, a balance never leaves *)
(* the range the code treats as legal.                                     *)
BalanceBounded == \A u \in WithStats : stats[u] \in 0 .. MaxLikes

(* The check for an existing like runs long before the insert: concurrent  *)
(* and repeated sends still leave one like per user and ad.                *)
OneLikePerUserAd ==
  \A k, l \in likes : k.user = l.user /\ k.ad = l.ad => k = l

(* A like is a match only with a chat of its two people on its ad, also    *)
(* when a match is cut short by an error, a deadlock or a crash.           *)
MatchedLikeHasChat ==
  \A l \in likes : l.match =>
    \E c \in chats : c.like = l.id /\ c.ad = l.ad /\ c.liker = l.user

(* A chat is only ever about a match: the like it was opened for is gone   *)
(* or still marked, whatever rejections and matches have written to its    *)
(* row since, and no other like takes its place.                           *)
ChatOnlyOfMatch ==
  \A c \in chats : \A l \in LikeAt(c.like) : l.match /\ l.ad = c.ad /\ l.user = c.liker

(* The rows of likes and those of chats agree, seen from either side.      *)
MatchesAndChatsAgree == MatchedLikeHasChat /\ ChatOnlyOfMatch

(* Rejections and matches of one like, each from what it has read, undo    *)
(* nothing of each other: flags stay set, a row keeps its sender and ad,   *)
(* and chats stay.                                                         *)
DecisionsStand ==
  [][/\ chats \subseteq chats'
     /\ \A k \in likes, l \in likes' : k.id = l.id =>
          /\ k.user = l.user /\ k.ad = l.ad
          /\ (k.match => l.match) /\ (k.rejected => l.rejected)]_vars

(* No two open transactions have the same row locked.                      *)
LocksExclusive ==
  \A r, s \in Requests : r # s => Holds(r) \intersect Holds(s) = {}

(* Sends, dismissals and rejections take their locks in an order that      *)
(* cannot close a cycle: only matches can deadlock each other.             *)
OnlyMatchesDeadlock ==
  \A r \in Requests : Deadlocked(r) => req[r].pc \in MatchSteps

(* A refill job that ends without an error has refilled every row. One that *)
(* fails or dies on the way, or has not come to its end, has refilled the   *)
(* rows up to the last it reached and no row after it, whatever the page it *)
(* was in (refillAvailableLikesCron, which catches nothing).                *)
RefillCoversEveryRow ==
  /\ cron.end = "complete" => cron.done = WithStats
  /\ cron.done = {u \in WithStats : StatsId[u] <= cron.last}

(* What the tests and messages of the code say, and concurrent calls break. *)

(* "Not possible to match twice": a like gets at most one chat.            *)
OneChatPerLike == \A c, d \in chats : c.like = d.like => c = d

(* "Available likes should be reduced according to sent likes": the commit *)
(* of a like lowers its sender's balance.                                  *)
SentLikeIsCharged ==
  [][\A l \in likes' : l.id \notin {k.id : k \in likes} => stats'[l.user] < stats[l.user]]_vars

(* "update userStats of liker": a rejected sender does not end with fewer  *)
(* likes than before.                                                      *)
RejectionCostsNothing ==
  [][\A k \in likes, l \in likes' :
       k.id = l.id /\ ~ k.rejected /\ l.rejected => stats'[l.user] >= stats[l.user]]_vars

(* Every call ends, by a reply or an error: no row lock is waited for      *)
(* forever, Postgres being the one to end a deadlock.                      *)
EveryRequestFinishes == \A r \in Requests : ~ At(r, "idle") ~> At(r, "idle")
RefillFinishes == cron.on ~> ~ cron.on

Ledger == INSTANCE LikeLedger
(* Seen from the tables, the handlers are the indivisible operations of    *)
(* the ledger.                                                             *)
LedgerImplemented == Ledger!Spec
=============================================================================
