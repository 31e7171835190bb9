----------------------------- MODULE LikesProofs -----------------------------
(***************************************************************************)
(* Proofs about Likes, for every number of users, ads, concurrent requests *)
(* and every bound: the inductive invariant IInv and what follows from it. *)
(***************************************************************************)
EXTENDS Likes, FiniteSetTheorems, WellFoundedInduction, TLAPS

(* What makes the invariants above inductive: ids are never reused, and    *)
(* what a request knows at each of its steps.                              *)
IdsFresh ==
  /\ \A l \in likes : l.id < nextLike
  /\ \A k, l \in likes : k.id = l.id => k = l
  /\ \A c \in chats : c.id < nextChat

SendLocals(q) ==
  /\ q.pc \in SendSteps => q.user \in Users /\ q.ad \in Ads /\ Owner[q.ad] # q.user
  /\ q.pc \in {"existing", "charge", "insert", "commitSend"} /\ q.user \in WithStats
       => q.seen > 0
  /\ q.pc \in {"insert", "commitSend"} => q.user \in WithStats
  /\ q.pc = "commitSend" => LikesOf(q.user, q.ad) = {}

DismissLocals(q) ==
  /\ q.pc \in DismissSteps => q.user \in Users /\ q.ad \in Ads
  /\ q.pc = "refund" => q.user \in WithStats /\ q.seen < MaxLikes

RejectLocals(q) ==
  /\ q.pc \in RejectSteps =>
       /\ q.user \in Users /\ q.peer \in Users /\ q.like < nextLike
       /\ \A l \in LikeAt(q.like) : l.user = q.peer
  /\ q.pc = "commitReject" => q.peer \in WithStats

MatchLocals(q) ==
  /\ q.pc \in MatchSteps => q.user \in Users /\ q.like < nextLike
  /\ q.pc \in MatchSteps \ {"markMatch"} =>
       /\ q.peer \in Users /\ q.ad \in Ads
       /\ \A l \in LikeAt(q.like) : l.user = q.peer /\ l.ad = q.ad
  /\ q.pc \in {"touchAuthor", "touchLiker", "commitMatch"} =>
       q.user \in WithStats /\ q.peer \in WithStats

LocalsOK ==
  \A r \in Requests :
    /\ SendLocals(req[r]) /\ DismissLocals(req[r])
    /\ RejectLocals(req[r]) /\ MatchLocals(req[r])
    /\ req[r].pc \in LikeHeld => LikeAt(req[r].like) # {}

IInv == TypeOK /\ BalanceBounded /\ IdsFresh /\ LocksExclusive /\ LocalsOK
        /\ OneLikePerUserAd /\ MatchedLikeHasChat

-----------------------------------------------------------------------------
(* A step of r that takes at most the rows it waited for keeps the locks   *)
(* exclusive.                                                              *)
LEMMA LockStep ==
  ASSUME LocksExclusive, NEW r \in Requests,
         \A s \in Requests \ {r} : req'[s] = req[s],
         \/ Holds(r)' \subseteq Holds(r)
         \/ Unblocked(r) /\ Holds(r)' \subseteq Holds(r) \union Wants(r)
  PROVE  LocksExclusive'
<1>1. \A s \in Requests \ {r} : Holds(s)' = Holds(s)
  BY DEF Holds
<1>2. \A s \in Requests \ {r} : Holds(r)' \intersect Holds(s) = {}
  BY DEF LocksExclusive, Unblocked, WaitsFor
<1> QED
  BY <1>1, <1>2 DEF LocksExclusive

-----------------------------------------------------------------------------
(* A request whose locals agree with its step.                             *)
Agrees(q) ==
  /\ q \in RequestType
  /\ SendLocals(q) /\ DismissLocals(q) /\ RejectLocals(q) /\ MatchLocals(q)
  /\ q.pc \in LikeHeld => LikeAt(q.like) # {}

LEMMA IdleAgrees == Agrees(Idle) /\ Agrees(Idle)'
BY LimitAssumption
   DEF Agrees, Idle, RequestType, Steps, SendLocals, DismissLocals, RejectLocals, MatchLocals,
       SendSteps, DismissSteps, RejectSteps, MatchSteps, LikeHeld

(* A step of r that leaves the tables alone.                               *)
LEMMA LocalStep ==
  ASSUME IInv, NEW r \in Requests, NEW q, Agrees(q),
         req' = [req EXCEPT ![r] = q], UNCHANGED <<tables, cron>>,
         \/ Holds(r)' \subseteq Holds(r)
         \/ Unblocked(r) /\ Holds(r)' \subseteq Holds(r) \union Wants(r)
  PROVE  IInv'
<1> USE DEF IInv
<1>1. TypeOK'
  BY DEF TypeOK, tables, Agrees
<1>2. LocksExclusive'
  <2>1. \A s \in Requests \ {r} : req'[s] = req[s]
    BY DEF TypeOK
  <2> QED
    BY <2>1, LockStep
<1>3. LocalsOK'
  <2> SUFFICES ASSUME NEW s \in Requests
               PROVE  /\ (SendLocals(req[s]) /\ DismissLocals(req[s]))'
                      /\ (RejectLocals(req[s]) /\ MatchLocals(req[s]))'
                      /\ (req[s].pc \in LikeHeld => LikeAt(req[s].like) # {})'
    BY DEF LocalsOK
  <2>1. req'[s] = IF s = r THEN q ELSE req[s]
    BY DEF TypeOK
  <2>2. UNCHANGED <<likes, nextLike>>
    BY DEF tables
  <2> QED
    BY <2>1, <2>2 DEF LocalsOK, Agrees, SendLocals, DismissLocals, RejectLocals, MatchLocals,
                      LikesOf, LikeAt
<1>4. BalanceBounded' /\ IdsFresh' /\ OneLikePerUserAd' /\ MatchedLikeHasChat'
  BY DEF tables, BalanceBounded, IdsFresh, OneLikePerUserAd, MatchedLikeHasChat
<1> QED
  BY <1>1, <1>2, <1>3, <1>4

(* An error reply, a rollback, the end of the call.                        *)
LEMMA FinishStep ==
  ASSUME IInv, NEW r \in Requests, Finish(r), UNCHANGED <<tables, cron>>
  PROVE  IInv'
<1>1. req' = [req EXCEPT ![r] = Idle] /\ req \in [Requests -> RequestType]
  BY DEF Finish, IInv, TypeOK
<1>2. Holds(r)' = {}
  BY <1>1 DEF Holds, Idle, CallerStatsHeld, PeerStatsHeld, LikeHeld
<1> QED
  BY <1>1, <1>2, IdleAgrees, LocalStep

(* The first step of a call.                                               *)
LEMMA CallStep ==
  ASSUME IInv, NEW r \in Requests, NEW q, Agrees(q),
         q.pc \notin CallerStatsHeld \union PeerStatsHeld \union LikeHeld,
         q.pc # "commitSend",
         req' = [req EXCEPT ![r] = q], UNCHANGED <<tables, cron>>
  PROVE  IInv'
<1>1. req \in [Requests -> RequestType]
  BY DEF IInv, TypeOK
<1>2. Holds(r)' = {}
  BY <1>1 DEF Holds
<1> QED
  BY <1>2, LocalStep

(* A statement that leaves the tables alone: the request fails, or it goes *)
(* on to the next step with the lock it has waited for.                    *)
LEMMA AdvanceStep ==
  ASSUME IInv, NEW r \in Requests, NEW step, NEW cond, NEW next \in Steps,
         Advance(r, step, cond, next),
         cond \/ Agrees([req[r] EXCEPT !.pc = next]),
         Goto(r, next) => Holds(r)' \subseteq Holds(r) \union Wants(r)
  PROVE  IInv'
<1>1. CASE cond
  BY <1>1, FinishStep DEF Advance, FailIf
<1>2. CASE ~ cond
  <2>1. Goto(r, next) /\ Unblocked(r) /\ UNCHANGED <<tables, cron>>
    BY <1>2 DEF Advance, FailIf
  <2>2. req' = [req EXCEPT ![r] = [req[r] EXCEPT !.pc = next]]
    BY <2>1 DEF Goto, IInv, TypeOK
  <2> QED
    BY <1>2, <2>1, <2>2, LocalStep
<1> QED
  BY <1>1, <1>2

-----------------------------------------------------------------------------
LEMMA SendLocalSteps ==
  ASSUME IInv, NEW r \in Requests
  PROVE  /\ Send(r) => IInv'
         /\ SendCheckCooldown(r) => IInv'
         /\ SendReadBalance(r) => IInv'
         /\ SendCheckExisting(r) => IInv'
         /\ SendCharge(r) => IInv'
         /\ SendInsert(r) => IInv'
<1> DEFINE to(step) == [req[r] EXCEPT !.pc = step]
<1>0. /\ req \in [Requests -> RequestType]
      /\ Agrees(req[r])
  BY DEF IInv, TypeOK, LocalsOK, Agrees
<1> USE <1>0 DEF Agrees, RequestType, Steps, SendLocals, DismissLocals, RejectLocals,
       MatchLocals, SendSteps, DismissSteps, RejectSteps, MatchSteps,
       CallerStatsHeld, PeerStatsHeld, LikeHeld
<1>1. ASSUME Send(r) PROVE IInv'
  <2>1. PICK u \in Users, a \in Ads :
          Owner[a] # u /\ Call(r, "cooldown", u, a, 0, None)
    BY <1>1 DEF Send
  <2> DEFINE q == [pc |-> "cooldown", user |-> u, ad |-> a, like |-> 0,
                   peer |-> None, seen |-> 0]
  <2>2. Agrees(q)
    BY <2>1, LimitAssumption
  <2> HIDE DEF q
  <2> QED
    BY <2>1, <2>2, CallStep DEF Call, q
<1>2. ASSUME SendCheckCooldown(r) PROVE IInv'
  <2>1. Agrees(to("balance")) /\ (Goto(r, "balance") => Holds(r)' \subseteq Holds(r))
    BY <1>2 DEF SendCheckCooldown, Advance, At, Goto, Holds
  <2> QED
    BY <1>2, <2>1, AdvanceStep DEF SendCheckCooldown
<1>3. ASSUME SendReadBalance(r) PROVE IInv'
  <2>1. CASE req[r].user \in WithStats /\ stats[req[r].user] = 0
    BY <1>3, <2>1, FinishStep DEF SendReadBalance
  <2>2. CASE ~ (req[r].user \in WithStats /\ stats[req[r].user] = 0)
    <3> DEFINE q == [req[r] EXCEPT !.pc = "existing", !.seen = BalanceOf(req[r].user)]
    <3>1. /\ BalanceOf(req[r].user) \in 0 .. MaxLikes
          /\ req[r].user \in WithStats => BalanceOf(req[r].user) > 0
      BY <2>2, LimitAssumption DEF BalanceOf, IInv, BalanceBounded
    <3>2. Agrees(q)
      BY <1>3, <3>1 DEF SendReadBalance, At
    <3>3. req' = [req EXCEPT ![r] = q] /\ UNCHANGED <<tables, cron>>
      BY <1>3, <2>2 DEF SendReadBalance, Read
    <3>4. Holds(r)' = {}
      BY <3>3 DEF Holds
    <3> QED
      BY <3>2, <3>3, <3>4, LocalStep
  <2> QED
    BY <2>1, <2>2
<1>4. ASSUME SendCheckExisting(r) PROVE IInv'
  <2>1. Agrees(to("charge")) /\ (Goto(r, "charge") => Holds(r)' \subseteq Holds(r))
    BY <1>4 DEF SendCheckExisting, Advance, At, Goto, Holds
  <2> QED
    BY <1>4, <2>1, AdvanceStep DEF SendCheckExisting
<1>5. ASSUME SendCharge(r) PROVE IInv'
  <2>1. req[r].user \notin WithStats \/ Agrees(to("insert"))
    BY <1>5 DEF SendCharge, Advance, At
  <2>2. Goto(r, "insert") => Holds(r)' \subseteq Holds(r) \union Wants(r)
    BY <1>5 DEF SendCharge, Advance, At, Goto, Holds, Wants
  <2> QED
    BY <1>5, <2>1, <2>2, AdvanceStep DEF SendCharge
<1>6. ASSUME SendInsert(r) PROVE IInv'
  <2>1. LikesOf(req[r].user, req[r].ad) # {} \/ Agrees(to("commitSend"))
    BY <1>6 DEF SendInsert, Advance, At
  <2>2. Goto(r, "commitSend") => Holds(r)' \subseteq Holds(r) \union Wants(r)
    BY <1>6 DEF SendInsert, Advance, At, Goto, Holds, Wants
  <2> QED
    BY <1>6, <2>1, <2>2, AdvanceStep DEF SendInsert
<1> QED
  BY <1>1, <1>2, <1>3, <1>4, <1>5, <1>6

-----------------------------------------------------------------------------
LEMMA DismissLocalSteps ==
  ASSUME IInv, NEW r \in Requests
  PROVE  /\ Dismiss(r) => IInv'
         /\ DismissReadStats(r) => IInv'
<1>0. /\ req \in [Requests -> RequestType]
      /\ Agrees(req[r])
  BY DEF IInv, TypeOK, LocalsOK, Agrees
<1> USE <1>0 DEF Agrees, RequestType, Steps, SendLocals, DismissLocals, RejectLocals,
       MatchLocals, SendSteps, DismissSteps, RejectSteps, MatchSteps,
       CallerStatsHeld, PeerStatsHeld, LikeHeld
<1>1. ASSUME Dismiss(r) PROVE IInv'
  <2>1. PICK l \in likes : Call(r, "readStats", l.user, l.ad, 0, None)
    BY <1>1 DEF Dismiss
  <2> DEFINE q == [pc |-> "readStats", user |-> l.user, ad |-> l.ad, like |-> 0,
                   peer |-> None, seen |-> 0]
  <2>2. Agrees(q)
    BY <2>1, LimitAssumption DEF IInv, TypeOK, LikeType
  <2> HIDE DEF q
  <2> QED
    BY <2>1, <2>2, CallStep DEF Call, q
<1>2. ASSUME DismissReadStats(r) PROVE IInv'
  <2> DEFINE q == [req[r] EXCEPT !.pc = "destroy", !.seen = BalanceOf(req[r].user)]
  <2>1. BalanceOf(req[r].user) \in 0 .. MaxLikes
    BY LimitAssumption DEF BalanceOf, IInv, BalanceBounded
  <2>2. Agrees(q)
    BY <1>2, <2>1 DEF DismissReadStats, At
  <2>3. req' = [req EXCEPT ![r] = q] /\ UNCHANGED <<tables, cron>>
    BY <1>2 DEF DismissReadStats, Read
  <2>4. Holds(r)' = {}
    BY <2>3 DEF Holds
  <2> QED
    BY <2>2, <2>3, <2>4, LocalStep
<1> QED
  BY <1>1, <1>2

-----------------------------------------------------------------------------
LEMMA RejectLocalSteps ==
  ASSUME IInv, NEW r \in Requests
  PROVE  /\ Reject(r) => IInv'
         /\ RejectMark(r) => IInv'
         /\ RejectReadAuthor(r) => IInv'
         /\ RejectCredit(r) => IInv'
<1> DEFINE to(step) == [req[r] EXCEPT !.pc = step]
<1>0. /\ req \in [Requests -> RequestType]
      /\ Agrees(req[r])
  BY DEF IInv, TypeOK, LocalsOK, Agrees
<1> USE <1>0 DEF Agrees, RequestType, Steps, SendLocals, DismissLocals, RejectLocals,
       MatchLocals, SendSteps, DismissSteps, RejectSteps, MatchSteps,
       CallerStatsHeld, PeerStatsHeld, LikeHeld
<1>1. ASSUME Reject(r) PROVE IInv'
  <2>1. PICK l \in likes : Call(r, "mark", Owner[l.ad], l.ad, l.id, l.user)
    BY <1>1 DEF Reject
  <2> DEFINE q == [pc |-> "mark", user |-> Owner[l.ad], ad |-> l.ad, like |-> l.id,
                   peer |-> l.user, seen |-> 0]
  <2>2. Agrees(q)
    BY <2>1, LimitAssumption, OwnerAssumption DEF IInv, TypeOK, LikeType, IdsFresh, LikeAt
  <2> HIDE DEF q
  <2> QED
    BY <2>1, <2>2, CallStep DEF Call, q
<1>2. ASSUME RejectMark(r) PROVE IInv'
  <2>1. LikeAt(req[r].like) = {} \/ Agrees(to("readAuthor"))
    BY <1>2 DEF RejectMark, Advance, At
  <2>2. Goto(r, "readAuthor") => Holds(r)' \subseteq Holds(r) \union Wants(r)
    BY <1>2 DEF RejectMark, Advance, At, Goto, Holds, Wants
  <2> QED
    BY <1>2, <2>1, <2>2, AdvanceStep DEF RejectMark
<1>3. ASSUME RejectReadAuthor(r) PROVE IInv'
  <2> DEFINE q == [req[r] EXCEPT !.pc = "credit", !.seen = BalanceOf(req[r].user)]
  <2>1. BalanceOf(req[r].user) \in 0 .. MaxLikes
    BY LimitAssumption DEF BalanceOf, IInv, BalanceBounded
  <2>2. Agrees(q)
    BY <1>3, <2>1 DEF RejectReadAuthor, At
  <2>3. req' = [req EXCEPT ![r] = q] /\ UNCHANGED <<tables, cron>>
    BY <1>3 DEF RejectReadAuthor, Read
  <2>4. Holds(r)' = Holds(r)
    BY <1>3, <2>3 DEF Holds, RejectReadAuthor, At
  <2> QED
    BY <2>2, <2>3, <2>4, LocalStep
<1>4. ASSUME RejectCredit(r) PROVE IInv'
  <2>1. req[r].peer \notin WithStats \/ Agrees(to("commitReject"))
    BY <1>4 DEF RejectCredit, Advance, At
  <2>2. Goto(r, "commitReject") => Holds(r)' \subseteq Holds(r) \union Wants(r)
    BY <1>4 DEF RejectCredit, Advance, At, Goto, Holds, Wants
  <2> QED
    BY <1>4, <2>1, <2>2, AdvanceStep DEF RejectCredit
<1> QED
  BY <1>1, <1>2, <1>3, <1>4

-----------------------------------------------------------------------------
LEMMA MatchLocalSteps ==
  ASSUME IInv, NEW r \in Requests
  PROVE  /\ Match(r) => IInv'
         /\ MatchMark(r) => IInv'
         /\ MatchOpenChat(r) => IInv'
         /\ MatchTouchAuthor(r) => IInv'
         /\ MatchTouchLiker(r) => IInv'
<1> DEFINE to(step) == [req[r] EXCEPT !.pc = step]
<1>0. /\ req \in [Requests -> RequestType]
      /\ Agrees(req[r])
  BY DEF IInv, TypeOK, LocalsOK, Agrees
<1>a. likes \subseteq LikeType /\ \A j, k \in likes : j.id = k.id => j = k
  BY DEF IInv, TypeOK, IdsFresh
<1> USE <1>0 DEF Agrees, RequestType, Steps, SendLocals, DismissLocals, RejectLocals,
       MatchLocals, SendSteps, DismissSteps, RejectSteps, MatchSteps,
       CallerStatsHeld, PeerStatsHeld, LikeHeld
<1>1. ASSUME Match(r) PROVE IInv'
  <2>1. PICK u \in Users, i \in 1 .. nextLike - 1 : Call(r, "markMatch", u, None, i, None)
    BY <1>1 DEF Match
  <2> DEFINE q == [pc |-> "markMatch", user |-> u, ad |-> None, like |-> i,
                   peer |-> None, seen |-> 0]
  <2>2. Agrees(q)
    BY <2>1, LimitAssumption DEF IInv, TypeOK
  <2> HIDE DEF q
  <2> QED
    BY <2>1, <2>2, CallStep DEF Call, q
<1>2. ASSUME MatchMark(r) PROVE IInv'
  <2>1. CASE LikeAt(req[r].like) = {}
    BY <1>2, <2>1, FinishStep DEF MatchMark
  <2>2. CASE LikeAt(req[r].like) # {}
    <3>1. PICK l \in LikeAt(req[r].like) :
            req' = [req EXCEPT ![r].pc = "openChat", ![r].ad = l.ad, ![r].peer = l.user]
      BY <1>2, <2>2 DEF MatchMark
    <3> DEFINE q == [req[r] EXCEPT !.pc = "openChat", !.ad = l.ad, !.peer = l.user]
    <3>2. req' = [req EXCEPT ![r] = q] /\ UNCHANGED <<tables, cron>> /\ Unblocked(r)
      BY <1>2, <3>1 DEF MatchMark
    <3>0. req[r].pc = "markMatch"
      BY <1>2 DEF MatchMark, At
    <3>a. /\ l \in likes /\ l \in LikeType /\ l.id = req[r].like
          /\ \A k \in LikeAt(req[r].like) : k = l
      BY <1>a DEF LikeAt
    <3>3. Agrees(q)
      BY <3>0, <3>a DEF LikeType, LikeAt
    <3>b. req'[r] = q
      BY <3>2
    <3>4. Holds(r)' \subseteq Holds(r) \union Wants(r)
      BY <3>0, <3>b DEF Holds, Wants
    <3> QED
      BY <3>2, <3>3, <3>4, LocalStep
  <2> QED
    BY <2>1, <2>2
<1>3. ASSUME MatchOpenChat(r) PROVE IInv'
  <2>1. ~ {req[r].user, req[r].peer} \subseteq WithStats \/ Agrees(to("touchAuthor"))
    BY <1>3 DEF MatchOpenChat, Advance, At
  <2>2. Goto(r, "touchAuthor") => Holds(r)' \subseteq Holds(r) \union Wants(r)
    BY <1>3 DEF MatchOpenChat, Advance, At, Goto, Holds, Wants
  <2> QED
    BY <1>3, <2>1, <2>2, AdvanceStep DEF MatchOpenChat
<1>4. ASSUME MatchTouchAuthor(r) PROVE IInv'
  <2>1. Agrees(to("touchLiker"))
    BY <1>4 DEF MatchTouchAuthor, Advance, At
  <2>2. Goto(r, "touchLiker") => Holds(r)' \subseteq Holds(r) \union Wants(r)
    BY <1>4 DEF MatchTouchAuthor, Advance, At, Goto, Holds, Wants
  <2> QED
    BY <1>4, <2>1, <2>2, AdvanceStep DEF MatchTouchAuthor
<1>5. ASSUME MatchTouchLiker(r) PROVE IInv'
  <2>1. Agrees(to("commitMatch"))
    BY <1>5 DEF MatchTouchLiker, Advance, At
  <2>2. Goto(r, "commitMatch") => Holds(r)' \subseteq Holds(r) \union Wants(r)
    BY <1>5 DEF MatchTouchLiker, Advance, At, Goto, Holds, Wants
  <2> QED
    BY <1>5, <2>1, <2>2, AdvanceStep DEF MatchTouchLiker
<1> QED
  BY <1>1, <1>2, <1>3, <1>4, <1>5

-----------------------------------------------------------------------------
(* A commit, or a write outside a transaction, that leaves r without       *)
(* locks: what is to show of the tables and of the other requests.         *)
LEMMA WriteStep ==
  ASSUME IInv, NEW r \in Requests, NEW q \in RequestType,
         req' = [req EXCEPT ![r] = q], Holds(r)' = {}, LocalsOK',
         likes' \subseteq LikeType, cooling' \subseteq Nat, chats' \subseteq ChatType,
         stats' \in [WithStats -> 0 .. MaxLikes],
         nextLike' \in Nat \ {0}, nextChat' \in Nat \ {0}, UNCHANGED cron,
         IdsFresh', OneLikePerUserAd', MatchedLikeHasChat'
  PROVE  IInv'
<1>1. \A s \in Requests \ {r} : req'[s] = req[s]
  BY DEF IInv, TypeOK
<1>2. LocksExclusive'
  BY <1>1, LockStep DEF IInv
<1>3. TypeOK'
  BY LimitAssumption DEF IInv, TypeOK
<1>4. BalanceBounded'
  BY DEF BalanceBounded
<1> QED
  BY <1>2, <1>3, <1>4 DEF IInv

(* When a write disturbs no row that q relies on, q still agrees.          *)
LEMMA AgreesKept ==
  ASSUME NEW q, Agrees(q), nextLike \in Nat, nextLike' \in Nat, nextLike' >= nextLike,
         q.pc = "commitSend" /\ LikesOf(q.user, q.ad) = {} => LikesOf(q.user, q.ad)' = {},
         q.pc \in LikeHeld /\ LikeAt(q.like) # {} => LikeAt(q.like)' # {},
         q.like < nextLike =>
           \A k \in LikeAt(q.like)' :
             \E l \in LikeAt(q.like) : k.user = l.user /\ k.ad = l.ad
  PROVE  Agrees(q)'
<1>1. q.like \in Nat
  BY DEF Agrees, RequestType
<1>2. q.like < nextLike => q.like < nextLike'
  BY <1>1
<1>3. SendLocals(q)' /\ DismissLocals(q)'
  BY DEF Agrees, SendLocals, DismissLocals
<1>4. RejectLocals(q)'
  BY <1>2 DEF Agrees, RejectLocals
<1>5. MatchLocals(q)'
  BY <1>2 DEF Agrees, MatchLocals, MatchSteps
<1> QED
  BY <1>3, <1>4, <1>5 DEF Agrees

(* The end of a call whose last step the other requests survive.           *)
LEMMA RequestEnds ==
  ASSUME NEW r \in Requests, req \in [Requests -> RequestType], LocalsOK,
         req' = [req EXCEPT ![r] = Idle],
         \A s \in Requests \ {r} : Agrees(req[s]) => Agrees(req[s])'
  PROVE  LocalsOK' /\ Idle \in RequestType /\ Holds(r)' = {}
<1>1. req'[r] = Idle
  OBVIOUS
<1>2. Agrees(req[r])' /\ Idle \in RequestType
  BY <1>1, IdleAgrees DEF Agrees
<1>3. LocalsOK'
  BY <1>2 DEF LocalsOK, Agrees
<1>4. Holds(r)' = {}
  BY <1>1 DEF Holds, Idle, CallerStatsHeld, PeerStatsHeld, LikeHeld
<1> QED
  BY <1>2, <1>3, <1>4

LEMMA SendCommitStep ==
  ASSUME IInv, NEW r \in Requests, SendCommit(r)
  PROVE  IInv'
<1> DEFINE u == req[r].user
           a == req[r].ad
           new == [id |-> nextLike, user |-> u, ad |-> a, rejected |-> FALSE, match |-> FALSE]
<1>1. /\ req[r].pc = "commitSend" /\ u \in WithStats /\ u \in Users /\ a \in Ads
      /\ req[r].seen \in 1 .. MaxLikes
      /\ \A l \in likes : ~ (l.user = u /\ l.ad = a)
  BY StatsAssumption, LimitAssumption
     DEF SendCommit, At, IInv, TypeOK, RequestType, LocalsOK, SendLocals, SendSteps, LikesOf
<1>2. /\ likes' = likes \union {new} /\ nextLike' = nextLike + 1
      /\ stats' = [stats EXCEPT ![u] = req[r].seen - 1]
      /\ req' = [req EXCEPT ![r] = Idle]
      /\ UNCHANGED <<cooling, chats, nextChat, cron>>
  BY DEF SendCommit, Finish
<1>3. /\ likes \subseteq LikeType /\ cooling \subseteq Nat /\ chats \subseteq ChatType
      /\ nextLike \in Nat \ {0} /\ nextChat \in Nat \ {0}
      /\ req \in [Requests -> RequestType]
      /\ stats \in [WithStats -> 0 .. MaxLikes]
  BY DEF IInv, TypeOK, BalanceBounded
<1>4. new \in LikeType
  BY <1>1, <1>3 DEF LikeType
<1>5. ASSUME NEW s \in Requests \ {r}, Agrees(req[s])
      PROVE  Agrees(req[s])'
  <2>1. PICK q \in RequestType : q = req[s] /\ q = req'[s]
    BY <1>2, <1>3
  <2>2. q.pc = "commitSend" => ~ (q.user = u /\ q.ad = a)
    <3>1. q.pc = "commitSend" => Key(q.user, q.ad) \in Holds(s)
      BY <2>1 DEF Holds
    <3>2. Key(u, a) \in Holds(r)
      BY <1>1 DEF Holds
    <3> QED
      BY <3>1, <3>2 DEF LocksExclusive, IInv
  <2>3. q.like < nextLike => LikeAt(q.like)' = LikeAt(q.like)
    BY <1>2, <1>3, <2>1 DEF LikeAt, RequestType
  <2>4. q.pc = "commitSend" => LikesOf(q.user, q.ad)' = LikesOf(q.user, q.ad)
    BY <1>2, <2>2 DEF LikesOf
  <2>5. q.pc \in LikeHeld => q.like < nextLike
    BY <1>5, <2>1 DEF Agrees, RejectLocals, MatchLocals, RejectSteps, MatchSteps, LikeHeld
  <2>6. Agrees(q)'
    BY <1>2, <1>3, <1>5, <2>1, <2>3, <2>4, <2>5, AgreesKept
  <2> QED
    BY <2>1, <2>6
<1>6. LocalsOK' /\ Idle \in RequestType /\ Holds(r)' = {}
  <2>1. LocalsOK
    BY DEF IInv
  <2> QED
    BY <1>2, <1>3, <1>5, <2>1, RequestEnds
<1>7. IdsFresh' /\ OneLikePerUserAd' /\ MatchedLikeHasChat'
  <2> HIDE DEF new
  <2>1. /\ \A l \in likes : l.id \in Nat /\ l.id < nextLike
        /\ \A k, l \in likes : k.id = l.id => k = l
        /\ \A k, l \in likes : k.user = l.user /\ k.ad = l.ad => k = l
        /\ \A c \in chats : c.id < nextChat
    BY <1>3 DEF IInv, IdsFresh, OneLikePerUserAd, LikeType
  <2>2. new.id = nextLike /\ new.user = u /\ new.ad = a /\ new.match = FALSE
    BY DEF new
  <2>3. IdsFresh'
    BY <1>2, <1>3, <2>1, <2>2 DEF IdsFresh
  <2>4. OneLikePerUserAd'
    BY <1>1, <1>2, <2>1, <2>2 DEF OneLikePerUserAd
  <2>5. MatchedLikeHasChat'
    BY <1>2, <2>2 DEF IInv, MatchedLikeHasChat
  <2> QED
    BY <2>3, <2>4, <2>5
<1>8. stats' \in [WithStats -> 0 .. MaxLikes]
  BY <1>1, <1>2, <1>3, LimitAssumption
<1> HIDE DEF new, u, a
<1>9. likes' \subseteq LikeType /\ nextLike' \in Nat \ {0}
  BY <1>2, <1>3, <1>4
<1> QED
  BY <1>2, <1>3, <1>6, <1>7, <1>8, <1>9, WriteStep

LEMMA DismissRefundStep ==
  ASSUME IInv, NEW r \in Requests, DismissRefund(r)
  PROVE  IInv'
<1>1. req[r].pc = "refund" /\ req[r].user \in WithStats /\ req[r].seen \in 0 .. MaxLikes - 1
  BY LimitAssumption
     DEF DismissRefund, At, IInv, TypeOK, RequestType, LocalsOK, DismissLocals
<1>2. /\ stats' = [stats EXCEPT ![req[r].user] = req[r].seen + 1]
      /\ req' = [req EXCEPT ![r] = Idle]
      /\ UNCHANGED <<likes, cooling, chats, nextLike, nextChat, cron>>
  BY DEF DismissRefund, Finish
<1>3. /\ likes \subseteq LikeType /\ cooling \subseteq Nat /\ chats \subseteq ChatType
      /\ nextLike \in Nat \ {0} /\ nextChat \in Nat \ {0}
      /\ req \in [Requests -> RequestType]
      /\ stats \in [WithStats -> 0 .. MaxLikes]
  BY DEF IInv, TypeOK, BalanceBounded
<1>4. stats' \in [WithStats -> 0 .. MaxLikes]
  BY <1>1, <1>2, <1>3, LimitAssumption
<1>5. ASSUME NEW s \in Requests \ {r}, Agrees(req[s])
      PROVE  Agrees(req[s])'
  <2>1. PICK q \in RequestType : q = req[s] /\ q = req'[s]
    BY <1>2, <1>3
  <2>2. Agrees(q)'
    BY <1>2, <1>3, <1>5, <2>1, AgreesKept DEF LikesOf, LikeAt
  <2> QED
    BY <2>1, <2>2
<1>6. LocalsOK' /\ Idle \in RequestType /\ Holds(r)' = {}
  <2>1. LocalsOK
    BY DEF IInv
  <2> QED
    BY <1>2, <1>3, <1>5, <2>1, RequestEnds
<1>7. IdsFresh' /\ OneLikePerUserAd' /\ MatchedLikeHasChat'
  BY <1>2 DEF IInv, IdsFresh, OneLikePerUserAd, MatchedLikeHasChat
<1> QED
  BY <1>2, <1>3, <1>4, <1>6, <1>7, WriteStep

LEMMA DismissDestroyStep ==
  ASSUME IInv, NEW r \in Requests, DismissDestroy(r)
  PROVE  IInv'
<1> DEFINE gone == LikesOf(req[r].user, req[r].ad)
<1>1. /\ likes' = likes \ gone /\ cooling' \subseteq cooling
      /\ req[r].pc = "destroy" /\ Unblocked(r)
      /\ UNCHANGED <<chats, stats, nextLike, nextChat, cron>>
  BY DEF DismissDestroy, At
<1>2. /\ likes \subseteq LikeType /\ cooling \subseteq Nat /\ chats \subseteq ChatType
      /\ nextLike \in Nat \ {0} /\ nextChat \in Nat \ {0}
      /\ req \in [Requests -> RequestType]
      /\ stats \in [WithStats -> 0 .. MaxLikes]
  BY DEF IInv, TypeOK, BalanceBounded
<1>3. PICK q : /\ req' = [req EXCEPT ![r] = q]
               /\ \/ q = Idle
                  \/ /\ q = [req[r] EXCEPT !.pc = "refund"]
                     /\ req[r].user \in WithStats /\ req[r].seen < MaxLikes
  <2>1. CASE req[r].user \notin WithStats \/ req[r].seen >= MaxLikes
    BY <2>1 DEF DismissDestroy, FailIf, Finish
  <2>2. CASE ~ (req[r].user \notin WithStats \/ req[r].seen >= MaxLikes)
    <3>1. req' = [req EXCEPT ![r] = [req[r] EXCEPT !.pc = "refund"]]
      BY <2>2, <1>2 DEF DismissDestroy, FailIf, Goto
    <3>2. req[r].seen < MaxLikes
      BY <2>2, <1>2, LimitAssumption DEF RequestType
    <3> QED
      BY <3>1, <3>2, <2>2
  <2> QED
    BY <2>1, <2>2
<1>4. Agrees(req[r]) /\ req[r].user \in Users /\ req[r].ad \in Ads
  BY <1>1, <1>2 DEF IInv, LocalsOK, Agrees, DismissLocals, DismissSteps
<1>5. q \in RequestType /\ Agrees(q)' /\ Holds(r)' = {}
  <2>1. CASE q = Idle
    BY <1>2, <1>3, <2>1, IdleAgrees
       DEF Holds, Idle, Agrees, CallerStatsHeld, PeerStatsHeld, LikeHeld
  <2>2. CASE q = [req[r] EXCEPT !.pc = "refund"]
    <3>1. q \in RequestType /\ q.pc = "refund"
      BY <1>2, <2>2 DEF RequestType, Steps, DismissSteps
    <3>2. q.user \in Users /\ q.ad \in Ads /\ q.user \in WithStats /\ q.seen < MaxLikes
      BY <1>2, <1>3, <1>4, <2>2, <3>1 DEF RequestType, Idle
    <3>3. Agrees(q)'
      BY <3>1, <3>2
         DEF Agrees, SendLocals, DismissLocals, RejectLocals, MatchLocals,
             SendSteps, RejectSteps, MatchSteps, LikeHeld
    <3>4. Holds(r)' = {}
      BY <1>2, <1>3, <3>1 DEF Holds, CallerStatsHeld, PeerStatsHeld, LikeHeld
    <3> QED
      BY <3>1, <3>3, <3>4
  <2> QED
    BY <1>3, <2>1, <2>2
<1>6. ASSUME NEW s \in Requests \ {r}, Agrees(req[s])
      PROVE  Agrees(req[s])'
  <2>1. PICK p \in RequestType : p = req[s] /\ p = req'[s]
    BY <1>2, <1>3
  <2>2. p.pc \in LikeHeld => LikeAt(p.like)' = LikeAt(p.like)
    <3>1. p.pc \in LikeHeld => LikeRow(p.like) \in Holds(s)
      BY <2>1 DEF Holds
    <3>2. \A l \in gone : LikeRow(l.id) \notin Holds(s)
      BY <1>1 DEF Unblocked, WaitsFor, Wants
    <3> QED
      BY <1>1, <3>1, <3>2 DEF LikeAt
  <2>3. LikeAt(p.like)' \subseteq LikeAt(p.like)
    BY <1>1 DEF LikeAt
  <2>4. LikesOf(p.user, p.ad)' \subseteq LikesOf(p.user, p.ad)
    BY <1>1 DEF LikesOf
  <2>5. Agrees(p)'
    BY <1>1, <1>2, <1>6, <2>1, <2>2, <2>3, <2>4, AgreesKept
  <2> QED
    BY <2>1, <2>5
<1>7. LocalsOK'
  <2>1. Agrees(req[r])'
    BY <1>2, <1>3, <1>5
  <2> QED
    BY <1>2, <1>6, <2>1 DEF IInv, LocalsOK, Agrees
<1>8. IdsFresh' /\ OneLikePerUserAd' /\ MatchedLikeHasChat'
  BY <1>1 DEF IInv, IdsFresh, OneLikePerUserAd, MatchedLikeHasChat
<1> QED
  BY <1>1, <1>2, <1>3, <1>5, <1>7, <1>8, WriteStep

-----------------------------------------------------------------------------
(* A commit of r that changes the flags of one like.                       *)
LEMMA FlagStep ==
  ASSUME IInv, NEW r \in Requests, NEW o \in likes, NEW n \in LikeType,
         n.id = o.id, n.user = o.user, n.ad = o.ad,
         likes' = (likes \ {o}) \union {n}, nextLike' = nextLike,
         req' = [req EXCEPT ![r] = Idle]
  PROVE  /\ LocalsOK' /\ Idle \in RequestType /\ Holds(r)' = {}
         /\ likes' \subseteq LikeType /\ OneLikePerUserAd'
         /\ \A l \in likes' : l.id < nextLike'
         /\ \A k, l \in likes' : k.id = l.id => k = l
<1>1. /\ likes \subseteq LikeType /\ nextLike \in Nat \ {0}
      /\ req \in [Requests -> RequestType]
      /\ \A l \in likes : l.id < nextLike
      /\ \A k, l \in likes : k.id = l.id => k = l
      /\ \A k, l \in likes : k.user = l.user /\ k.ad = l.ad => k = l
  BY DEF IInv, TypeOK, IdsFresh, OneLikePerUserAd
<1>2. ASSUME NEW s \in Requests \ {r}, Agrees(req[s])
      PROVE  Agrees(req[s])'
  <2>1. PICK q \in RequestType : q = req[s] /\ q = req'[s]
    BY <1>1
  <2>2. LikesOf(q.user, q.ad) = {} => LikesOf(q.user, q.ad)' = {}
    BY DEF LikesOf
  <2>3. LikeAt(q.like) # {} => LikeAt(q.like)' # {}
    BY DEF LikeAt
  <2>4. \A k \in LikeAt(q.like)' : \E l \in LikeAt(q.like) : k.user = l.user /\ k.ad = l.ad
    BY DEF LikeAt
  <2>5. Agrees(q)'
    BY <1>1, <1>2, <2>1, <2>2, <2>3, <2>4, AgreesKept
  <2> QED
    BY <2>1, <2>5
<1>3. LocalsOK' /\ Idle \in RequestType /\ Holds(r)' = {}
  <2>1. LocalsOK
    BY DEF IInv
  <2> QED
    BY <1>1, <1>2, <2>1, RequestEnds
<1>4. OneLikePerUserAd'
  BY <1>1 DEF OneLikePerUserAd
<1> QED
  BY <1>1, <1>3, <1>4

LEMMA RejectCommitStep ==
  ASSUME IInv, NEW r \in Requests, RejectCommit(r)
  PROVE  IInv'
<1> DEFINE i == req[r].like
           u == req[r].peer
<1>1. /\ likes \subseteq LikeType /\ cooling \subseteq Nat /\ chats \subseteq ChatType
      /\ nextLike \in Nat \ {0} /\ nextChat \in Nat \ {0}
      /\ req \in [Requests -> RequestType]
      /\ stats \in [WithStats -> 0 .. MaxLikes]
  BY DEF IInv, TypeOK, BalanceBounded
<1>2. /\ req[r].pc = "commitReject" /\ LikeAt(i) # {}
      /\ u \in WithStats /\ i \in Nat /\ req[r].seen \in 0 .. MaxLikes
  BY <1>1 DEF RejectCommit, At, IInv, LocalsOK, RejectLocals, RequestType, LikeHeld
<1>3. PICK o \in likes : LikeAt(i) = {o} /\ o.id = i
  BY <1>2 DEF LikeAt, IInv, IdsFresh
<1> DEFINE n == [o EXCEPT !.rejected = TRUE]
<1>4. /\ n \in LikeType /\ n.id = o.id /\ n.user = o.user /\ n.ad = o.ad
      /\ n.match = o.match
  BY <1>1 DEF LikeType
<1>5. /\ likes' = (likes \ {o}) \union {n}
      /\ cooling' = cooling \union {i}
      /\ stats' = [stats EXCEPT ![u] = Credited(req[r].user, req[r].seen, stats[u])]
      /\ req' = [req EXCEPT ![r] = Idle]
      /\ UNCHANGED <<chats, nextLike, nextChat, cron>>
  BY <1>1, <1>2, <1>3 DEF RejectCommit, Finish
<1> HIDE DEF n
<1>6. stats' \in [WithStats -> 0 .. MaxLikes]
  <2>1. Credited(req[r].user, req[r].seen, stats[u]) \in 0 .. MaxLikes
    BY <1>1, <1>2, LimitAssumption DEF Credited
  <2> QED
    BY <1>1, <1>5, <2>1
<1>7. /\ LocalsOK' /\ Idle \in RequestType /\ Holds(r)' = {}
      /\ likes' \subseteq LikeType /\ OneLikePerUserAd'
      /\ \A l \in likes' : l.id < nextLike'
      /\ \A k, l \in likes' : k.id = l.id => k = l
  BY <1>4, <1>5, FlagStep
<1>8. IdsFresh'
  BY <1>5, <1>7 DEF IdsFresh, IInv
<1>9. MatchedLikeHasChat'
  BY <1>4, <1>5 DEF MatchedLikeHasChat, IInv
<1>10. cooling' \subseteq Nat
  BY <1>1, <1>2, <1>5
<1> HIDE DEF i, u
<1> QED
  BY <1>1, <1>5, <1>6, <1>7, <1>8, <1>9, <1>10, WriteStep

LEMMA MatchCommitStep ==
  ASSUME IInv, NEW r \in Requests, MatchCommit(r)
  PROVE  IInv'
<1> DEFINE i == req[r].like
           new == [id |-> nextChat, ad |-> req[r].ad, like |-> i,
                   author |-> req[r].user, liker |-> req[r].peer]
<1>1. /\ likes \subseteq LikeType /\ cooling \subseteq Nat /\ chats \subseteq ChatType
      /\ nextLike \in Nat \ {0} /\ nextChat \in Nat \ {0}
      /\ req \in [Requests -> RequestType]
      /\ stats \in [WithStats -> 0 .. MaxLikes]
  BY DEF IInv, TypeOK, BalanceBounded
<1>2. /\ req[r].pc = "commitMatch" /\ LikeAt(i) # {} /\ i \in Nat
      /\ req[r].user \in Users /\ req[r].peer \in Users /\ req[r].ad \in Ads
      /\ \A l \in LikeAt(i) : l.user = req[r].peer /\ l.ad = req[r].ad
  BY <1>1 DEF MatchCommit, At, IInv, LocalsOK, MatchLocals, MatchSteps, RequestType, LikeHeld
<1>3. PICK o \in likes : LikeAt(i) = {o} /\ o.id = i
  BY <1>2 DEF LikeAt, IInv, IdsFresh
<1> DEFINE n == [o EXCEPT !.match = TRUE]
<1>4. n \in LikeType /\ n.id = o.id /\ n.user = o.user /\ n.ad = o.ad
  BY <1>1 DEF LikeType
<1>5. /\ likes' = (likes \ {o}) \union {n}
      /\ cooling' \subseteq cooling \union {i}
      /\ chats' = chats \union {new} /\ nextChat' = nextChat + 1
      /\ req' = [req EXCEPT ![r] = Idle]
      /\ UNCHANGED <<stats, nextLike, cron>>
  BY <1>1, <1>2, <1>3 DEF MatchCommit, Finish
<1>6. /\ new \in ChatType /\ new.id = nextChat /\ new.like = i
      /\ new.ad = req[r].ad /\ new.liker = req[r].peer
  BY <1>1, <1>2 DEF ChatType
<1> HIDE DEF n, new
<1>7. /\ LocalsOK' /\ Idle \in RequestType /\ Holds(r)' = {}
      /\ likes' \subseteq LikeType /\ OneLikePerUserAd'
      /\ \A l \in likes' : l.id < nextLike'
      /\ \A k, l \in likes' : k.id = l.id => k = l
  BY <1>4, <1>5, FlagStep
<1>8. IdsFresh'
  <2>1. \A c \in chats : c.id \in Nat /\ c.id < nextChat
    BY <1>1 DEF IdsFresh, IInv, ChatType
  <2> QED
    BY <1>1, <1>5, <1>6, <1>7, <2>1 DEF IdsFresh
<1>9. MatchedLikeHasChat'
  <2>1. \A l \in likes : l.match =>
          \E c \in chats : c.like = l.id /\ c.ad = l.ad /\ c.liker = l.user
    BY DEF MatchedLikeHasChat, IInv
  <2>2. o.user = req[r].peer /\ o.ad = req[r].ad
    BY <1>2, <1>3
  <2> QED
    BY <1>3, <1>4, <1>5, <1>6, <2>1, <2>2 DEF MatchedLikeHasChat
<1>10. cooling' \subseteq Nat /\ chats' \subseteq ChatType /\ nextChat' \in Nat \ {0}
  BY <1>1, <1>2, <1>5, <1>6
<1> HIDE DEF i
<1> QED
  BY <1>1, <1>5, <1>7, <1>8, <1>9, <1>10, WriteStep

-----------------------------------------------------------------------------
(* The refill job, the clock and the crash.                                *)
LEMMA EnvironmentSteps ==
  ASSUME IInv
  PROVE  /\ CronStart => IInv'
         /\ CronFetch => IInv'
         /\ CronRefill => IInv'
         /\ CronFails => IInv'
         /\ CooldownEnds => IInv'
         /\ Crash => IInv'
<1>0. /\ likes \subseteq LikeType /\ cooling \subseteq Nat /\ chats \subseteq ChatType
      /\ nextLike \in Nat \ {0} /\ nextChat \in Nat \ {0}
      /\ req \in [Requests -> RequestType]
      /\ stats \in [WithStats -> 0 .. MaxLikes]
  BY DEF IInv, TypeOK, BalanceBounded
<1>a. cron \in CronType
  BY DEF IInv, TypeOK
<1>b. ASSUME UNCHANGED <<likes, chats, nextLike, nextChat, req>>,
             cooling' \subseteq cooling, stats' \in [WithStats -> 0 .. MaxLikes],
             cron' \in CronType
      PROVE  IInv'
  <2>1. TypeOK' /\ BalanceBounded'
    BY <1>0, <1>b, LimitAssumption DEF TypeOK, BalanceBounded
  <2>2. LocksExclusive'
    BY <1>b DEF IInv, LocksExclusive, Holds
  <2>3. LocalsOK'
    BY <1>b DEF IInv, LocalsOK, SendLocals, DismissLocals, RejectLocals, MatchLocals,
                LikesOf, LikeAt
  <2>4. IdsFresh' /\ OneLikePerUserAd' /\ MatchedLikeHasChat'
    BY <1>b DEF IInv, IdsFresh, OneLikePerUserAd, MatchedLikeHasChat
  <2> QED
    BY <2>1, <2>2, <2>3, <2>4 DEF IInv
<1>d. Abandoned \in CronType
  BY <1>a DEF Abandoned, CronType
<1>1. ASSUME CronStart PROVE IInv'
  BY <1>0, <1>1, <1>b DEF CronStart, CronType, tables
<1>2. ASSUME CronFetch PROVE IInv'
  <2>1. Page(cron.last) \subseteq WithStats
    BY DEF Page, RowsAfter
  <2>2. cron' \in CronType
    BY <1>2, <1>a, <2>1 DEF CronFetch, CronType
  <2> QED
    BY <1>0, <1>2, <1>b, <2>2 DEF CronFetch, tables
<1>3. ASSUME CronRefill PROVE IInv'
  <2>1. PICK u \in cron.batch :
          /\ stats' = [stats EXCEPT ![u] = MaxLikes]
          /\ cron' = [cron EXCEPT !.batch = @ \ {u}, !.last = StatsId[u],
                                  !.done = @ \union {u}]
          /\ UNCHANGED <<likes, cooling, chats, nextLike, nextChat, req>>
    BY <1>3 DEF CronRefill
  <2>2. u \in WithStats /\ StatsId[u] \in Nat
    BY <1>a, StatsAssumption DEF CronType
  <2>3. cron' \in CronType
    BY <1>a, <2>1, <2>2 DEF CronType
  <2>a. MaxLikes \in 0 .. MaxLikes
    BY LimitAssumption
  <2>4. stats' \in [WithStats -> 0 .. MaxLikes]
    BY <1>0, <2>1, <2>2, <2>a
  <2> QED
    BY <1>b, <2>1, <2>3, <2>4
<1>6. ASSUME CronFails PROVE IInv'
  BY <1>0, <1>6, <1>b, <1>d DEF CronFails, tables
<1>4. ASSUME CooldownEnds PROVE IInv'
  BY <1>0, <1>4, <1>b DEF CooldownEnds, IInv, TypeOK
<1>5. ASSUME Crash PROVE IInv'
  <2>1. req' = [r \in Requests |-> Idle] /\ UNCHANGED tables /\ cron' \in CronType
    BY <1>5, <1>a, <1>d DEF Crash
  <2>a. ASSUME NEW s \in Requests
        PROVE  Agrees(req[s])'
    <3>1. req'[s] = Idle
      BY <2>1
    <3> QED
      BY <3>1, IdleAgrees DEF Agrees
  <2>2. Idle \in RequestType /\ Idle.pc = "idle"
    BY IdleAgrees DEF Agrees, Idle
  <2>3. LocalsOK' /\ req' \in [Requests -> RequestType]
    BY <2>1, <2>a, <2>2 DEF LocalsOK, Agrees
  <2>4. LocksExclusive'
    BY <2>1, <2>2 DEF LocksExclusive, Holds, CallerStatsHeld, PeerStatsHeld, LikeHeld
  <2>5. TypeOK' /\ BalanceBounded'
    BY <1>0, <2>1, <2>3, LimitAssumption DEF TypeOK, BalanceBounded, tables
  <2>6. IdsFresh' /\ OneLikePerUserAd' /\ MatchedLikeHasChat'
    BY <2>1 DEF tables, IInv, IdsFresh, OneLikePerUserAd, MatchedLikeHasChat
  <2> QED
    BY <2>3, <2>4, <2>5, <2>6 DEF IInv
<1> QED
  BY <1>1, <1>2, <1>3, <1>4, <1>5, <1>6

-----------------------------------------------------------------------------
LEMMA InitInv == Init => IInv
<1> SUFFICES ASSUME Init PROVE IInv
  OBVIOUS
<1>1. Idle \in RequestType /\ Idle.pc = "idle"
  BY IdleAgrees DEF Agrees, Idle
<1>2. LocalsOK
  BY IdleAgrees DEF Init, LocalsOK, Agrees
<1>3. LocksExclusive
  BY <1>1 DEF Init, LocksExclusive, Holds, CallerStatsHeld, PeerStatsHeld, LikeHeld
<1>4. TypeOK /\ BalanceBounded
  BY <1>1, LimitAssumption DEF Init, TypeOK, BalanceBounded, CronType
<1>5. IdsFresh /\ OneLikePerUserAd /\ MatchedLikeHasChat
  BY DEF Init, IdsFresh, OneLikePerUserAd, MatchedLikeHasChat
<1> QED
  BY <1>2, <1>3, <1>4, <1>5 DEF IInv

LEMMA NextInv == IInv /\ [Next]_vars => IInv'
<1> SUFFICES ASSUME IInv, [Next]_vars PROVE IInv'
  OBVIOUS
<1>1. ASSUME NEW r \in Requests, Send(r) \/ Dismiss(r) \/ Reject(r) \/ Match(r)
      PROVE  IInv'
  BY <1>1, SendLocalSteps, DismissLocalSteps, RejectLocalSteps, MatchLocalSteps
<1>2. ASSUME NEW r \in Requests, Step(r)
      PROVE  IInv'
  BY <1>2, SendLocalSteps, DismissLocalSteps, RejectLocalSteps, MatchLocalSteps,
     SendCommitStep, DismissDestroyStep, DismissRefundStep, RejectCommitStep, MatchCommitStep
     DEF Step
<1>3. ASSUME NEW r \in Requests, DeadlockAbort(r)
      PROVE  IInv'
  BY <1>3, FinishStep DEF DeadlockAbort
<1>4. CASE CronStart \/ CronFetch \/ CronRefill \/ CronFails \/ CooldownEnds \/ Crash
  BY <1>4, EnvironmentSteps
<1>5. CASE UNCHANGED vars
  <2>1. UNCHANGED <<likes, cooling, chats, stats, nextLike, nextChat, req, cron>>
    BY <1>5 DEF vars
  <2>2. TypeOK' /\ BalanceBounded'
    BY <2>1 DEF IInv, TypeOK, BalanceBounded
  <2>3. LocksExclusive'
    BY <2>1 DEF IInv, LocksExclusive, Holds
  <2>4. LocalsOK'
    BY <2>1 DEF IInv, LocalsOK, SendLocals, DismissLocals, RejectLocals, MatchLocals,
                LikesOf, LikeAt
  <2>5. IdsFresh' /\ OneLikePerUserAd' /\ MatchedLikeHasChat'
    BY <2>1 DEF IInv, IdsFresh, OneLikePerUserAd, MatchedLikeHasChat
  <2> QED
    BY <2>2, <2>3, <2>4, <2>5 DEF IInv
<1> QED
  BY <1>1, <1>2, <1>3, <1>4, <1>5 DEF Next

(* Whatever the number of users, ads and concurrent calls: the tables and  *)
(* the locals of every handler keep their types.                           *)
THEOREM TypeCorrect == Spec => []TypeOK
<1>1. IInv => TypeOK
  BY DEF IInv
<1> QED
  BY <1>1, InitInv, NextInv, PTL DEF Spec

(* Balances computed from stale reads never leave 0 .. MaxLikes.           *)
THEOREM BalanceStaysBounded == Spec => []BalanceBounded
<1>1. IInv => BalanceBounded
  BY DEF IInv
<1> QED
  BY <1>1, InitInv, NextInv, PTL DEF Spec

(* Concurrent sends of a user for an ad leave one like.                    *)
THEOREM LikeIsUnique == Spec => []OneLikePerUserAd
<1>1. IInv => OneLikePerUserAd
  BY DEF IInv
<1> QED
  BY <1>1, InitInv, NextInv, PTL DEF Spec

(* A match never exists without its chat, whatever fails on the way.       *)
THEOREM MatchComesWithChat == Spec => []MatchedLikeHasChat
<1>1. IInv => MatchedLikeHasChat
  BY DEF IInv
<1> QED
  BY <1>1, InitInv, NextInv, PTL DEF Spec

(* Two open transactions never hold the same row.                          *)
THEOREM LocksStayExclusive == Spec => []LocksExclusive
<1>1. IInv => LocksExclusive
  BY DEF IInv
<1> QED
  BY <1>1, InitInv, NextInv, PTL DEF Spec

-----------------------------------------------------------------------------
(* The refill job: what it has done is all that comes up to the last row it *)
(* has come to, and what it has left of its page is what comes next, with   *)
(* no row of the table in between.                                          *)
CronOK ==
  /\ cron.done = {u \in WithStats : StatsId[u] <= cron.last}
  /\ cron.end = "complete" => cron.done = WithStats
  /\ cron.batch # {} => cron.on
  /\ cron.on => cron.end = "none"
  /\ cron.batch \subseteq RowsAfter(cron.last)
  /\ \A u \in cron.batch : \A v \in RowsAfter(cron.last) :
       StatsId[v] <= StatsId[u] => v \in cron.batch

LEMMA StatsIds ==
  /\ WithStats \subseteq Users /\ IsFiniteSet(WithStats)
  /\ \A u \in WithStats : StatsId[u] \in Nat \ {0}
  /\ \A u, v \in WithStats : StatsId[u] = StatsId[v] => u = v
BY StatsAssumption

(* A page has no holes, and it is empty only when no row is left.           *)
LEMMA PageHasNoHoles ==
  ASSUME NEW i \in Nat, NEW u \in Page(i), NEW v \in RowsAfter(i), StatsId[v] <= StatsId[u]
  PROVE  v \in Page(i)
<1> DEFINE Less(w) == {x \in RowsAfter(i) : StatsId[x] < StatsId[w]}
<1>1. RowsAfter(i) \subseteq WithStats /\ u \in RowsAfter(i)
  BY DEF Page, RowsAfter
<1>2. StatsId[u] \in Nat /\ StatsId[v] \in Nat /\ \A x \in RowsAfter(i) : StatsId[x] \in Nat
  BY <1>1, StatsIds
<1>3. Less(v) \subseteq Less(u)
  BY <1>2
<1>4. IsFiniteSet(Less(u))
  BY <1>1, StatsIds, FS_Subset
<1>5. /\ Cardinality(Less(v)) \in Nat /\ Cardinality(Less(u)) \in Nat
      /\ Cardinality(Less(v)) <= Cardinality(Less(u))
  BY <1>3, <1>4, FS_Subset, FS_CardinalityType
<1>6. Cardinality(Less(u)) < BatchSize
  BY DEF Page
<1>7. Cardinality(Less(v)) < BatchSize
  <2> HIDE DEF Less
  <2> QED
    BY <1>5, <1>6, LimitAssumption
<1> QED
  BY <1>7 DEF Page

LEMMA LeastNumber ==
  ASSUME NEW S \in SUBSET Nat, S # {}
  PROVE  \E i \in S : \A j \in S : i <= j
<1>1. PICK i \in S : \A j \in S : ~ (<<j, i>> \in OpToRel(<, Nat))
  BY NatLessThanWellFounded, WFMin
<1>2. \A j \in S : ~ (j < i)
  BY <1>1 DEF OpToRel
<1> QED
  BY <1>2

LEMMA LastPage ==
  ASSUME NEW i \in Nat, Page(i) = {}
  PROVE  RowsAfter(i) = {}
<1> SUFFICES ASSUME RowsAfter(i) # {} PROVE FALSE
  OBVIOUS
<1> DEFINE ids == {StatsId[x] : x \in RowsAfter(i)}
<1>1. ids \in SUBSET Nat /\ ids # {}
  BY StatsIds DEF RowsAfter
<1>2. PICK n \in ids : \A m \in ids : n <= m
  <2> HIDE DEF ids
  <2> QED
    BY <1>1, LeastNumber
<1>3. PICK u \in RowsAfter(i) : n = StatsId[u]
  BY <1>2
<1>4. {x \in RowsAfter(i) : StatsId[x] < StatsId[u]} = {}
  BY <1>1, <1>2, <1>3
<1>5. Cardinality({x \in RowsAfter(i) : StatsId[x] < StatsId[u]}) < BatchSize
  BY <1>4, FS_EmptySet, LimitAssumption
<1> QED
  BY <1>5 DEF Page

LEMMA CronSteps ==
  ASSUME TypeOK, CronOK
  PROVE  /\ CronStart => CronOK'
         /\ CronFetch => CronOK'
         /\ CronRefill => CronOK'
         /\ cron' = Abandoned => CronOK'
<1>1. /\ cron.on \in BOOLEAN /\ cron.last \in Nat
      /\ cron.batch \subseteq WithStats /\ cron.done \subseteq WithStats
      /\ cron = [on |-> cron.on, end |-> cron.end, last |-> cron.last, batch |-> cron.batch,
                 done |-> cron.done]
  BY DEF TypeOK, CronType
<1>2. ASSUME CronStart PROVE CronOK'
  <2>1. cron' = [on |-> TRUE, end |-> "none", last |-> 0, batch |-> {}, done |-> {}]
    BY <1>2 DEF CronStart
  <2>2. {u \in WithStats : StatsId[u] <= 0} = {}
    BY StatsIds
  <2> QED
    BY <2>1, <2>2 DEF CronOK
<1>3. ASSUME CronFetch PROVE CronOK'
  <2>1. cron.on /\ cron.batch = {} /\ cron.end = "none"
        /\ cron.done = {u \in WithStats : StatsId[u] <= cron.last}
    BY <1>3 DEF CronFetch, CronOK
  <2>2. CASE Page(cron.last) = {}
    <3>1. cron' = [on |-> FALSE, end |-> "complete", last |-> cron.last, batch |-> {},
                   done |-> cron.done]
      BY <1>1, <1>3, <2>1, <2>2 DEF CronFetch
    <3>2. RowsAfter(cron.last) = {}
      BY <1>1, <2>2, LastPage
    <3>3. cron.done = WithStats
      BY <1>1, <2>1, <3>2, StatsIds DEF RowsAfter
    <3> QED
      BY <3>1, <3>3 DEF CronOK
  <2>3. CASE Page(cron.last) # {}
    <3>1. cron' = [on |-> TRUE, end |-> cron.end, last |-> cron.last, batch |-> Page(cron.last),
                   done |-> cron.done]
      BY <1>1, <1>3, <2>1, <2>3 DEF CronFetch
    <3>2. Page(cron.last) \subseteq RowsAfter(cron.last)
      BY DEF Page
    <3>3. \A u \in Page(cron.last) : \A v \in RowsAfter(cron.last) :
            StatsId[v] <= StatsId[u] => v \in Page(cron.last)
      BY <1>1, PageHasNoHoles
    <3> QED
      BY <2>1, <3>1, <3>2, <3>3 DEF CronOK, RowsAfter, Page
  <2> QED
    BY <2>2, <2>3
<1>4. ASSUME CronRefill PROVE CronOK'
  <2>1. PICK u \in cron.batch :
          /\ \A v \in cron.batch : StatsId[u] <= StatsId[v]
          /\ cron' = [cron EXCEPT !.batch = @ \ {u}, !.last = StatsId[u], !.done = @ \union {u}]
    BY <1>4 DEF CronRefill
  <2>2. cron' = [on |-> cron.on, end |-> cron.end, last |-> StatsId[u],
                 batch |-> cron.batch \ {u}, done |-> cron.done \union {u}]
    BY <1>1, <2>1
  <2>3. /\ cron.on = TRUE /\ cron.end = "none"
        /\ u \in RowsAfter(cron.last) /\ cron.batch \subseteq RowsAfter(cron.last)
        /\ cron.done = {v \in WithStats : StatsId[v] <= cron.last}
    BY <1>1, <2>1 DEF CronOK
  <2>4. \A v \in WithStats : StatsId[v] \in Nat
    BY StatsIds
  <2>5. \A v \in RowsAfter(cron.last) : StatsId[v] <= StatsId[u] => v = u
    <3> SUFFICES ASSUME NEW v \in RowsAfter(cron.last), StatsId[v] <= StatsId[u] PROVE v = u
      OBVIOUS
    <3>1. v \in cron.batch
      BY <2>1 DEF CronOK
    <3>2. StatsId[v] = StatsId[u]
      BY <1>1, <2>1, <2>4, <3>1
    <3> QED
      BY <1>1, <2>1, <3>1, <3>2, StatsIds
  <2>6. cron.done \union {u} = {v \in WithStats : StatsId[v] <= StatsId[u]}
    BY <1>1, <2>3, <2>4, <2>5 DEF RowsAfter
  <2>7. RowsAfter(StatsId[u]) = RowsAfter(cron.last) \ {u}
    BY <1>1, <2>3, <2>4, <2>5 DEF RowsAfter
  <2>8. cron'.batch \subseteq RowsAfter(cron'.last)
    BY <2>2, <2>3, <2>7
  <2>9. \A v \in cron'.batch : \A w \in RowsAfter(cron'.last) :
          StatsId[w] <= StatsId[v] => w \in cron'.batch
    BY <2>2, <2>7 DEF CronOK
  <2>10. RowsAfter(cron.last)' = RowsAfter(cron'.last)
    BY DEF RowsAfter
  <2> QED
    BY <2>2, <2>3, <2>6, <2>8, <2>9, <2>10 DEF CronOK
<1>5. ASSUME cron' = Abandoned PROVE CronOK'
  <2>1. cron' = [on |-> FALSE, end |-> "failed", last |-> cron.last, batch |-> {},
                 done |-> cron.done]
    BY <1>1, <1>5 DEF Abandoned
  <2> QED
    BY <2>1 DEF CronOK
<1> QED
  BY <1>2, <1>3, <1>4, <1>5

LEMMA CronInvariance == Spec => []CronOK
<1>1. Init => CronOK
  <2>1. {u \in WithStats : StatsId[u] <= 0} = {}
    BY StatsIds
  <2> QED
    BY <2>1 DEF Init, CronOK
<1>2. TypeOK /\ CronOK /\ [Next]_vars => CronOK'
  <2> SUFFICES ASSUME TypeOK, CronOK, [Next]_vars PROVE CronOK'
    OBVIOUS
  <2>1. ASSUME cron' = cron PROVE CronOK'
    BY <2>1 DEF CronOK, RowsAfter
  <2>2. ASSUME NEW r \in Requests, Send(r) \/ Dismiss(r) \/ Reject(r) \/ Match(r) \/ DeadlockAbort(r)
        PROVE  cron' = cron
    BY <2>2 DEF Send, Dismiss, Reject, Match, DeadlockAbort, Call
  <2>3. ASSUME NEW r \in Requests, Step(r) PROVE cron' = cron
    BY <2>3 DEF Step, Advance, SendCheckCooldown, SendReadBalance, SendCheckExisting,
       SendCharge, SendInsert, SendCommit, DismissReadStats, DismissDestroy, DismissRefund,
       RejectMark, RejectReadAuthor, RejectCredit, RejectCommit,
       MatchMark, MatchOpenChat, MatchTouchAuthor, MatchTouchLiker, MatchCommit
  <2>4. CASE CooldownEnds \/ UNCHANGED vars
    BY <2>1, <2>4 DEF CooldownEnds, vars
  <2>5. CASE Crash \/ CronFails
    BY <2>1, <2>5, CronSteps DEF Crash, CronFails
  <2> QED
    BY <2>1, <2>2, <2>3, <2>4, <2>5, CronSteps DEF Next
<1> QED
  BY <1>1, <1>2, TypeCorrect, PTL DEF Spec

(* Page by page and row by row, whatever runs beside it, the refill job ends *)
(* without an error only when it has refilled every row, and whenever it     *)
(* fails or dies has refilled all rows up to one of them, and none after it. *)
THEOREM RefillIsComplete == Spec => []RefillCoversEveryRow
<1>1. CronOK => RefillCoversEveryRow
  BY DEF CronOK, RefillCoversEveryRow
<1> QED
  BY <1>1, CronInvariance, PTL

-----------------------------------------------------------------------------
(* A chat has the number of a like that was there, and if it still is, that *)
(* like is a match.                                                         *)
ChatsOK == \A c \in chats : c.like < nextLike /\
  \A l \in likes : l.id = c.like => l.match /\ l.ad = c.ad /\ l.user = c.liker

LEMMA SendStands ==
  ASSUME IInv, ChatsOK, NEW r \in Requests, SendCommit(r)
  PROVE  /\ ChatsOK' /\ chats \subseteq chats'
         /\ \A k \in likes, l \in likes' : k.id = l.id => l = k
<1> DEFINE new == [id |-> nextLike, user |-> req[r].user, ad |-> req[r].ad,
                   rejected |-> FALSE, match |-> FALSE]
<1>1. likes' = likes \union {new} /\ nextLike' = nextLike + 1 /\ chats' = chats
  BY DEF SendCommit
<1>2. \A l \in likes : l.id < nextLike /\ l.id \in Nat
  BY DEF IInv, IdsFresh, TypeOK, LikeType
<1>3. new.id = nextLike /\ nextLike \in Nat
  BY DEF IInv, TypeOK
<1>4. \A k, l \in likes : k.id = l.id => k = l
  BY DEF IInv, IdsFresh
<1>5. \A c \in chats : c.like \in Nat
  BY DEF IInv, TypeOK, ChatType
<1> HIDE DEF new
<1> QED
  BY <1>1, <1>2, <1>3, <1>4, <1>5 DEF ChatsOK

LEMMA RejectStands ==
  ASSUME IInv, ChatsOK, NEW r \in Requests, RejectCommit(r)
  PROVE  /\ ChatsOK' /\ chats \subseteq chats'
         /\ \A k \in likes, l \in likes' : k.id = l.id =>
              /\ k.user = l.user /\ k.ad = l.ad
              /\ (k.match => l.match) /\ (k.rejected => l.rejected)
<1>1. /\ likes' = (likes \ LikeAt(req[r].like))
                  \union {[l EXCEPT !.rejected = TRUE] : l \in LikeAt(req[r].like)}
      /\ UNCHANGED <<chats, nextLike>>
  BY DEF RejectCommit
<1>2. \A l \in likes' : \E k \in likes : l = k \/ l = [k EXCEPT !.rejected = TRUE]
  BY <1>1 DEF LikeAt
<1>3. \A l \in likes' : \E k \in likes :
        /\ k.id = l.id /\ k.user = l.user /\ k.ad = l.ad
        /\ (k.match => l.match) /\ (k.rejected => l.rejected)
  BY <1>2 DEF IInv, TypeOK, LikeType
<1>4. \A k, l \in likes : k.id = l.id => k = l
  BY DEF IInv, IdsFresh
<1> QED
  BY <1>1, <1>3, <1>4 DEF ChatsOK

LEMMA MatchStands ==
  ASSUME IInv, ChatsOK, NEW r \in Requests, MatchCommit(r)
  PROVE  /\ ChatsOK' /\ chats \subseteq chats'
         /\ \A k \in likes, l \in likes' : k.id = l.id =>
              /\ k.user = l.user /\ k.ad = l.ad
              /\ (k.match => l.match) /\ (k.rejected => l.rejected)
<1> DEFINE chat == [id |-> nextChat, ad |-> req[r].ad, like |-> req[r].like,
                    author |-> req[r].user, liker |-> req[r].peer]
<1>1. /\ likes' = (likes \ LikeAt(req[r].like))
                  \union {[l EXCEPT !.match = TRUE] : l \in LikeAt(req[r].like)}
      /\ chats' = chats \union {chat} /\ nextLike' = nextLike
  BY DEF MatchCommit
<1>2. \A l \in likes' : \E k \in likes :
        l = [k EXCEPT !.match = TRUE] \/ (l = k /\ k.id # req[r].like)
  BY <1>1 DEF LikeAt
<1>3. \A l \in likes' : \E k \in likes :
        /\ k.id = l.id /\ k.user = l.user /\ k.ad = l.ad
        /\ (k.match => l.match) /\ (k.rejected => l.rejected)
        /\ (l.id = req[r].like => l.match)
  BY <1>2 DEF IInv, TypeOK, LikeType
<1>4. \A k, l \in likes : k.id = l.id => k = l
  BY DEF IInv, IdsFresh
<1>5. /\ req[r].like < nextLike
      /\ \A l \in likes : l.id = req[r].like => l.user = req[r].peer /\ l.ad = req[r].ad
  BY DEF MatchCommit, At, IInv, LocalsOK, MatchLocals, MatchSteps, LikeAt
<1>6. chat.like = req[r].like /\ chat.ad = req[r].ad /\ chat.liker = req[r].peer
  OBVIOUS
<1> HIDE DEF chat
<1>7. \A k \in likes, l \in likes' : k.id = l.id =>
        /\ k.user = l.user /\ k.ad = l.ad
        /\ (k.match => l.match) /\ (k.rejected => l.rejected)
        /\ (l.id = req[r].like => l.match)
  BY <1>3, <1>4
<1>8. ASSUME NEW c \in chats'
      PROVE  c.like < nextLike' /\
             \A l \in likes' : l.id = c.like => l.match /\ l.ad = c.ad /\ l.user = c.liker
  <2>1. CASE c \in chats
    BY <1>1, <1>3, <2>1 DEF ChatsOK
  <2>2. CASE c = chat
    BY <1>1, <1>3, <1>5, <1>6, <2>2
  <2> QED
    BY <1>1, <1>8, <2>1, <2>2
<1> QED
  BY <1>1, <1>7, <1>8 DEF ChatsOK

LEMMA StepStands ==
  ASSUME IInv, ChatsOK, [Next]_vars
  PROVE  /\ ChatsOK' /\ chats \subseteq chats'
         /\ \A k \in likes, l \in likes' : k.id = l.id =>
              /\ k.user = l.user /\ k.ad = l.ad
              /\ (k.match => l.match) /\ (k.rejected => l.rejected)
<1> DEFINE Stands == /\ ChatsOK' /\ chats \subseteq chats'
                     /\ \A k \in likes, l \in likes' : k.id = l.id =>
                          /\ k.user = l.user /\ k.ad = l.ad
                          /\ (k.match => l.match) /\ (k.rejected => l.rejected)
<1>1. \A k, l \in likes : k.id = l.id => k = l
  BY DEF IInv, IdsFresh
<1>2. ASSUME likes' \subseteq likes, chats' = chats, nextLike' = nextLike PROVE Stands
  BY <1>1, <1>2 DEF ChatsOK
<1>3. ASSUME NEW r \in Requests, Send(r) \/ Dismiss(r) \/ Reject(r) \/ Match(r) \/ DeadlockAbort(r)
      PROVE  Stands
  BY <1>2, <1>3 DEF Send, Dismiss, Reject, Match, Call, DeadlockAbort, tables
<1>4. ASSUME NEW r \in Requests, Step(r) PROVE Stands
  <2>1. CASE SendCommit(r)
    BY <2>1, SendStands
  <2>2. CASE RejectCommit(r)
    BY <2>2, RejectStands
  <2>3. CASE MatchCommit(r)
    BY <2>3, MatchStands
  <2>4. CASE DismissDestroy(r) \/ DismissRefund(r)
    <3>1. likes' \subseteq likes /\ chats' = chats /\ nextLike' = nextLike
      BY <2>4 DEF DismissDestroy, DismissRefund
    <3> QED
      BY <1>2, <3>1
  <2>5. CASE \/ SendCheckCooldown(r) \/ SendReadBalance(r) \/ SendCheckExisting(r)
             \/ SendCharge(r) \/ SendInsert(r) \/ DismissReadStats(r)
             \/ RejectMark(r) \/ RejectReadAuthor(r) \/ RejectCredit(r)
             \/ MatchMark(r) \/ MatchOpenChat(r) \/ MatchTouchAuthor(r) \/ MatchTouchLiker(r)
    <3>1. UNCHANGED tables
      BY <2>5 DEF SendCheckCooldown, SendReadBalance, SendCheckExisting, SendCharge,
         SendInsert, DismissReadStats, RejectMark, RejectReadAuthor, RejectCredit, MatchMark,
         MatchOpenChat, MatchTouchAuthor, MatchTouchLiker, Advance
    <3> QED
      BY <1>2, <3>1 DEF tables
  <2> QED
    BY <1>4, <2>1, <2>2, <2>3, <2>4, <2>5 DEF Step
<1>5. CASE CronStart \/ CronFetch \/ CronRefill \/ CronFails \/ CooldownEnds \/ Crash \/ UNCHANGED vars
  BY <1>2, <1>5 DEF CronStart, CronFetch, CronRefill, CronFails, CooldownEnds, Crash, tables, vars
<1> QED
  BY <1>3, <1>4, <1>5 DEF Next

LEMMA ChatsInvariance == Spec => [](IInv /\ ChatsOK)
<1>1. Init => ChatsOK
  BY DEF Init, ChatsOK
<1> QED
  BY <1>1, InitInv, NextInv, StepStands, PTL DEF Spec

(* The like of a chat is a match as long as it exists, whatever rejections, *)
(* other matches and new likes write meanwhile.                             *)
THEOREM ChatsAreOfMatches == Spec => []ChatOnlyOfMatch
<1>1. ChatsOK => ChatOnlyOfMatch
  BY DEF ChatsOK, ChatOnlyOfMatch, LikeAt
<1> QED
  BY <1>1, ChatsInvariance, PTL

(* Flags of likes and rows of chats agree in both directions.               *)
THEOREM MatchesAndChatsAlwaysAgree == Spec => []MatchesAndChatsAgree
<1>1. MatchedLikeHasChat /\ ChatOnlyOfMatch => MatchesAndChatsAgree
  BY DEF MatchesAndChatsAgree
<1> QED
  BY <1>1, MatchComesWithChat, ChatsAreOfMatches, PTL

(* No step of any call takes back what another one has decided: a like that *)
(* is a match or rejected stays so while it exists, and chats stay.         *)
THEOREM DecisionsAlwaysStand == Spec => DecisionsStand
<1> DEFINE Stand == /\ chats \subseteq chats'
                    /\ \A k \in likes, l \in likes' : k.id = l.id =>
                         /\ k.user = l.user /\ k.ad = l.ad
                         /\ (k.match => l.match) /\ (k.rejected => l.rejected)
<1>1. IInv /\ ChatsOK /\ [Next]_vars => [Stand]_vars
  BY StepStands
<1>2. Spec => [][Stand]_vars
  BY <1>1, ChatsInvariance, PTL DEF Spec
<1> QED
  BY <1>2 DEF DecisionsStand
=============================================================================
