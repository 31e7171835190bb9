--------------------------- MODULE LikesRefinement ---------------------------
(***************************************************************************)
(* Two more results about Likes, on top of the invariant of LikesProofs:   *)
(* the handlers, statement by statement, implement the ledger of           *)
(* indivisible operations, and only matches can deadlock.                  *)
(***************************************************************************)
EXTENDS LikesProofs

(* What IInv says of the tables and of the locals of r.                    *)
LEMMA Known ==
  ASSUME IInv, NEW r \in Requests
  PROVE  /\ likes \subseteq LikeType /\ chats \subseteq ChatType
         /\ nextLike \in Nat \ {0} /\ nextChat \in Nat \ {0}
         /\ stats \in [WithStats -> 0 .. MaxLikes]
         /\ req[r] \in RequestType
         /\ \A l \in likes : l.id < nextLike
         /\ \A k, l \in likes : k.id = l.id => k = l
         /\ \A k, l \in likes : k.user = l.user /\ k.ad = l.ad => k = l
         /\ \A c \in chats : c.id < nextChat
         /\ SendLocals(req[r]) /\ DismissLocals(req[r])
         /\ RejectLocals(req[r]) /\ MatchLocals(req[r])
         /\ req[r].pc \in LikeHeld => LikeAt(req[r].like) # {}
BY DEF IInv, TypeOK, BalanceBounded, IdsFresh, OneLikePerUserAd, LocalsOK

-----------------------------------------------------------------------------
(* The five steps that change a table, each an operation of the ledger.    *)
LEMMA CommitIsSend ==
  ASSUME IInv, NEW r \in Requests, SendCommit(r)
  PROVE  Ledger!Next
<1> DEFINE u == req[r].user
           a == req[r].ad
           new == [id |-> nextLike, user |-> u, ad |-> a, rejected |-> FALSE, match |-> FALSE]
<1>1. /\ req[r].pc = "commitSend"
      /\ likes' = likes \union {new}
      /\ stats' = [stats EXCEPT ![u] = req[r].seen - 1]
      /\ UNCHANGED chats
  BY DEF SendCommit, At
<1>2. /\ u \in WithStats /\ a \in Ads /\ Owner[a] # u
      /\ req[r].seen - 1 \in 0 .. MaxLikes - 1 /\ LikesOf(u, a) = {}
  BY <1>1, Known, LimitAssumption DEF SendLocals, SendSteps, RequestType
<1>3. ~ \E l \in likes : l.user = u /\ l.ad = a
  BY <1>2 DEF LikesOf
<1>4. nextLike \in Ledger!Ids(likes') \ Ledger!Ids(likes)
  <2>1. \A l \in likes : l.id # nextLike
    BY Known DEF LikeType
  <2>2. new.id = nextLike
    OBVIOUS
  <2> QED
    BY <1>1, <2>1, <2>2 DEF Ledger!Ids
<1>5. Ledger!Send(u, a)
  BY <1>1, <1>2, <1>3, <1>4 DEF Ledger!Send
<1> QED
  BY <1>2, <1>5 DEF Ledger!Next

LEMMA DestroyIsDismiss ==
  ASSUME IInv, NEW r \in Requests, DismissDestroy(r)
  PROVE  Ledger!Next \/ UNCHANGED Ledger!vars
<1> DEFINE gone == LikesOf(req[r].user, req[r].ad)
<1>1. likes' = likes \ gone /\ UNCHANGED <<chats, stats>>
  BY DEF DismissDestroy
<1>2. CASE gone = {}
  BY <1>1, <1>2 DEF Ledger!vars
<1>3. CASE gone # {}
  <2>1. PICK l \in likes : gone = {l}
    BY <1>3, Known DEF LikesOf
  <2>2. Ledger!Dismiss(l)
    BY <1>1, <2>1 DEF Ledger!Dismiss
  <2> QED
    BY <2>2 DEF Ledger!Next
<1> QED
  BY <1>2, <1>3

LEMMA RefundIsTopUp ==
  ASSUME IInv, NEW r \in Requests, DismissRefund(r)
  PROVE  Ledger!Next
<1>1. /\ req[r].pc = "refund" /\ UNCHANGED <<likes, chats>>
      /\ stats' = [stats EXCEPT ![req[r].user] = req[r].seen + 1]
  BY DEF DismissRefund, At
<1>2. req[r].user \in WithStats /\ req[r].seen + 1 \in 1 .. MaxLikes
  BY <1>1, Known, LimitAssumption DEF DismissLocals, RequestType
<1>3. Ledger!TopUp(req[r].user)
  BY <1>1, <1>2 DEF Ledger!TopUp
<1> QED
  BY <1>2, <1>3 DEF Ledger!Next

LEMMA CommitIsReject ==
  ASSUME IInv, NEW r \in Requests, RejectCommit(r)
  PROVE  Ledger!Next
<1>1. /\ req[r].pc = "commitReject" /\ UNCHANGED chats
      /\ likes' = (likes \ LikeAt(req[r].like))
                  \union {[l EXCEPT !.rejected = TRUE] : l \in LikeAt(req[r].like)}
      /\ stats' = [stats EXCEPT ![req[r].peer] =
                     Credited(req[r].user, req[r].seen, stats[req[r].peer])]
  BY DEF RejectCommit, At
<1>2. req[r].peer \in WithStats /\ LikeAt(req[r].like) # {}
  BY <1>1, Known DEF RejectLocals, LikeHeld
<1>3. PICK l \in likes : LikeAt(req[r].like) = {l}
  BY <1>2, Known DEF LikeAt
<1>4. l.user = req[r].peer
  BY <1>1, <1>3, Known DEF RejectLocals, RejectSteps
<1>5. Credited(req[r].user, req[r].seen, stats[req[r].peer]) \in 0 .. MaxLikes
  BY <1>2, Known, LimitAssumption DEF Credited, RequestType
<1>6. Ledger!Reject(l)
  BY <1>1, <1>2, <1>3, <1>4, <1>5 DEF Ledger!Reject
<1> QED
  BY <1>6 DEF Ledger!Next

LEMMA CommitIsMatch ==
  ASSUME IInv, NEW r \in Requests, MatchCommit(r)
  PROVE  Ledger!Next
<1> DEFINE i == req[r].like
           u == req[r].user
           new == [id |-> nextChat, ad |-> req[r].ad, like |-> i,
                   author |-> u, liker |-> req[r].peer]
<1>1. /\ req[r].pc = "commitMatch" /\ UNCHANGED stats
      /\ likes' = (likes \ LikeAt(i)) \union {[l EXCEPT !.match = TRUE] : l \in LikeAt(i)}
      /\ chats' = chats \union {new}
  BY DEF MatchCommit, At
<1>2. u \in Users /\ LikeAt(i) # {}
      /\ \A l \in LikeAt(i) : l.user = req[r].peer /\ l.ad = req[r].ad
  BY <1>1, Known DEF MatchLocals, MatchSteps, LikeHeld
<1>3. PICK l \in likes : LikeAt(i) = {l} /\ l.id = i
  BY <1>2, Known DEF LikeAt
<1>4. new = [id |-> nextChat, ad |-> l.ad, like |-> l.id, author |-> u, liker |-> l.user]
  BY <1>2, <1>3
<1>5. nextChat \in Ledger!Ids(chats') \ Ledger!Ids(chats)
  <2>1. \A c \in chats : c.id # nextChat
    BY Known DEF ChatType
  <2>2. new.id = nextChat
    OBVIOUS
  <2> QED
    BY <1>1, <2>1, <2>2 DEF Ledger!Ids
<1> HIDE DEF new
<1>6. Ledger!Match(l, u)
  BY <1>1, <1>3, <1>4, <1>5 DEF Ledger!Match
<1> QED
  BY <1>2, <1>6 DEF Ledger!Next

LEMMA RefillIsTopUp ==
  ASSUME IInv, CronRefill
  PROVE  Ledger!Next
<1>1. PICK u \in cron.batch :
        stats' = [stats EXCEPT ![u] = MaxLikes] /\ UNCHANGED <<likes, chats>>
  BY DEF CronRefill
<1>2. u \in WithStats /\ MaxLikes \in 1 .. MaxLikes
  BY LimitAssumption DEF IInv, TypeOK, CronType
<1>3. Ledger!TopUp(u)
  BY <1>1, <1>2 DEF Ledger!TopUp
<1> QED
  BY <1>2, <1>3 DEF Ledger!Next

-----------------------------------------------------------------------------
LEMMA InitSimulates == Init => Ledger!Init
BY DEF Init, Ledger!Init

LEMMA NextSimulates == IInv /\ [Next]_vars => [Ledger!Next]_(Ledger!vars)
<1> SUFFICES ASSUME IInv, [Next]_vars
             PROVE  Ledger!Next \/ UNCHANGED Ledger!vars
  OBVIOUS
<1>1. ASSUME UNCHANGED tables
      PROVE  UNCHANGED Ledger!vars
  BY <1>1 DEF tables, Ledger!vars
<1>2. ASSUME NEW r \in Requests, Send(r) \/ Dismiss(r) \/ Reject(r) \/ Match(r)
      PROVE  UNCHANGED tables
  BY <1>2 DEF Send, Dismiss, Reject, Match, Call
<1>3. ASSUME NEW r \in Requests, Step(r)
      PROVE  Ledger!Next \/ UNCHANGED Ledger!vars
  <2>1. CASE SendCommit(r)
    BY <2>1, CommitIsSend
  <2>2. CASE DismissDestroy(r)
    BY <2>2, DestroyIsDismiss
  <2>3. CASE DismissRefund(r)
    BY <2>3, RefundIsTopUp
  <2>4. CASE RejectCommit(r)
    BY <2>4, CommitIsReject
  <2>5. CASE MatchCommit(r)
    BY <2>5, CommitIsMatch
  <2>6. CASE \/ SendCheckCooldown(r) \/ SendReadBalance(r) \/ SendCheckExisting(r)
             \/ SendCharge(r) \/ SendInsert(r) \/ DismissReadStats(r)
             \/ RejectMark(r) \/ RejectReadAuthor(r) \/ RejectCredit(r)
             \/ MatchMark(r) \/ MatchOpenChat(r) \/ MatchTouchAuthor(r) \/ MatchTouchLiker(r)
    <3>1. UNCHANGED tables
      BY <2>6 DEF SendCheckCooldown, SendReadBalance, SendCheckExisting, SendCharge,
         SendInsert, DismissReadStats, RejectMark, RejectReadAuthor, RejectCredit, MatchMark,
         MatchOpenChat, MatchTouchAuthor, MatchTouchLiker, Advance
    <3> QED
      BY <1>1, <3>1
  <2> QED
    BY <1>3, <2>1, <2>2, <2>3, <2>4, <2>5, <2>6 DEF Step
<1>4. ASSUME NEW r \in Requests, DeadlockAbort(r)
      PROVE  UNCHANGED tables
  BY <1>4 DEF DeadlockAbort
<1>5. CASE CronRefill
  BY <1>5, RefillIsTopUp
<1>6. CASE CronStart \/ CronFetch \/ CronFails \/ Crash \/ UNCHANGED vars
  <2>1. UNCHANGED tables
    BY <1>6 DEF CronStart, CronFetch, CronFails, Crash, vars, tables
  <2> QED
    BY <1>1, <2>1
<1>7. CASE CooldownEnds
  BY <1>7 DEF CooldownEnds, Ledger!vars
<1> QED
  BY <1>1, <1>2, <1>3, <1>4, <1>5, <1>6, <1>7 DEF Next

(* For any number of users, ads and calls in any interleaving, and with    *)
(* deadlocks and crashes, what the tables go through is a behaviour of the *)
(* ledger: no reader ever sees the middle of a send, rejection or match.   *)
THEOREM LikesImplementLedger == Spec => LedgerImplemented
<1>1. IInv /\ [Next]_vars => [Ledger!Next]_(Ledger!vars)
  BY NextSimulates
<1> QED
  BY <1>1, InitSimulates, InitInv, NextInv, PTL DEF Spec, LedgerImplemented, Ledger!Spec

-----------------------------------------------------------------------------
(* On a cycle, every request holds a row and waits for one.                *)
LEMMA OnCycle ==
  ASSUME NEW S \in SUBSET Requests, NEW s \in S,
         (\E t \in S : WaitsFor(s, t)) /\ (\E t \in S : WaitsFor(t, s))
  PROVE  req[s].pc \in {"insert", "credit", "touchAuthor", "touchLiker"}
<1>1. Wants(s) # {} /\ Holds(s) # {}
  BY DEF WaitsFor
<1> DEFINE p == req[s].pc
<1>2. p \in {"charge", "refund", "touchAuthor", "credit", "touchLiker", "mark", "markMatch",
             "insert", "destroy"}
  BY <1>1 DEF Wants
<1>3. p \in CallerStatsHeld \union PeerStatsHeld \union LikeHeld \union {"commitSend"}
  BY <1>1 DEF Holds
<1> QED
  BY <1>2, <1>3 DEF CallerStatsHeld, PeerStatsHeld, LikeHeld

(* No set of concurrent sends, dismissals and rejections, however large,   *)
(* can wait on each other in a circle: the aborts of Postgres only ever    *)
(* hit matches.                                                            *)
LEMMA DeadlocksAreMatches == OnlyMatchesDeadlock
<1> SUFFICES ASSUME NEW r \in Requests, Deadlocked(r)
             PROVE  req[r].pc \in MatchSteps
  BY DEF OnlyMatchesDeadlock
<1>1. PICK S \in SUBSET Requests :
        /\ r \in S
        /\ \A s \in S : (\E t \in S : WaitsFor(s, t)) /\ (\E t \in S : WaitsFor(t, s))
  BY DEF Deadlocked
<1>2. \A s \in S : req[s].pc \in {"insert", "credit", "touchAuthor", "touchLiker"}
  BY <1>1, OnCycle
<1>3. ASSUME NEW s \in S, req[s].pc = "insert"
      PROVE  FALSE
  <2>1. PICK t \in S : Key(req[s].user, req[s].ad) \in Holds(t)
    BY <1>1, <1>3 DEF WaitsFor, Wants
  <2>2. req[t].pc = "commitSend"
    BY <2>1 DEF Holds, Key, StatsRow, LikeRow
  <2> QED
    BY <1>2, <2>2
<1>4. ASSUME NEW s \in S, req[s].pc = "credit"
      PROVE  FALSE
  <2>1. PICK t \in S : Wants(t) \intersect Holds(s) # {}
    BY <1>1 DEF WaitsFor
  <2>2. Holds(s) = {LikeRow(req[s].like)}
    BY <1>4 DEF Holds, CallerStatsHeld, PeerStatsHeld, LikeHeld
  <2>3. req[t].pc \in {"credit", "touchAuthor", "touchLiker"}
    BY <1>2, <1>3
  <2>4. \A x \in Wants(t) : \E u : x = StatsRow(u)
    BY <2>3 DEF Wants
  <2> QED
    BY <2>1, <2>2, <2>4 DEF StatsRow, LikeRow
<1> QED
  BY <1>1, <1>2, <1>3, <1>4 DEF MatchSteps

THEOREM SpecOnlyMatchesDeadlock == Spec => []OnlyMatchesDeadlock
<1>1. OnlyMatchesDeadlock
  BY DeadlocksAreMatches
<1> QED
  BY <1>1, PTL
=============================================================================
