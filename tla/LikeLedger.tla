----------------------------- MODULE LikeLedger -----------------------------
(***************************************************************************)
(* What the likes service promises to its callers, each business operation *)
(* being one indivisible step on the three tables it owns: likes, chats    *)
(* and the balance of likes a user may still send (user-stats).            *)
(*                                                                         *)
(* A balance written by an operation may be any legal balance: the handlers *)
(* compute it from an earlier read, so the ledger does not promise that it  *)
(* is the previous balance plus or minus one (module Likes shows why).      *)
(***************************************************************************)
EXTENDS Integers

CONSTANTS Users,      \* user ids
          Ads,        \* advertisement ids
          Owner,      \* Owner[a] is advertisement.user_id
          WithStats,  \* the users that have a user-stats row
          MaxLikes    \* the largest balance (10 in the code)

VARIABLES likes,      \* rows of the table like
          chats,      \* rows of the table chat, each with its two chat-user rows
          stats       \* stats[u] is available_likes_to_send of u's user-stats row

vars == <<likes, chats, stats>>

Like == [id : Nat, user : Users, ad : Ads, rejected : BOOLEAN, match : BOOLEAN]

\* "like" is the like the chat was opened for; the table keeps the ad and the two members.
Chat == [id : Nat, ad : Ads, like : Nat, author : Users, liker : Users]

Ids(rows) == {row.id : row \in rows}

Init ==
  /\ likes = {}
  /\ chats = {}
  /\ stats = [u \in WithStats |-> MaxLikes]

-----------------------------------------------------------------------------
(* A like is sent: it costs the sender one like of a positive balance.     *)
Send(u, a) ==
  /\ Owner[a] # u
  /\ ~ \E l \in likes : l.user = u /\ l.ad = a
  /\ \E i \in Ids(likes') \ Ids(likes) :
       likes' = likes \union {[id |-> i, user |-> u, ad |-> a,
                               rejected |-> FALSE, match |-> FALSE]}
  /\ \E b \in 0 .. MaxLikes - 1 : stats' = [stats EXCEPT ![u] = b]
  /\ UNCHANGED chats

(* The sender takes the like back; giving the like back to the balance is  *)
(* a step of its own (TopUp).                                              *)
Dismiss(l) ==
  /\ likes' = likes \ {l}
  /\ UNCHANGED <<chats, stats>>

(* The balance of u grows, by the refund of a dismissed like or the refill.*)
TopUp(u) ==
  /\ \E b \in 1 .. MaxLikes : stats' = [stats EXCEPT ![u] = b]
  /\ UNCHANGED <<likes, chats>>

(* The ad's author rejects l, which rewrites the balance of its sender.    *)
Reject(l) ==
  /\ l.user \in WithStats
  /\ likes' = (likes \ {l}) \union {[l EXCEPT !.rejected = TRUE]}
  /\ \E b \in 0 .. MaxLikes : stats' = [stats EXCEPT ![l.user] = b]
  /\ UNCHANGED chats

(* l becomes a match, and in the same step a chat opens for it.            *)
Match(l, u) ==
  /\ likes' = (likes \ {l}) \union {[l EXCEPT !.match = TRUE]}
  /\ \E i \in Ids(chats') \ Ids(chats) :
       chats' = chats \union {[id |-> i, ad |-> l.ad, like |-> l.id,
                               author |-> u, liker |-> l.user]}
  /\ UNCHANGED stats

Next ==
  \/ \E u \in WithStats, a \in Ads : Send(u, a)
  \/ \E l \in likes : Dismiss(l) \/ Reject(l) \/ \E u \in Users : Match(l, u)
  \/ \E u \in WithStats : TopUp(u)

Spec == Init /\ [][Next]_vars

-----------------------------------------------------------------------------
TypeOK ==
  /\ likes \subseteq Like
  /\ chats \subseteq Chat
  /\ stats \in [WithStats -> Int]
=============================================================================
