-------------------------------- MODULE MCAds --------------------------------
(* A small instance of Ads and Media: u1 has a photo p1, a photo p2 yet to   *)
(* be uploaded, two ads, an image i1 sent to a chat with u2, and, with a     *)
(* message type, an image i2 in that chat and an image i3 that no message    *)
(* refers to. One request looks, the others change what it looks at.         *)
EXTENDS Ads

CONSTANTS u1, u2, u3, p1, p2, i1, i2, i3, r1, r2, r3, F, M

MCOwner   == [m \in MediaIds |-> u1]
MCMembers == [m \in {i1, i2} |-> {u1, u2}]
MCProfile == [u \in {u1, u2} |-> [sex |-> F, height |-> 2]]
MCOldAds  ==
  [i \in 1..2 |->
     [user |-> u1, status |-> "DRAFT", photos |-> {}, by |-> Nothing,
      filter |-> IF i = 1 THEN [heightFrom |-> 0, heightTo |-> 3]
                          ELSE [gender |-> {F}, heightFrom |-> 1, heightTo |-> 2]]]

GetMedia == {[op |-> "getMedia", user |-> u2, media |-> m] : m \in {p1, i2, i3}}
              \union {[op |-> "getMedia", user |-> u3, media |-> m] : m \in {i1, i2}}

(* A body that names the author and the status, one that does not, and one  *)
(* with a filter that is refused.                                           *)
CreateAdv ==
  {[op |-> "createAdv", user |-> u1, photos |-> {p1, i1}, targetFilters |-> Nothing, columns |-> c] :
     c \in {<<>>, [user |-> u2, status |-> "ACTIVE"]}}
    \union {[op |-> "createAdv", user |-> u1, photos |-> {p1, i1},
             targetFilters |-> [heightFrom |-> 3], columns |-> <<>>]}

Search == {[op |-> "getSuitableAdvertisements", user |-> u2,
            filters |-> [gender |-> {F}, heightFrom |-> 0, heightTo |-> 3]]}

Upload == [op |-> "uploadMedia", user |-> u1, media |-> p2]

ChangeMedia ==
  {[op |-> "deleteMedia", user |-> u1, media |-> p1],
   Upload,
   [op |-> "editMediaAccess", user |-> u2, accessor |-> u1, giver |-> TRUE]}
    \union {[op |-> "setMediaPrivacy", user |-> u1, media |-> m] : m \in {p1, i2}}
    \union {[op |-> "editMediaAccess", user |-> u1, accessor |-> u2, giver |-> g] : g \in BOOLEAN}

Edit(i, f, c) == [op |-> "editAdv", user |-> u1, ad |-> i, targetFilters |-> f, columns |-> c]

ChangeAd ==
  {[op |-> "publishAdv", user |-> u1, ad |-> 1],
   [op |-> "archiveAdv", user |-> u1, ad |-> 1],
   [op |-> "createAdv", user |-> u1, photos |-> {}, targetFilters |-> Nothing, columns |-> <<>>],
   Edit(3, [heightTo |-> 2], <<>>),
   Edit(1, Nothing, <<>>),
   Edit(1, Nothing, [user |-> u2, status |-> "ACTIVE"]),
   Edit(2, <<>>, [text |-> Nothing]),
   Edit(2, [heightFrom |-> 2], <<>>),
   Edit(2, [heightTo |-> 1], <<>>)}

(* r1 looks at what r2 and r3 change; r2 and r3 may change places.           *)
Pairs(C) == {<<CHOOSE g \in S : TRUE, CHOOSE h \in S : S = {CHOOSE g \in S : TRUE, h}>> :
               S \in {{g, h} : g, h \in C} \ {{Upload}}}

MCScenarios == UNION {
  {[r \in Requests |-> CASE r = r1 -> f [] r = r2 -> p[1] [] r = r3 -> p[2]] : f \in L, p \in Pairs(C)} :
    <<L, C>> \in {<<GetMedia, ChangeMedia>>, <<CreateAdv, ChangeMedia>>, <<Search, ChangeAd>>}}
=============================================================================
