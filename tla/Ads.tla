--------------------------------- MODULE Ads ---------------------------------
(***************************************************************************)
(* The advertisements service (ads.service.ts) beside the media service: an *)
(* ad is created with photos of its author and a filter on the people who   *)
(* may find it, edited, published, archived, and found by a search that     *)
(* pages through the table.                                                 *)
(*                                                                          *)
(* Of a filter, a list (gender; constitution is alike) and an interval      *)
(* (height; age, gender expression and, for the validation, orientation are *)
(* alike) are modelled, of a profile what these look at. All ads are within *)
(* the distance of all searches.                                            *)
(***************************************************************************)
EXTENDS Media, Sequences, FiniteSetsExt

CONSTANTS Genders,       \* values of GendersEnum
          MinHeight,     \* the defaults of CreateAdvDTO and SuitableAdvDTO
          MaxHeight,
          Profile,       \* the profiles of the users that have one
          OldAds,        \* the ads that exist at the start
          PageSize       \* the ads a search reads at a time, 10 in the code

ASSUME AdsAssumption ==
  /\ MinHeight \in Nat /\ MaxHeight \in Nat /\ PageSize \in Nat \ {0}
  /\ DOMAIN Profile \subseteq Users

ASSUME NothingIsNoRequest == Nothing \notin Requests

VARIABLES ads,    \* the rows of the table advertisement, by their id
          nextId, \* the table's sequence of ids
          must,   \* history: ads that have matched a search ever since it began
          may     \* history: ads that have matched it at some time

adsVars == <<ads, nextId>>
vars == <<rpcVars, mediaVars, mediaHistory, adsVars, must, may>>

AdsOps == {"createAdv", "editAdv", "publishAdv", "archiveAdv", "getSuitableAdvertisements"}

AdStatuses == {"DRAFT", "ACTIVE", "ARCHIVED"}

(* A filter is a function on some of these, or Nothing (null).              *)
FilterFields == {"gender", "heightFrom", "heightTo"}

(* photos: the rows of advertisement-media; by: the request that created it *)
(* (Nothing for an old ad).                                                 *)
AdFields == {"user", "status", "filter", "photos", "by"}

Init ==
  /\ RpcInit
  /\ MediaInit
  /\ ads = OldAds
  /\ nextId = Cardinality(DOMAIN OldAds) + 1
  /\ must = [r \in Requests |-> {}]
  /\ may = [r \in Requests |-> {}]

TypeOK ==
  /\ RpcTypeOK /\ MediaTypeOK
  /\ nextId \in Nat \ {0} /\ DOMAIN ads \subseteq 1..(nextId - 1)
  /\ \A i \in DOMAIN ads :
       /\ DOMAIN ads[i] = AdFields
       /\ ads[i].user \in Users
       /\ ads[i].status \in AdStatuses
       /\ ads[i].filter = Nothing \/ DOMAIN ads[i].filter \subseteq FilterFields
       /\ ads[i].photos \subseteq rows

(* The spread of two objects.                                               *)
Spread(base, over) ==
  [f \in DOMAIN base \union DOMAIN over |-> IF f \in DOMAIN over THEN over[f] ELSE base[f]]

(* A row over which the columns are spread that a body names itself. (The   *)
(* text stands for the columns that are not modelled.)                      *)
Overwritten(row, columns) ==
  [f \in DOMAIN row |-> IF f \in DOMAIN columns THEN columns[f] ELSE row[f]]

(* The default values of the fields of AdTargetFiltersDTO.                  *)
AdTargetFiltersDTO ==
  [gender |-> Genders, heightFrom |-> MinHeight, heightTo |-> MaxHeight]

(* CreateAdvDTO: targetFilters is optional, its fields have defaults.       *)
CreateAdvDTO(targetFilters) ==
  IF targetFilters = Nothing THEN Nothing ELSE Spread(AdTargetFiltersDTO, targetFilters)

(* EditAdvDTO: what is not given stays out.                                 *)
EditAdvDTO(targetFilters) == IF targetFilters = Nothing THEN <<>> ELSE targetFilters

(* validateAdvFilter: an upper bound is at least its lower bound.           *)
validateAdvFilter(filter) ==
  {"heightFrom", "heightTo"} \subseteq DOMAIN filter => filter.heightTo >= filter.heightFrom

(* The column validates what is written, unless it is null.                 *)
FilterAccepted(filter) == filter # Nothing => validateAdvFilter(filter)

(* Ids come from a sequence; what is in the table has been accepted.        *)
ASSUME OldAdsAssumption ==
  /\ IsFiniteSet(DOMAIN OldAds) /\ DOMAIN OldAds = 1..Cardinality(DOMAIN OldAds)
  /\ \A i \in DOMAIN OldAds :
       /\ DOMAIN OldAds[i] = AdFields
       /\ OldAds[i].user \in Users
       /\ OldAds[i].status \in AdStatuses
       /\ OldAds[i].filter = Nothing \/ DOMAIN OldAds[i].filter \subseteq FilterFields
       /\ FilterAccepted(OldAds[i].filter)
       /\ OldAds[i].photos \subseteq OldMedia
       /\ OldAds[i].by = Nothing

(* What the validators of the DTOs let through. A body may also name        *)
(* columns of which its DTO knows nothing: the pipes have no whitelist, the *)
(* foreign key and the enum of the columns check the values. No body names  *)
(* an id. An upload makes an id of its own (a uuid).                        *)
ASSUME AskedAssumption == \A f \in Scenarios : \A r \in Requests :
  /\ f[r].op \in MediaOps \union AdsOps
  /\ f[r].user \in Users
  /\ f[r].op \in MediaOps \ {"editMediaAccess"} => f[r].media \in MediaIds
  /\ f[r].op = "editMediaAccess" => f[r].accessor \in Users
  /\ f[r].op = "uploadMedia" =>
       /\ f[r].media \notin OldMedia
       /\ \A q \in Requests \ {r} : f[q].op = "uploadMedia" => f[q].media # f[r].media
  /\ f[r].op = "createAdv" => f[r].photos \subseteq MediaIds
  /\ f[r].op \in {"createAdv", "editAdv"} =>
       /\ f[r].targetFilters = Nothing \/ DOMAIN f[r].targetFilters \subseteq FilterFields
       /\ DOMAIN f[r].columns \subseteq {"text", "user", "status"}
       /\ "user" \in DOMAIN f[r].columns => f[r].columns.user \in Users
       /\ "status" \in DOMAIN f[r].columns => f[r].columns.status \in AdStatuses

(* matchesMutualFilters: an empty list, a missing bound or a bound of 0     *)
(* turns its part of the filter off. Without a filter it throws.            *)
Given(filter, f) == f \in DOMAIN filter /\ filter[f] # 0

matchesMutualFilters(profile, filter) ==
  /\ ("gender" \in DOMAIN filter /\ filter.gender # {}) => profile.sex \in filter.gender
  /\ (Given(filter, "heightFrom") /\ Given(filter, "heightTo")) =>
       profile.height \in filter.heightFrom..filter.heightTo

(* The statement of getSuitableAds: ads of others whose author suits the    *)
(* search; here a bound of 0 counts. The status of the ad is not asked.     *)
Selected(r) == LET f == req[r].filters IN
  {i \in DOMAIN ads :
     LET u == ads[i].user IN
     /\ u # req[r].user /\ u \in DOMAIN Profile
     /\ ("gender" \in DOMAIN f /\ f.gender # {}) => Profile[u].sex \in f.gender
     /\ {"heightFrom", "heightTo"} \subseteq DOMAIN f =>
          Profile[u].height \in f.heightFrom..f.heightTo}

IsSearch(r) == req[r].op = "getSuitableAdvertisements" /\ req[r].user \in DOMAIN Profile

Matching(r) ==
  IF IsSearch(r)
  THEN {i \in Selected(r) : ads[i].filter # Nothing
          /\ matchesMutualFilters(Profile[req[r].user], ads[i].filter)}
  ELSE {}

Observe ==
  /\ ObserveMedia
  /\ must' = [r \in Requests |->
       CASE pc[r] = "new" -> IF Running(r)' THEN Matching(r)' ELSE {}
         [] Running(r)    -> must[r] \cap Matching(r)'
         [] OTHER         -> must[r]]
  /\ may' = [r \in Requests |-> IF Running(r)' THEN may[r] \union Matching(r)' ELSE may[r]]

(* The handlers of the api controller, without createAd's and editAd's      *)
(* check of the payload.                                                    *)
api_ads(op) == IF op = "createAdv" THEN 201 ELSE 200

(* AdsController: the service returns, or what it throws is caught.         *)
AdsController(r, outcome, result) == Finish(r, outcome, api_ads(req[r].op), result)

-----------------------------------------------------------------------------
(* Mutants of the operators below.                                          *)

\* Only the fields that are given are written.
UpdateAdMutant(r) ==
  LET i == req[r].ad  given == EditAdvDTO(req[r].targetFilters) IN
  /\ pc[r] = "editing"
  /\ IF validateAdvFilter(Spread(mem[r], given))
     THEN /\ ads' = [ads EXCEPT ![i] = Overwritten(
                      [@ EXCEPT !.filter = Spread(IF @ = Nothing THEN <<>> ELSE @, given)], req[r].columns)]
          /\ AdsController(r, Success, Nothing)
     ELSE UNCHANGED ads /\ AdsController(r, 400, Nothing)
  /\ UNCHANGED <<nextId, mediaVars>>

\* Private photos are attached too.
prepareMediaToAttachMutant(r) ==
  {m \in req[r].photos : m \in rows /\ Owner[m] = req[r].user}

\* The ad is created before its photos, without a transaction.
InsertAdMutant(r) == LET filter == CreateAdvDTO(req[r].targetFilters) IN
  /\ pc[r] = "inserting"
  /\ IF FilterAccepted(filter)
     THEN /\ nextId' = nextId + 1
          /\ ads' = [i \in DOMAIN ads \union {nextId} |-> IF i \in DOMAIN ads THEN ads[i]
                      ELSE Overwritten([user |-> req[r].user, status |-> "DRAFT", filter |-> filter,
                                        photos |-> {}, by |-> r], req[r].columns)]
          /\ GoOn(r, "attaching", [id |-> nextId, photos |-> mem[r]])
     ELSE UNCHANGED <<ads, nextId>> /\ AdsController(r, 400, Nothing)
  /\ UNCHANGED mediaVars

\* The next page begins with an offset, not after the last id.
NextPageMutant(r, last) == {i \in Selected(r) : i > last + 1}

\* The junction rows of a medium stay.
DropPhotoMutant(m) == UNCHANGED ads

-----------------------------------------------------------------------------
(* editAd of the api controller: a payload without any field goes no        *)
(* further; one whose filter is {}, or that has none, does. (That of        *)
(* createAd is never empty: CreateAdvDTO has defaults.)                     *)
Empty(r) ==
  req[r].op = "editAdv" /\ req[r].targetFilters = Nothing /\ DOMAIN req[r].columns = {}

RefuseEmpty(r) ==
  /\ pc[r] = "new"
  /\ Empty(r)
  /\ AdsController(r, 400, Nothing)
  /\ UNCHANGED <<adsVars, mediaVars>>

SendRequest(r) ==
  /\ ~ Empty(r)
  /\ Send(r)
  /\ UNCHANGED <<adsVars, mediaVars>>

(* prepareMediaToAttach: of the photos given, the author's public ones.     *)
prepareMediaToAttach(r) ==
  {m \in req[r].photos : m \in rows \ hidden /\ Owner[m] = req[r].user}

(* createAd reads the photos, then opens its transaction.                   *)
createAd(r) ==
  /\ Taken(r, "createAdv")
  /\ GoOn(r, "inserting", prepareMediaToAttach(r))
  /\ UNCHANGED <<adsVars, mediaVars>>

(* The insert, which nobody sees before the commit; its id is used up.      *)
InsertAd(r) ==
  /\ pc[r] = "inserting"
  /\ IF FilterAccepted(CreateAdvDTO(req[r].targetFilters))
     THEN nextId' = nextId + 1 /\ GoOn(r, "attaching", [id |-> nextId, photos |-> mem[r]])
     ELSE UNCHANGED nextId /\ AdsController(r, 400, Nothing)
  /\ UNCHANGED <<ads, mediaVars>>

(* The caller and DRAFT come first: the body may replace both.              *)
CommittedAd(r) ==
  [i \in DOMAIN ads \union {mem[r].id} |->
     IF i = mem[r].id
     THEN Overwritten(
            [user |-> req[r].user, status |-> "DRAFT", filter |-> CreateAdvDTO(req[r].targetFilters),
             photos |-> mem[r].photos, by |-> r], req[r].columns)
     ELSE ads[i]]

(* The junction rows and the commit, in one step: the foreign keys keep the *)
(* media until the commit. A photo that is gone makes it fail; so may any   *)
(* statement, and the transaction is rolled back. When the commit fails the *)
(* rollback throws too, whether it has taken effect or not.                 *)
AttachMedia(r) ==
  /\ pc[r] = "attaching"
  /\ \/ mem[r].photos \subseteq rows /\ ads' = CommittedAd(r) /\ AdsController(r, Success, mem[r])
     \/ UNCHANGED ads /\ AdsController(r, 400, Nothing)
     \/ mem[r].photos \subseteq rows /\ ads' \in {ads, CommittedAd(r)} /\ AdsController(r, 500, Nothing)
  /\ UNCHANGED <<nextId, mediaVars>>

-----------------------------------------------------------------------------
OwnAd(r) == req[r].ad \in DOMAIN ads /\ ads[req[r].ad].user = req[r].user

(* editAd finds the ad and keeps its filter ({...null} is {}).              *)
editAd(r) ==
  /\ Taken(r, "editAdv")
  /\ IF OwnAd(r)
     THEN LET filter == ads[req[r].ad].filter IN
          GoOn(r, "editing", IF filter = Nothing THEN <<>> ELSE filter)
     ELSE AdsController(r, 404, Nothing)
  /\ UNCHANGED <<adsVars, mediaVars>>

(* The filter that was read, with the new values over it, is validated and  *)
(* written as a whole, with the columns the body names, to the ad of that   *)
(* id, whoever its author is by now.                                        *)
UpdateAd(r) == LET filter == Spread(mem[r], EditAdvDTO(req[r].targetFilters)) IN
  /\ pc[r] = "editing"
  /\ IF validateAdvFilter(filter)
     THEN /\ ads' = [ads EXCEPT ![req[r].ad] =
                        Overwritten([@ EXCEPT !.filter = filter], req[r].columns)]
          /\ AdsController(r, Success, Nothing)
     ELSE UNCHANGED ads /\ AdsController(r, 400, Nothing)
  /\ UNCHANGED <<nextId, mediaVars>>

(* publishAdv finds the ad, whatever its status, and makes it active.       *)
publishAdv(r) ==
  /\ Taken(r, "publishAdv")
  /\ IF OwnAd(r) THEN GoOn(r, "publishing", Nothing) ELSE AdsController(r, 404, Nothing)
  /\ UNCHANGED <<adsVars, mediaVars>>

archiveAdv(r) ==
  /\ Taken(r, "archiveAdv")
  /\ IF OwnAd(r) THEN GoOn(r, "archiving", Nothing) ELSE AdsController(r, 404, Nothing)
  /\ UNCHANGED <<adsVars, mediaVars>>

SetStatus(r) ==
  /\ pc[r] \in {"publishing", "archiving"}
  /\ ads' = [ads EXCEPT ![req[r].ad].status = IF pc[r] = "publishing" THEN "ACTIVE" ELSE "ARCHIVED"]
  /\ AdsController(r, Success, Nothing)
  /\ UNCHANGED <<nextId, mediaVars>>

-----------------------------------------------------------------------------
(* getSuitableAds finds the profile of the searcher.                        *)
getSuitableAds(r) ==
  /\ Taken(r, "getSuitableAdvertisements")
  /\ IF req[r].user \in DOMAIN Profile
     THEN GoOn(r, "paging", [last |-> 0, found |-> <<>>])
     ELSE AdsController(r, 404, Nothing)
  /\ UNCHANGED <<adsVars, mediaVars>>

NextPage(r, last) == {i \in Selected(r) : i > last}

(* The first of them, in the order of their ids.                            *)
Batch(r, last) == LET rest == NextPage(r, last) IN
  {i \in rest : Cardinality({j \in rest : j <= i}) <= PageSize}

(* The order of a page.                                                     *)
ById(S) ==
  CHOOSE s \in [1..Cardinality(S) -> S] : \A j, k \in DOMAIN s : j < k => s[j] < s[k]

(* One page, of which those ads are kept whose filter the searcher matches. *)
(* A full page is followed by another.                                      *)
ReadPage(r) ==
  LET batch == Batch(r, mem[r].last)
      kept  == {i \in batch : matchesMutualFilters(Profile[req[r].user], ads[i].filter)}
      found == mem[r].found \o ById(kept)
  IN
  /\ pc[r] = "paging"
  /\ IF \E i \in batch : ads[i].filter = Nothing
     THEN AdsController(r, 500, Nothing)
     ELSE IF Cardinality(batch) = PageSize
     THEN GoOn(r, "paging", [last |-> Max(batch), found |-> found])
     ELSE AdsController(r, IF found = <<>> THEN 404 ELSE Success, found)
  /\ UNCHANGED <<adsVars, mediaVars>>

(* A statement fails before it has an effect: 400 in the try blocks of      *)
(* createAd, which the opening of the transaction precedes, and of editAd.  *)
AdsFails(r) ==
  /\ Running(r) /\ req[r].op \in AdsOps /\ pc[r] # "attaching"
  /\ \E e \in CASE pc[r] = "inserting" -> {400, 500}
              [] pc[r] = "editing"   -> {400}
              [] OTHER               -> {500} : AdsController(r, e, Nothing)
  /\ UNCHANGED <<adsVars, mediaVars>>

(* The foreign key of advertisement-media takes the junction rows of a      *)
(* medium away with it.                                                     *)
DropPhoto(m) == ads' = [i \in DOMAIN ads |-> [ads[i] EXCEPT !.photos = @ \ {m}]]

DestroyMedia(r) == destroy(r) /\ DropPhoto(req[r].media) /\ UNCHANGED nextId

-----------------------------------------------------------------------------
AdsNext(r) ==
  \/ RefuseEmpty(r) \/ SendRequest(r)
  \/ createAd(r) \/ InsertAd(r) \/ AttachMedia(r)
  \/ editAd(r) \/ UpdateAd(r)
  \/ publishAdv(r) \/ archiveAdv(r) \/ SetStatus(r)
  \/ getSuitableAds(r) \/ ReadPage(r)
  \/ AdsFails(r)
  \/ DestroyMedia(r)
  \/ MediaNext(r) /\ UNCHANGED adsVars
  \/ (authenticate(r) \/ GiveUp(r) \/ Expire(r)) /\ UNCHANGED <<adsVars, mediaVars>>

Next ==
  \/ (\E r \in Requests : AdsNext(r)) /\ Observe
  \/ Crash /\ UNCHANGED <<adsVars, mediaVars>> /\ Observe

Spec == Init /\ [][Next]_vars

-----------------------------------------------------------------------------
(* The filter of an ad is one that validateAdvFilter accepts, although it   *)
(* is put together from what an edit has read and what it is given, and     *)
(* another edit may have come between (createAd, editAd).                   *)
FilterAlwaysValid == \A i \in DOMAIN ads : FilterAccepted(ads[i].filter)

(* The photos of an ad belong to the user who has created it, and each has  *)
(* been public at some time while that request ran, whatever author and     *)
(* status bodies have given the ad then and later, and whatever has become  *)
(* of the photos (prepareMediaToAttach, createAd, editAd).                  *)
PhotosWerePublic == \A i \in DOMAIN ads : LET q == ads[i].by IN
  q # Nothing => ads[i].photos \subseteq {m \in seen[q] : Owner[m] = req[q].user}

(* A client that is told of a created ad finds it, with those of the chosen *)
(* photos that have not been deleted since; one that is told 400 has no ad  *)
(* (the transaction of createAd).                                           *)
CreateAllOrNothing == \A r \in Requests : req[r].op = "createAdv" =>
  /\ told[r] = 201 => /\ mem[r].id \in DOMAIN ads /\ ads[mem[r].id].by = r
                      /\ ads[mem[r].id].photos = mem[r].photos \cap rows
  /\ (told[r] = 400 /\ pc[r] = "done") => \A i \in DOMAIN ads : ads[i].by # r

(* A search returns each ad once, every one that has matched since it       *)
(* began, and none that never matched while it ran, although ads are        *)
(* created and edited between its pages (getSuitableAds).                   *)
SearchExact == \A r \in Requests : IsSearch(r) =>
  /\ told[r] = 200 => LET found == mem[r] IN
       /\ must[r] \subseteq {found[k] : k \in DOMAIN found}
       /\ \A k \in DOMAIN found : found[k] \in may[r] /\ \A j \in 1..(k - 1) : found[j] < found[k]
  /\ told[r] = 404 => must[r] = {}

(* "Notice that adv could be only archived and can't be restored"           *)
(* (ads.api-interface.ts): an archived ad stays archived.                   *)
ArchivedForGood ==
  [][\A i \in DOMAIN ads : ads[i].status = "ARCHIVED" => ads'[i].status = "ARCHIVED"]_vars

Ended  == {r \in Requests : pc[r] \in {"done", "lost"}}
ToldOk == {r \in Requests : told[r] \in {200, 201, 202, 204}}

Allowed == {r \in Requests : pc[r] \in {"editing", "publishing", "archiving"}}

Board == INSTANCE AdBoard WITH allowed <- Allowed, ended <- Ended, ok <- ToldOk
(* Transactions, edits from stale reads, time limits and crashes together   *)
(* are the two-step operations of AdBoard: every change is by a request     *)
(* whose user was found to be the author while it ran, is made at most      *)
(* once, and is made if the client is told so.                              *)
BoardImplemented == Board!BoardSpec
=============================================================================
