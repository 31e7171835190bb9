------------------------------- MODULE AdBoard -------------------------------
(***************************************************************************)
(* What the clients of the advertisements service may rely on. A request    *)
(* takes effect at most once, in one step, and not after it has ended. An   *)
(* ad comes whole and stays; it loses a photo only with the medium. "ok" is *)
(* told only of a change that has been made.                                *)
(*                                                                          *)
(* Only its author changes an ad, but in two steps: a request is allowed to *)
(* when its user is found to be the author, and changes the ad later, when  *)
(* it may have another author. Nothing is said of the life cycle: whoever   *)
(* is allowed to may publish an archived ad. Ads implements this            *)
(* specification.                                                           *)
(***************************************************************************)
CONSTANTS Requests,
          Owner,     \* the owner of each medium
          OldAds     \* the ads that exist at the start

VARIABLES req,       \* what each request asks for
          ads,       \* the ads, by their id
          allowed,   \* requests whose user has been found to be the author
          ended,     \* requests that have been served, refused or lost
          ok         \* requests whose client has been told of a success

boardVars == <<req, ads, allowed, ended, ok>>

AuthorOps == {"editAdv", "publishAdv", "archiveAdv"}
ChangeOps == {"createAdv", "deleteMedia"} \union AuthorOps

BoardInit == ads = OldAds /\ allowed = {} /\ ended = {} /\ ok = {}

-----------------------------------------------------------------------------
Allow(r) ==
  /\ req[r].op \in AuthorOps /\ r \notin ended
  /\ req[r].ad \in DOMAIN ads /\ ads[req[r].ad].user = req[r].user
  /\ allowed' = allowed \union {r}
  /\ UNCHANGED <<req, ads, ended, ok>>

(* Requests end; what they were allowed to do they can do no more.          *)
End(S) == ended' = ended \union S /\ allowed' = allowed \ S /\ UNCHANGED req

(* A request ends with success; its client may have given up.               *)
Served(r) == r \notin ended /\ End({r}) /\ ok' \in {ok, ok \union {r}}

(* The author and the status of an ad are what the body of the request says *)
(* or else the default.                                                     *)
Given(r, column, default) ==
  IF column \in DOMAIN req[r].columns THEN req[r].columns[column] ELSE default

(* An ad with photos that are the caller's and were chosen.                 *)
Create(r) ==
  /\ req[r].op = "createAdv" /\ Served(r)
  /\ \E i \in DOMAIN ads' \ DOMAIN ads :
       /\ ads' = [j \in DOMAIN ads \union {i} |-> IF j = i THEN ads'[i] ELSE ads[j]]
       /\ ads'[i].user = Given(r, "user", req[r].user)
       /\ ads'[i].status = Given(r, "status", "DRAFT")
       /\ ads'[i].by = r
       /\ ads'[i].photos \subseteq {m \in req[r].photos : Owner[m] = req[r].user}

Edit(r) == LET i == req[r].ad IN
  /\ req[r].op = "editAdv" /\ r \in allowed /\ Served(r)
  /\ ads' = [ads EXCEPT ![i].filter = ads'[i].filter,
                        ![i].user = Given(r, "user", @), ![i].status = Given(r, "status", @)]

SetStatus(r) ==
  /\ req[r].op \in {"publishAdv", "archiveAdv"} /\ r \in allowed /\ Served(r)
  /\ ads' = [ads EXCEPT ![req[r].ad].status =
               IF req[r].op = "publishAdv" THEN "ACTIVE" ELSE "ARCHIVED"]

(* A medium goes, by the will of its owner.                                 *)
Detach(r) == LET m == req[r].media IN
  /\ req[r].op = "deleteMedia" /\ Served(r) /\ Owner[m] = req[r].user
  /\ ads' = [i \in DOMAIN ads |-> [ads[i] EXCEPT !.photos = @ \ {m}]]

Look(r) == req[r].op \notin ChangeOps /\ Served(r) /\ UNCHANGED ads

Refuse(r) == r \notin ended /\ End({r}) /\ UNCHANGED <<ads, ok>>

(* The process dies with the requests it was serving.                       *)
Lose == \E S \in SUBSET Requests : End(S) /\ UNCHANGED <<ads, ok>>

BoardNext ==
  \/ \E r \in Requests :
       \/ Allow(r) \/ Create(r) \/ Edit(r) \/ SetStatus(r) \/ Detach(r) \/ Look(r) \/ Refuse(r)
  \/ Lose

BoardSpec == BoardInit /\ [][BoardNext]_boardVars
=============================================================================
