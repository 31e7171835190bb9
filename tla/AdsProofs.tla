------------------------------- MODULE AdsProofs -------------------------------
(***************************************************************************)
(* Proofs about Media and Ads, for every number of users, media, ads and    *)
(* requests and whatever the requests ask for: who is given a url, how the  *)
(* rows and the files of the media agree, and what becomes of the photos    *)
(* and the filters of ads when handlers, failures and crashes interleave.   *)
(***************************************************************************)
EXTENDS Ads, FiniteSetTheorems, TLAPS

Labels == {"new", "queued", "done", "lost", "uploading", "storing", "access", "member",
           "deleting", "destroying", "toggling", "inserting", "attaching", "editing",
           "publishing", "archiving", "paging"}

(* Whoever was to create this medium is no longer at it.                    *)
Settled(m) == \A q \in Requests :
  req[q].op = "uploadMedia" /\ req[q].media = m => pc[q] \in {"done", "lost"}

(* The photos a request holds for its ad.                                   *)
Fit(r, S) == \A m \in S :
  m \in seen[r] /\ Owner[m] = req[r].user /\ Settled(m)

MayHaveUrl(r) == LET m == req[r].media IN
  /\ m \in seen[r] \/ r \in trusted
  /\ m \in ChatMedia => m \in Messages /\ req[r].user \in Members[m]

(* Which handler a label belongs to, and what the handler knows there; what *)
(* is so once a request has been told of its success.                       *)
MediaStageOK(r) ==
  /\ pc[r] \in {"uploading", "storing"} => req[r].op = "uploadMedia"
  /\ pc[r] = "storing" => req[r].media \in objects
  /\ pc[r] \in {"access", "member"} => req[r].op = "getMedia"
  /\ pc[r] = "member" => req[r].media \in seen[r] \/ r \in trusted
  /\ pc[r] \in {"deleting", "destroying"} => req[r].op = "deleteMedia" /\ Settled(req[r].media)
  /\ pc[r] = "destroying" => req[r].media \notin objects
  /\ pc[r] = "toggling" => req[r].op = "setMediaPrivacy"
  /\ (req[r].op = "getMedia" /\ told[r] = 200) => MayHaveUrl(r)
  /\ (req[r].op = "deleteMedia" /\ told[r] = 204) =>
       Settled(req[r].media) /\ req[r].media \notin rows \union objects

AdsStageOK(r) ==
  /\ pc[r] = "inserting" => req[r].op = "createAdv" /\ Fit(r, mem[r])
  /\ pc[r] = "attaching" =>
       /\ req[r].op = "createAdv" /\ Fit(r, mem[r].photos)
       /\ FilterAccepted(CreateAdvDTO(req[r].targetFilters))
       /\ mem[r].id \in 1..(nextId - 1) \ DOMAIN ads
  /\ pc[r] = "editing" =>
       req[r].op = "editAdv" /\ req[r].ad \in DOMAIN ads /\ DOMAIN mem[r] \subseteq FilterFields
  /\ pc[r] = "publishing" => req[r].op = "publishAdv" /\ req[r].ad \in DOMAIN ads
  /\ pc[r] = "archiving" => req[r].op = "archiveAdv" /\ req[r].ad \in DOMAIN ads
  /\ pc[r] = "paging" => req[r].op = "getSuitableAdvertisements" /\ req[r].user \in DOMAIN Profile
  /\ (req[r].op = "createAdv" /\ told[r] = 201) =>
       /\ mem[r].id \in DOMAIN ads /\ ads[mem[r].id].by = r
       /\ ads[mem[r].id].photos = mem[r].photos \intersect rows
       /\ Fit(r, mem[r].photos)

StageOK(r) ==
  /\ pc[r] \in Labels
  /\ pc[r] = "new" => told[r] = NoAnswer
  /\ pc[r] # "done" => told[r] \in {NoAnswer, 500}
  /\ MediaStageOK(r) /\ AdsStageOK(r)

StagesOK == \A r \in Requests : StageOK(r)

RowsSettled == \A m \in rows : Settled(m)

(* Who has left a file without a row, a row without a file.                 *)
Ill(r) == pc[r] = "lost" \/ (pc[r] = "done" /\ told[r] \in {400, 500})

LeftFile(r) == req[r].op = "uploadMedia" /\ (pc[r] = "storing" \/ Ill(r))
LeftRow(r)  == req[r].op = "deleteMedia" /\ (pc[r] = "destroying" \/ Ill(r))

StorageOK ==
  /\ \A m \in objects \ rows : \E r \in Requests : LeftFile(r) /\ req[r].media = m
  /\ \A m \in rows \ objects : \E r \in Requests : LeftRow(r) /\ req[r].media = m

(* Inserts that wait for their commit have different ids.                   *)
IdsDistinct == \A q, r \in Requests :
  (pc[q] = "attaching" /\ pc[r] = "attaching" /\ q # r) => mem[q].id # mem[r].id

(* An ad comes from a request that has ended and was not refused.           *)
AdOK(i) == LET by == ads[i].by IN
  /\ FilterAccepted(ads[i].filter)
  /\ by # Nothing =>
       /\ by \in Requests /\ pc[by] = "done" /\ told[by] \in {201, 500}
       /\ ads[i].photos \subseteq {m \in seen[by] : Owner[m] = req[by].user}

AdsOK == \A i \in DOMAIN ads : AdOK(i)

Typed == TypeOK /\ req \in Scenarios

MInv == Typed /\ StagesOK /\ RowsSettled /\ StorageOK /\ IdsDistinct /\ AdsOK

-----------------------------------------------------------------------------
LEMMA Asked ==
  ASSUME req \in Scenarios, NEW r \in Requests
  PROVE  /\ req[r].op \in MediaOps \union AdsOps
         /\ req[r].user \in Users
         /\ req[r].op \in MediaOps \ {"editMediaAccess"} => req[r].media \in MediaIds
         /\ req[r].op = "editMediaAccess" => req[r].accessor \in Users
         /\ req[r].op = "uploadMedia" =>
              /\ req[r].media \notin OldMedia
              /\ \A q \in Requests \ {r} : req[q].op = "uploadMedia" => req[q].media # req[r].media
         /\ req[r].op = "createAdv" => req[r].photos \subseteq MediaIds
         /\ req[r].op \in {"createAdv", "editAdv"} =>
              /\ req[r].targetFilters = Nothing \/ DOMAIN req[r].targetFilters \subseteq FilterFields
              /\ DOMAIN req[r].columns \subseteq {"text", "user", "status"}
              /\ "user" \in DOMAIN req[r].columns => req[r].columns.user \in Users
              /\ "status" \in DOMAIN req[r].columns => req[r].columns.status \in AdStatuses
BY AskedAssumption

(* What a request changes of the others.                                    *)
Alone(r) ==
  /\ req' = req
  /\ pc[r] \notin {"done", "lost"} /\ pc'[r] # "new"
  /\ \A q \in Requests \ {r} : pc'[q] = pc[q] /\ mem'[q] = mem[q] /\ told'[q] = told[q]

(* History grows.                                                           *)
Watched ==
  /\ seen' \in [Requests -> SUBSET MediaIds] /\ trusted' \subseteq Requests
  /\ \A q \in Requests : seen[q] \subseteq seen'[q]
  /\ trusted \subseteq trusted'

LEMMA Observed ==
  ASSUME Typed, ObserveMedia, req' = req, rows' \subseteq MediaIds
  PROVE  /\ Watched
         /\ \A q \in Requests : Running(q)' =>
              /\ MediaOf(q) \intersect (rows' \ hidden') \subseteq seen'[q]
              /\ HasAccess(q)' => q \in trusted'
<1>1. seen \in [Requests -> SUBSET MediaIds] /\ trusted \subseteq Requests
  BY DEF Typed, TypeOK, MediaTypeOK
<1>2. \A q \in Requests : MediaOf(q)' = MediaOf(q)
  BY DEF MediaOf
<1>3. ASSUME NEW q \in Requests
      PROVE  seen'[q] = IF Running(q)' THEN seen[q] \union (MediaOf(q) \intersect (rows' \ hidden')) ELSE seen[q]
  BY <1>2 DEF ObserveMedia
<1>4. seen' \in [Requests -> SUBSET MediaIds]
  <2>1. \A q \in Requests : seen'[q] \in SUBSET MediaIds
    BY <1>1, <1>3
  <2> QED
    BY <2>1 DEF ObserveMedia
<1>5. trusted' = trusted \union {q \in Requests : Running(q)' /\ HasAccess(q)'}
  BY DEF ObserveMedia
<1> QED
  BY <1>1, <1>3, <1>4, <1>5 DEF Watched

LEMMA GoesOn ==
  ASSUME Typed, NEW r \in Requests, NEW label, NEW value, GoOn(r, label, value),
         label # "new", pc[r] \notin {"done", "lost"}
  PROVE  /\ Alone(r) /\ pc'[r] = label /\ mem'[r] = value /\ told' = told
         /\ RpcTypeOK'
BY DEF GoOn, Alone, Typed, TypeOK, RpcTypeOK

Refusals == {400, 401, 404, 406, 500}

(* Who has been told before the end was told 500.                           *)
LEMMA Finishes ==
  ASSUME Typed, NEW r \in Requests, StageOK(r),
         NEW outcome \in Refusals \union {Success}, NEW ok \in Statuses, NEW result,
         Finish(r, outcome, ok, result), pc[r] \notin {"done", "lost"}
  PROVE  /\ Alone(r) /\ pc'[r] = "done" /\ mem'[r] = result
         /\ RpcTypeOK'
         /\ told'[r] \in {500, IF outcome = Success THEN ok ELSE outcome}
<1> DEFINE s == IF outcome = Success THEN ok ELSE outcome
<1>1. s \in Statuses
  BY DEF Refusals, Statuses
<1>2. s = IF outcome = Success THEN ok ELSE TekeroError(outcome)
  BY DEF TekeroError, Refusals, Statuses
<1>3. told' = IF told[r] = NoAnswer THEN [told EXCEPT ![r] = s] ELSE told
  BY <1>2 DEF Finish, Tell
<1>4. told \in [Requests -> Statuses \union {NoAnswer}] /\ told[r] \in {NoAnswer, 500}
  BY DEF Typed, TypeOK, RpcTypeOK, StageOK
<1> HIDE DEF s
<1>5. told' \in [Requests -> Statuses \union {NoAnswer}] /\ told'[r] \in {500, s}
      /\ \A q \in Requests \ {r} : told'[q] = told[q]
  BY <1>1, <1>3, <1>4
<1>6. told'[r] \in {500, IF outcome = Success THEN ok ELSE outcome}
  BY <1>5 DEF s
<1>7. UNCHANGED <<req, crashes>> /\ pc' = [pc EXCEPT ![r] = "done"] /\ mem' = [mem EXCEPT ![r] = result]
      /\ RpcTypeOK
  BY DEF Finish, Typed, TypeOK
<1>8. Alone(r) /\ pc'[r] = "done" /\ mem'[r] = result
  BY <1>5, <1>7 DEF Alone, RpcTypeOK
<1>9. RpcTypeOK'
  BY <1>5, <1>7 DEF RpcTypeOK
<1> QED
  BY <1>6, <1>8, <1>9

-----------------------------------------------------------------------------
(* What a step of a request r has to observe, part by part.                 *)
KeepsMedia(r) ==
  /\ \A m \in rows' \ rows :
       req[r].op = "uploadMedia" /\ req[r].media = m /\ pc[r] = "storing" /\ pc'[r] = "done"
  /\ \A m \in objects' \ objects :
       req[r].op = "uploadMedia" /\ req[r].media = m /\ LeftFile(r)'
  /\ \A m \in objects \ objects' :
       req[r].op = "deleteMedia" /\ req[r].media = m /\ Settled(m) /\ LeftRow(r)'
  /\ \A m \in rows \ rows' : m \notin objects'
  /\ LeftFile(r) => LeftFile(r)' \/ req[r].media \in rows'
  /\ LeftRow(r)  => LeftRow(r)' \/ req[r].media \notin rows'

KeepsAds(r) ==
  /\ DOMAIN ads \subseteq DOMAIN ads' /\ nextId \in Nat /\ nextId' \in Nat /\ nextId <= nextId'
  /\ \A i \in DOMAIN ads :
       /\ ads'[i].by = ads[i].by
       /\ ads'[i].photos = ads[i].photos \intersect rows'
       /\ FilterAccepted(ads'[i].filter)
  /\ \A i \in DOMAIN ads' \ DOMAIN ads :
       pc[r] = "attaching" /\ pc'[r] # "attaching" /\ i = mem[r].id /\ AdOK(i)'
  /\ pc'[r] = "attaching" =>
       mem'[r].id = nextId \/ (pc[r] = "attaching" /\ mem'[r] = mem[r])

LEMMA SettledStays ==
  ASSUME NEW r \in Requests, Alone(r)
  PROVE  \A m : Settled(m) => Settled(m)'
BY DEF Alone, Settled

LEMMA FitStays ==
  ASSUME NEW r \in Requests, Alone(r), Watched
  PROVE  \A q \in Requests : \A S : Fit(q, S) =>
           \A m \in S : m \in seen'[q] /\ Owner[m] = req'[q].user /\ Settled(m)'
BY SettledStays DEF Fit, Watched, Alone

LEMMA OtherMediaStage ==
  ASSUME MInv, NEW r \in Requests, Alone(r), Watched, KeepsMedia(r), NEW q \in Requests \ {r}
  PROVE  MediaStageOK(q)'
<1>1. MediaStageOK(q) /\ UNCHANGED <<req, pc[q], told[q]>> /\ pc[r] \notin {"done", "lost"}
  BY DEF MInv, StagesOK, StageOK, Alone
<1> DEFINE m == req[q].media
<1>2. Settled(m) => Settled(m)'
  BY <1>1 DEF Alone, Settled
<1>3. Settled(m) => m \notin rows' \ rows /\ m \notin objects' \ objects
  BY <1>1 DEF KeepsMedia, Settled
<1>4. pc[q] = "storing" => m \in objects'
  BY <1>1 DEF MediaStageOK, Settled, KeepsMedia
<1>5. pc[q] = "member" => m \in seen'[q] \/ q \in trusted'
  BY <1>1 DEF MediaStageOK, Watched
<1>6. (req[q].op = "getMedia" /\ told[q] = 200) => MayHaveUrl(q)'
  BY <1>1 DEF MediaStageOK, Watched, MayHaveUrl
<1> QED
  BY <1>1, <1>2, <1>3, <1>4, <1>5, <1>6 DEF MediaStageOK

LEMMA OtherAdsStage ==
  ASSUME MInv, NEW r \in Requests, Alone(r), Watched, KeepsMedia(r), KeepsAds(r),
         NEW q \in Requests \ {r}
  PROVE  AdsStageOK(q)'
<1>1. AdsStageOK(q) /\ UNCHANGED <<req, pc[q], mem[q], told[q]>> /\ pc[r] \notin {"done", "lost"}
  BY DEF MInv, StagesOK, StageOK, Alone
<1>2. ASSUME NEW S, Fit(q, S) PROVE Fit(q, S)'
  BY <1>1, <1>2, FitStays DEF Fit
<1>3. CASE pc[q] = "attaching"
  <2>1. mem[q].id \notin DOMAIN ads'
    BY <1>1, <1>3 DEF AdsStageOK, MInv, IdsDistinct, KeepsAds
  <2>2. mem[q].id \in 1..(nextId' - 1)
    BY <1>1, <1>3 DEF AdsStageOK, KeepsAds
  <2>3. req[q].op = "createAdv" /\ Fit(q, mem[q].photos)'
        /\ FilterAccepted(CreateAdvDTO(req[q].targetFilters))
    BY <1>1, <1>2, <1>3 DEF AdsStageOK, Fit
  <2> QED
    BY <1>1, <1>3, <2>1, <2>2, <2>3 DEF AdsStageOK
<1>4. (req[q].op = "createAdv" /\ told[q] = 201) =>
        /\ mem[q].id \in DOMAIN ads' /\ ads'[mem[q].id].by = q
        /\ ads'[mem[q].id].photos = mem[q].photos \intersect rows'
        /\ Fit(q, mem[q].photos)'
  <2> SUFFICES ASSUME req[q].op = "createAdv", told[q] = 201
               PROVE  /\ mem[q].id \in DOMAIN ads' /\ ads'[mem[q].id].by = q
                      /\ ads'[mem[q].id].photos = mem[q].photos \intersect rows'
                      /\ Fit(q, mem[q].photos)'
    OBVIOUS
  <2> DEFINE i == mem[q].id
  <2>1. i \in DOMAIN ads /\ ads[i].by = q /\ ads[i].photos = mem[q].photos \intersect rows
        /\ Fit(q, mem[q].photos)
    BY <1>1 DEF AdsStageOK
  <2>2. Fit(q, mem[q].photos)'
    BY <1>1, <1>2, <2>1 DEF Fit
  <2>3. \A m \in mem[q].photos : m \notin rows' \ rows
    BY <1>1, <2>1 DEF Fit, Settled, KeepsMedia
  <2>4. i \in DOMAIN ads' /\ ads'[i].by = q /\ ads'[i].photos = ads[i].photos \intersect rows'
    BY <2>1 DEF KeepsAds
  <2> QED
    BY <2>1, <2>2, <2>3, <2>4
<1>5. CASE pc[q] # "attaching"
  BY <1>1, <1>2, <1>4, <1>5 DEF AdsStageOK, KeepsAds, Fit
<1> QED
  BY <1>3, <1>4, <1>5

LEMMA OthersKept ==
  ASSUME MInv, NEW r \in Requests, Alone(r), Watched, KeepsMedia(r), KeepsAds(r),
         StageOK(r)'
  PROVE  StagesOK'
<1> SUFFICES ASSUME NEW q \in Requests \ {r} PROVE StageOK(q)'
  BY DEF StagesOK
<1>1. MediaStageOK(q)' /\ AdsStageOK(q)'
  BY OtherMediaStage, OtherAdsStage
<1>2. StageOK(q) /\ pc'[q] = pc[q] /\ told'[q] = told[q]
  BY DEF MInv, StagesOK, Alone
<1> QED
  BY <1>1, <1>2 DEF StageOK

LEMMA SettledKept ==
  ASSUME MInv, NEW r \in Requests, Alone(r), KeepsMedia(r)
  PROVE  RowsSettled'
<1> SUFFICES ASSUME NEW m \in rows' PROVE Settled(m)'
  BY DEF RowsSettled
<1>1. CASE m \in rows
  BY <1>1, SettledStays DEF MInv, RowsSettled
<1>2. CASE m \notin rows
  <2>1. req[r].op = "uploadMedia" /\ req[r].media = m /\ pc'[r] = "done"
    BY <1>2 DEF KeepsMedia
  <2>2. \A q \in Requests \ {r} : req[q].op = "uploadMedia" => req[q].media # m
    BY <2>1, Asked DEF MInv, Typed
  <2> QED
    BY <2>1, <2>2 DEF Settled, Alone
<1> QED
  BY <1>1, <1>2

LEMMA StorageKept ==
  ASSUME MInv, NEW r \in Requests, Alone(r), KeepsMedia(r)
  PROVE  StorageOK'
<1>1. ASSUME NEW m \in objects' \ rows'
      PROVE  \E c \in Requests : LeftFile(c)' /\ req'[c].media = m
  <2>1. CASE m \notin objects
    BY <1>1, <2>1 DEF KeepsMedia, Alone
  <2>2. CASE m \in objects \ rows
    <3>1. PICK c \in Requests : LeftFile(c) /\ req[c].media = m
      BY <2>2 DEF MInv, StorageOK
    <3>2. c # r => LeftFile(c)'
      BY <3>1 DEF LeftFile, Ill, Alone
    <3> QED
      BY <1>1, <3>1, <3>2 DEF KeepsMedia, Alone
  <2>3. CASE m \in objects \intersect rows
    BY <1>1, <2>3 DEF KeepsMedia
  <2> QED
    BY <2>1, <2>2, <2>3
<1>2. ASSUME NEW m \in rows' \ objects'
      PROVE  \E c \in Requests : LeftRow(c)' /\ req'[c].media = m
  <2>1. CASE m \notin rows
    <3>1. m \in objects
      BY <1>2, <2>1 DEF KeepsMedia, MInv, StagesOK, StageOK, MediaStageOK
    <3> QED
      BY <1>2, <2>1, <3>1 DEF KeepsMedia
  <2>2. CASE m \in rows \ objects
    <3>1. PICK c \in Requests : LeftRow(c) /\ req[c].media = m
      BY <2>2 DEF MInv, StorageOK
    <3>2. c # r => LeftRow(c)'
      BY <3>1 DEF LeftRow, Ill, Alone
    <3> QED
      BY <1>2, <3>1, <3>2 DEF KeepsMedia, Alone
  <2>3. CASE m \in rows \intersect objects
    BY <1>2, <2>3 DEF KeepsMedia, Alone
  <2> QED
    BY <2>1, <2>2, <2>3
<1> QED
  BY <1>1, <1>2 DEF StorageOK

LEMMA AdsKept ==
  ASSUME MInv, NEW r \in Requests, Alone(r), Watched, KeepsAds(r)
  PROVE  AdsOK' /\ IdsDistinct'
<1>1. ASSUME NEW i \in DOMAIN ads PROVE AdOK(i)'
  <2>1. AdOK(i) /\ ads'[i].by = ads[i].by /\ req' = req
        /\ ads'[i].photos \subseteq ads[i].photos /\ FilterAccepted(ads'[i].filter)
    BY DEF MInv, AdsOK, KeepsAds, Alone
  <2>2. CASE ads[i].by = Nothing
    BY <2>1, <2>2 DEF AdOK, FilterAccepted
  <2>3. CASE ads[i].by # Nothing
    <3> DEFINE by == ads[i].by
    <3>1. by \in Requests \ {r} /\ pc[by] = "done" /\ told[by] \in {201, 500}
          /\ ads[i].photos \subseteq {m \in seen[by] : Owner[m] = req[by].user}
      BY <2>1, <2>3 DEF AdOK, Alone
    <3>2. pc'[by] = pc[by] /\ told'[by] = told[by] /\ seen[by] \subseteq seen'[by]
      BY <3>1 DEF Alone, Watched
    <3> QED
      BY <2>1, <3>1, <3>2 DEF AdOK
  <2> QED
    BY <2>2, <2>3
<1>2. AdsOK'
  BY <1>1 DEF AdsOK, KeepsAds
<1>3. \A q \in Requests \ {r} : pc[q] = "attaching" => mem[q].id < nextId
  BY DEF MInv, StagesOK, StageOK, AdsStageOK, KeepsAds
<1>4. IdsDistinct'
  <2> SUFFICES ASSUME NEW q \in Requests \ {r}, pc[q] = "attaching", pc'[r] = "attaching"
               PROVE  mem[q].id # mem'[r].id
    BY DEF IdsDistinct, MInv, Alone
  <2>1. CASE mem'[r].id = nextId
    BY <1>3, <2>1 DEF KeepsAds
  <2>2. CASE pc[r] = "attaching" /\ mem'[r] = mem[r]
    BY <2>2 DEF MInv, IdsDistinct
  <2> QED
    BY <2>1, <2>2 DEF KeepsAds
<1> QED
  BY <1>2, <1>4

LEMMA StepKept ==
  ASSUME MInv, NEW r \in Requests, Alone(r), TypeOK', Watched, KeepsMedia(r), KeepsAds(r),
         StageOK(r)'
  PROVE  MInv'
<1>1. req' \in Scenarios
  BY DEF Alone, MInv, Typed
<1> QED
  BY <1>1, OthersKept, SettledKept, StorageKept, AdsKept DEF MInv, Typed

-----------------------------------------------------------------------------
(* Steps that change neither media nor ads.                                 *)
LEMMA AdsUntouched ==
  ASSUME MInv, UNCHANGED <<ads, nextId>>, rows \subseteq rows', RpcTypeOK', MediaTypeOK',
         NEW r \in Requests, Alone(r),
         pc'[r] = "attaching" => pc[r] = "attaching" /\ mem'[r] = mem[r]
  PROVE  TypeOK' /\ KeepsAds(r)
<1>1. TypeOK /\ AdsOK
  BY DEF MInv, Typed
<1>2. TypeOK'
  BY <1>1 DEF TypeOK
<1>3. \A i \in DOMAIN ads : ads[i].photos \subseteq rows' /\ FilterAccepted(ads[i].filter)
  BY <1>1 DEF TypeOK, AdsOK, AdOK
<1>4. nextId \in Nat /\ nextId <= nextId
  BY <1>1 DEF TypeOK
<1> QED
  BY <1>2, <1>3, <1>4 DEF KeepsAds

LEMMA QuietStep ==
  ASSUME MInv, NEW r \in Requests, Alone(r), RpcTypeOK', ObserveMedia,
         UNCHANGED <<rows, hidden, objects, access, ads, nextId>>,
         pc'[r] = "attaching" => pc[r] = "attaching" /\ mem'[r] = mem[r],
         LeftFile(r) => LeftFile(r)', LeftRow(r) => LeftRow(r)', StageOK(r)'
  PROVE  MInv'
<1>1. Typed /\ req' = req /\ rows' \subseteq MediaIds
  BY DEF MInv, Alone, Typed, TypeOK, MediaTypeOK
<1>2. Watched
  BY <1>1, Observed
<1>3. MediaTypeOK'
  BY <1>1, <1>2 DEF Typed, TypeOK, MediaTypeOK, Watched
<1>4. TypeOK' /\ KeepsAds(r)
  BY <1>3, AdsUntouched
<1>5. KeepsMedia(r)
  BY DEF KeepsMedia
<1> QED
  BY <1>2, <1>4, <1>5, StepKept

LEMMA RefusedStage ==
  ASSUME NEW r \in Requests, pc'[r] = "done", told'[r] \in Refusals
  PROVE  StageOK(r)'
BY DEF StageOK, MediaStageOK, AdsStageOK, Labels, Refusals

(* A request is refused, or fails.                                          *)
LEMMA Refuses ==
  ASSUME MInv, NEW r \in Requests, NEW outcome \in Refusals, NEW ok \in Statuses, NEW result,
         Finish(r, outcome, ok, result), pc[r] \notin {"done", "lost"}, ObserveMedia,
         UNCHANGED <<rows, hidden, objects, access, ads, nextId>>,
         pc[r] \in {"storing", "destroying"} => outcome \in {400, 500}
  PROVE  MInv'
<1>1. Typed /\ StageOK(r) /\ outcome # Success
  BY DEF MInv, StagesOK, Refusals, Success
<1>2. Alone(r) /\ pc'[r] = "done" /\ RpcTypeOK' /\ told'[r] \in {500, outcome}
  BY <1>1, Finishes
<1>3. told'[r] \in Refusals
  BY <1>2 DEF Refusals
<1>4. StageOK(r)'
  BY <1>2, <1>3, RefusedStage
<1>5. (LeftFile(r) => LeftFile(r)') /\ (LeftRow(r) => LeftRow(r)')
  BY <1>2 DEF LeftFile, LeftRow, Ill, Alone
<1> QED
  BY <1>2, <1>4, <1>5, QuietStep

(* A handler goes on to its next statement.                                 *)
LEMMA Proceeds ==
  ASSUME MInv, NEW r \in Requests, NEW label \in Labels \ {"new", "queued", "done", "lost", "attaching"},
         NEW value, GoOn(r, label, value), ObserveMedia,
         pc[r] \notin {"done", "lost", "storing", "destroying"},
         UNCHANGED <<rows, hidden, objects, access, ads, nextId>>, StageOK(r)'
  PROVE  MInv'
<1>1. Typed
  BY DEF MInv
<1>2. Alone(r) /\ pc'[r] = label /\ RpcTypeOK'
  BY <1>1, GoesOn
<1>3. ~ LeftFile(r) /\ ~ LeftRow(r)
  BY DEF LeftFile, LeftRow, Ill
<1> QED
  BY <1>2, <1>3, QuietStep

-----------------------------------------------------------------------------
(* Media: the steps that read.                                              *)
LEMMA MediaStatus ==
  ASSUME NEW op \in MediaOps \ {"uploadMedia"}
  PROVE  /\ api_media(op) \in Statuses \ Refusals
         /\ op # "getMedia" => api_media(op) # 200
         /\ op # "deleteMedia" => api_media(op) # 204
BY DEF MediaOps, api_media, Statuses, Refusals

LEMMA MediaRefuses ==
  ASSUME MInv, NEW r \in Requests, NEW outcome \in Refusals, MediaController(r, outcome),
         req[r].op \in MediaOps \ {"uploadMedia"}, pc[r] \notin {"done", "lost", "storing"},
         pc[r] = "destroying" => outcome \in {400, 500},
         ObserveMedia, UNCHANGED <<rows, hidden, objects, access, ads, nextId>>
  PROVE  MInv'
BY MediaStatus, Refuses DEF MediaController

LEMMA UploadStep ==
  ASSUME MInv, NEW r \in Requests, uploadMedia(r), UNCHANGED adsVars, ObserveMedia
  PROVE  MInv'
<1>1. GoOn(r, "uploading", Nothing) /\ pc[r] = "queued" /\ req[r].op = "uploadMedia"
      /\ UNCHANGED <<rows, hidden, objects, access, ads, nextId>>
  BY DEF uploadMedia, Taken, mediaVars, adsVars
<1>2. Typed /\ StageOK(r)
  BY DEF MInv, StagesOK
<1>3. Alone(r) /\ pc'[r] = "uploading" /\ told' = told
  BY <1>1, <1>2, GoesOn
<1>4. StageOK(r)'
  BY <1>1, <1>2, <1>3 DEF StageOK, MediaStageOK, AdsStageOK, Labels, Alone, NoAnswer
<1> QED
  BY <1>1, <1>4, Proceeds DEF Labels

LEMMA GetMediaStep ==
  ASSUME MInv, NEW r \in Requests, getMedia(r), UNCHANGED adsVars, ObserveMedia
  PROVE  MInv'
<1> DEFINE m == req[r].media
<1>1. pc[r] = "queued" /\ req[r].op = "getMedia"
      /\ UNCHANGED <<rows, hidden, objects, access, ads, nextId>>
  BY DEF getMedia, Taken, mediaVars, adsVars
<1>2. Typed /\ StageOK(r)
  BY DEF MInv, StagesOK
<1>3. CASE m \notin rows /\ MediaController(r, 404)
  BY <1>1, <1>3, MediaRefuses DEF Refusals, MediaOps
<1>4. CASE m \in hidden /\ GoOn(r, "access", Nothing)
  <2>1. Alone(r) /\ pc'[r] = "access" /\ told' = told
    BY <1>2, <1>1, <1>4, GoesOn
  <2>2. StageOK(r)'
    BY <1>1, <1>2, <2>1 DEF StageOK, MediaStageOK, AdsStageOK, Labels, Alone, NoAnswer
  <2> QED
    BY <1>1, <1>4, <2>2, Proceeds DEF Labels
<1>5. CASE m \in rows \ hidden /\ GoOn(r, "member", Nothing)
  <2>1. Alone(r) /\ pc'[r] = "member" /\ told' = told
    BY <1>2, <1>1, <1>5, GoesOn
  <2>2. m \in seen'[r]
    <3>1. Running(r)' /\ MediaOf(r) = {m}
      BY <1>1, <2>1 DEF Running, MediaOf
    <3>2. rows' \subseteq MediaIds /\ req' = req
      BY <1>1, <1>2, <2>1 DEF Typed, TypeOK, MediaTypeOK, Alone
    <3> QED
      BY <1>1, <1>2, <1>5, <3>1, <3>2, Observed
  <2>3. StageOK(r)'
    BY <1>1, <1>2, <2>1, <2>2 DEF StageOK, MediaStageOK, AdsStageOK, Labels, Alone, NoAnswer
  <2> QED
    BY <1>1, <1>5, <2>3, Proceeds DEF Labels
<1> QED
  BY <1>3, <1>4, <1>5 DEF getMedia

LEMMA CheckAccessStep ==
  ASSUME MInv, NEW r \in Requests, CheckAccess(r), UNCHANGED adsVars, ObserveMedia
  PROVE  MInv'
<1>1. pc[r] = "access" /\ UNCHANGED <<rows, hidden, objects, access, ads, nextId>>
  BY DEF CheckAccess, mediaVars, adsVars
<1>2. Typed /\ StageOK(r) /\ req[r].op = "getMedia"
  BY <1>1 DEF MInv, StagesOK, StageOK, MediaStageOK
<1>3. CASE \E e \in {406, 500} : MediaController(r, e)
  BY <1>1, <1>2, <1>3, MediaRefuses DEF Refusals, MediaOps
<1>4. CASE <<Owner[req[r].media], req[r].user>> \in access /\ GoOn(r, "member", Nothing)
  <2>1. Alone(r) /\ pc'[r] = "member" /\ told' = told
    BY <1>1, <1>2, <1>4, GoesOn
  <2>2. r \in trusted'
    <3>1. Running(r)' /\ HasAccess(r)'
      BY <1>1, <1>2, <1>4, <2>1 DEF Running, HasAccess, Alone
    <3>2. rows' \subseteq MediaIds /\ req' = req
      BY <1>1, <1>2, <2>1 DEF Typed, TypeOK, MediaTypeOK, Alone
    <3> QED
      BY <1>2, <3>1, <3>2, Observed
  <2>3. StageOK(r)'
    BY <1>1, <1>2, <2>1, <2>2 DEF StageOK, MediaStageOK, AdsStageOK, Labels, Alone, NoAnswer
  <2> QED
    BY <1>1, <1>4, <2>3, Proceeds DEF Labels
<1> QED
  BY <1>3, <1>4 DEF CheckAccess

LEMMA CheckMemberStep ==
  ASSUME MInv, NEW r \in Requests, CheckMember(r), UNCHANGED adsVars, ObserveMedia
  PROVE  MInv'
<1> DEFINE m == req[r].media
<1>1. pc[r] = "member" /\ UNCHANGED <<rows, hidden, objects, access, ads, nextId>>
  BY DEF CheckMember, mediaVars, adsVars
<1>2. Typed /\ StageOK(r) /\ req[r].op = "getMedia" /\ (m \in seen[r] \/ r \in trusted)
  BY <1>1 DEF MInv, StagesOK, StageOK, MediaStageOK
<1>3. CASE \E e \in {404, 406} : MediaController(r, e)
  BY <1>1, <1>2, <1>3, MediaRefuses DEF Refusals, MediaOps
<1>4. CASE /\ m \in ChatMedia => m \in Messages /\ req[r].user \in Members[m]
           /\ MediaController(r, Success)
  <2>1. api_media("getMedia") \in Statuses
    BY MediaStatus DEF MediaOps
  <2>2. Alone(r) /\ pc'[r] = "done" /\ RpcTypeOK'
    BY <1>1, <1>2, <1>4, <2>1, Finishes DEF MediaController
  <2>3. rows' \subseteq MediaIds /\ req' = req
    BY <1>1, <1>2, <2>2 DEF Typed, TypeOK, MediaTypeOK, Alone
  <2>4. m \in seen'[r] \/ r \in trusted'
    BY <1>2, <2>3, Observed DEF Watched
  <2>5. MayHaveUrl(r)'
    BY <1>4, <2>3, <2>4 DEF MayHaveUrl
  <2>6. StageOK(r)'
    BY <1>2, <2>2, <2>3, <2>5 DEF StageOK, MediaStageOK, AdsStageOK, Labels
  <2>7. ~ LeftFile(r) /\ ~ LeftRow(r)
    BY <1>1 DEF LeftFile, LeftRow, Ill
  <2> QED
    BY <1>1, <2>2, <2>6, <2>7, QuietStep
<1> QED
  BY <1>3, <1>4 DEF CheckMember

LEMMA DeleteMediaStep ==
  ASSUME MInv, NEW r \in Requests, deleteMedia(r), UNCHANGED adsVars, ObserveMedia
  PROVE  MInv'
<1> DEFINE m == req[r].media
<1>1. pc[r] = "queued" /\ req[r].op = "deleteMedia"
      /\ UNCHANGED <<rows, hidden, objects, access, ads, nextId>>
  BY DEF deleteMedia, Taken, mediaVars, adsVars
<1>2. Typed /\ StageOK(r)
  BY DEF MInv, StagesOK
<1>3. CASE m \in rows /\ GoOn(r, "deleting", Nothing)
  <2>1. Alone(r) /\ pc'[r] = "deleting" /\ told' = told
    BY <1>1, <1>2, <1>3, GoesOn
  <2>2. Settled(m)'
    <3>1. Settled(m)
      BY <1>3 DEF MInv, RowsSettled
    <3> QED
      BY <2>1, <3>1 DEF Settled, Alone
  <2>3. StageOK(r)'
    BY <1>1, <1>2, <2>1, <2>2 DEF StageOK, MediaStageOK, AdsStageOK, Labels, Alone, NoAnswer
  <2> QED
    BY <1>1, <1>3, <2>3, Proceeds DEF Labels
<1>4. CASE MediaController(r, 404)
  BY <1>1, <1>4, MediaRefuses DEF Refusals, MediaOps
<1> QED
  BY <1>3, <1>4 DEF deleteMedia

LEMMA SetMediaPrivacyStep ==
  ASSUME MInv, NEW r \in Requests, setMediaPrivacy(r), UNCHANGED adsVars, ObserveMedia
  PROVE  MInv'
<1>1. pc[r] = "queued" /\ req[r].op = "setMediaPrivacy"
      /\ UNCHANGED <<rows, hidden, objects, access, ads, nextId>>
  BY DEF setMediaPrivacy, Taken, mediaVars, adsVars
<1>2. Typed /\ StageOK(r)
  BY DEF MInv, StagesOK
<1>3. CASE \E value : GoOn(r, "toggling", value)
  <2>1. PICK value : GoOn(r, "toggling", value)
    BY <1>3
  <2>2. Alone(r) /\ pc'[r] = "toggling" /\ told' = told
    BY <1>1, <1>2, <2>1, GoesOn
  <2>3. StageOK(r)'
    BY <1>1, <1>2, <2>2 DEF StageOK, MediaStageOK, AdsStageOK, Labels, Alone, NoAnswer
  <2> QED
    BY <1>1, <2>1, <2>3, Proceeds DEF Labels
<1>4. CASE MediaController(r, 404)
  BY <1>1, <1>4, MediaRefuses DEF Refusals, MediaOps
<1> QED
  BY <1>3, <1>4 DEF setMediaPrivacy

LEMMA MediaFailsStep ==
  ASSUME MInv, NEW r \in Requests, MediaFails(r), UNCHANGED adsVars, ObserveMedia
  PROVE  MInv'
<1>1. /\ Running(r) /\ Finish(r, 500, 500, Nothing)
      /\ UNCHANGED <<rows, hidden, objects, access, ads, nextId>>
  BY DEF MediaFails, mediaVars, adsVars
<1> QED
  BY <1>1, Refuses DEF Running, Refusals, Statuses

-----------------------------------------------------------------------------
(* Media: the steps that write.                                             *)
LEMMA MediaWrites ==
  ASSUME MInv, NEW r \in Requests, Alone(r), RpcTypeOK', ObserveMedia,
         rows \subseteq rows', rows' \subseteq MediaIds, hidden' \subseteq rows',
         objects' \subseteq MediaIds, access' \subseteq Users \X Users,
         UNCHANGED <<ads, nextId>>, pc'[r] # "attaching", KeepsMedia(r), StageOK(r)'
  PROVE  MInv'
<1>1. Watched
  BY Observed DEF MInv, Alone
<1>2. MediaTypeOK'
  BY <1>1 DEF MediaTypeOK, Watched
<1>3. TypeOK' /\ KeepsAds(r)
  BY <1>2, AdsUntouched
<1> QED
  BY <1>1, <1>3, StepKept

LEMMA S3UploadStep ==
  ASSUME MInv, NEW r \in Requests, s3_upload(r), UNCHANGED adsVars, ObserveMedia
  PROVE  MInv'
<1> DEFINE m == req[r].media
<1>1. pc[r] = "uploading" /\ UNCHANGED <<rows, hidden, access, ads, nextId>>
  BY DEF s3_upload, adsVars
<1>2. Typed /\ StageOK(r) /\ req[r].op = "uploadMedia"
  BY <1>1 DEF MInv, StagesOK, StageOK, MediaStageOK
<1>3. m \in MediaIds /\ rows \subseteq MediaIds /\ hidden \subseteq rows
      /\ objects \subseteq MediaIds /\ access \subseteq Users \X Users
  BY <1>2, Asked DEF Typed, TypeOK, MediaTypeOK, MediaOps
<1>4. ~ LeftFile(r) /\ ~ LeftRow(r)
  BY <1>1 DEF LeftFile, LeftRow, Ill
<1>5. CASE objects' = objects \union {m} /\ GoOn(r, "storing", Nothing)
  <2>1. Alone(r) /\ pc'[r] = "storing" /\ told' = told /\ RpcTypeOK'
    BY <1>1, <1>2, <1>5, GoesOn
  <2>2. KeepsMedia(r)
    BY <1>1, <1>2, <1>4, <1>5, <2>1 DEF KeepsMedia, LeftFile, Alone
  <2>3. StageOK(r)'
    BY <1>1, <1>2, <1>5, <2>1 DEF StageOK, MediaStageOK, AdsStageOK, Labels, Alone, NoAnswer
  <2> QED
    BY <1>1, <1>3, <1>5, <2>1, <2>2, <2>3, MediaWrites
<1>6. CASE objects' \in {objects, objects \union {m}} /\ api_uploadMedia(r, 400, Nothing)
  <2>1. Finish(r, 400, 201, Nothing) /\ 400 \in Refusals /\ 201 \in Statuses /\ 400 # Success
    BY <1>6 DEF api_uploadMedia, Refusals, Statuses, Success
  <2>2. Alone(r) /\ pc'[r] = "done" /\ RpcTypeOK' /\ told'[r] \in {400, 500}
    BY <1>1, <1>2, <2>1, Finishes
  <2>3. KeepsMedia(r)
    BY <1>1, <1>2, <1>4, <1>6, <2>2 DEF KeepsMedia, LeftFile, Ill, Alone
  <2>4. StageOK(r)'
    BY <2>2, RefusedStage DEF Refusals
  <2> QED
    BY <1>1, <1>3, <1>6, <2>2, <2>3, <2>4, MediaWrites
<1> QED
  BY <1>5, <1>6 DEF s3_upload

LEMMA StoreMediaStep ==
  ASSUME MInv, NEW r \in Requests, StoreMedia(r), UNCHANGED adsVars, ObserveMedia
  PROVE  MInv'
<1> DEFINE m == req[r].media
<1>1. pc[r] = "storing" /\ UNCHANGED <<hidden, objects, access, ads, nextId>>
  BY DEF StoreMedia, adsVars
<1>2. Typed /\ StageOK(r) /\ req[r].op = "uploadMedia"
  BY <1>1 DEF MInv, StagesOK, StageOK, MediaStageOK
<1>3. m \in MediaIds /\ rows \subseteq MediaIds /\ hidden \subseteq rows
      /\ objects \subseteq MediaIds /\ access \subseteq Users \X Users
  BY <1>2, Asked DEF Typed, TypeOK, MediaTypeOK, MediaOps
<1>4. 201 \in Statuses /\ 400 \in Refusals /\ Success \notin Refusals
  BY DEF Statuses, Refusals, Success
<1>5. CASE rows' = rows \union {m} /\ api_uploadMedia(r, Success, m)
  <2>1. Alone(r) /\ pc'[r] = "done" /\ RpcTypeOK'
    BY <1>1, <1>2, <1>4, <1>5, Finishes DEF api_uploadMedia
  <2>2. KeepsMedia(r)
    BY <1>1, <1>2, <1>5, <2>1 DEF KeepsMedia, LeftRow, Alone
  <2>3. StageOK(r)'
    BY <1>2, <2>1 DEF StageOK, MediaStageOK, AdsStageOK, Labels, Alone
  <2> QED
    BY <1>1, <1>3, <1>5, <2>1, <2>2, <2>3, MediaWrites
<1>6. CASE UNCHANGED rows /\ api_uploadMedia(r, 400, Nothing)
  BY <1>1, <1>4, <1>6, Refuses DEF api_uploadMedia
<1> QED
  BY <1>5, <1>6 DEF StoreMedia

LEMMA S3DeleteStep ==
  ASSUME MInv, NEW r \in Requests, s3_delete(r), UNCHANGED adsVars, ObserveMedia
  PROVE  MInv'
<1> DEFINE m == req[r].media
<1>1. pc[r] = "deleting" /\ UNCHANGED <<rows, hidden, access, ads, nextId>>
  BY DEF s3_delete, adsVars
<1>2. Typed /\ StageOK(r) /\ req[r].op = "deleteMedia" /\ Settled(m)
  BY <1>1 DEF MInv, StagesOK, StageOK, MediaStageOK
<1>3. rows \subseteq MediaIds /\ hidden \subseteq rows
      /\ objects \subseteq MediaIds /\ access \subseteq Users \X Users
  BY <1>2 DEF Typed, TypeOK, MediaTypeOK
<1>4. ~ LeftFile(r) /\ ~ LeftRow(r)
  BY <1>1 DEF LeftFile, LeftRow, Ill
<1>5. objects' \in {objects, objects \ {m}}
  BY DEF s3_delete
<1>6. CASE \E e \in {400, 500} : MediaController(r, e)
  <2>1. PICK e \in {400, 500} : Finish(r, e, 204, Nothing)
    BY <1>2, <1>6 DEF MediaController, api_media
  <2>2. e \in Refusals /\ e # Success /\ 204 \in Statuses
    BY DEF Refusals, Success, Statuses
  <2>3. Alone(r) /\ pc'[r] = "done" /\ RpcTypeOK' /\ told'[r] \in {400, 500}
    BY <1>1, <1>2, <2>1, <2>2, Finishes
  <2>4. KeepsMedia(r)
    BY <1>1, <1>2, <1>4, <1>5, <2>3 DEF KeepsMedia, LeftRow, Ill, Alone
  <2>5. StageOK(r)'
    BY <2>3, RefusedStage DEF Refusals
  <2> QED
    BY <1>1, <1>3, <1>5, <2>3, <2>4, <2>5, MediaWrites
<1>7. CASE objects' = objects \ {m} /\ GoOn(r, "destroying", Nothing)
  <2>1. Alone(r) /\ pc'[r] = "destroying" /\ told' = told /\ RpcTypeOK'
    BY <1>1, <1>2, <1>7, GoesOn
  <2>2. KeepsMedia(r)
    BY <1>1, <1>2, <1>4, <1>7, <2>1 DEF KeepsMedia, LeftRow, Alone
  <2>3. Settled(m)'
    BY <1>2, <2>1 DEF Settled, Alone
  <2>4. StageOK(r)'
    BY <1>1, <1>2, <1>7, <2>1, <2>3 DEF StageOK, MediaStageOK, AdsStageOK, Labels, Alone, NoAnswer
  <2> QED
    BY <1>1, <1>3, <1>5, <2>1, <2>2, <2>4, MediaWrites
<1> QED
  BY <1>6, <1>7 DEF s3_delete

(* Only the flag and the access rows change.                                *)
LEMMA RightsWritten ==
  ASSUME MInv, NEW r \in Requests, NEW outcome \in {Success, 500}, MediaController(r, outcome),
         req[r].op \in {"setMediaPrivacy", "editMediaAccess"}, pc[r] \notin {"new", "done", "lost"},
         UNCHANGED <<rows, objects, ads, nextId>>, hidden' \subseteq rows,
         access' \subseteq Users \X Users, ObserveMedia
  PROVE  MInv'
<1>1. Typed /\ StageOK(r)
  BY DEF MInv, StagesOK
<1>2. 202 \in Statuses /\ outcome \in Refusals \union {Success} /\ Finish(r, outcome, 202, Nothing)
  BY DEF MediaController, api_media, Refusals, Statuses
<1>3. Alone(r) /\ pc'[r] = "done" /\ RpcTypeOK'
  BY <1>1, <1>2, Finishes
<1>4. rows \subseteq MediaIds /\ objects \subseteq MediaIds
  BY <1>1 DEF Typed, TypeOK, MediaTypeOK
<1>5. KeepsMedia(r)
  BY DEF KeepsMedia, LeftFile, LeftRow
<1>6. StageOK(r)'
  BY <1>1, <1>3 DEF StageOK, MediaStageOK, AdsStageOK, Labels, Alone
<1> QED
  BY <1>3, <1>4, <1>5, <1>6, MediaWrites

LEMMA SetPrivacyStep ==
  ASSUME MInv, NEW r \in Requests, SetPrivacy(r), UNCHANGED adsVars, ObserveMedia
  PROVE  MInv'
<1>1. pc[r] = "toggling" /\ UNCHANGED <<rows, objects, access, ads, nextId>>
  BY DEF SetPrivacy, adsVars
<1>2. req[r].op = "setMediaPrivacy" /\ hidden \subseteq rows /\ access \subseteq Users \X Users
  BY <1>1 DEF MInv, StagesOK, StageOK, MediaStageOK, Typed, TypeOK, MediaTypeOK
<1>3. hidden' \subseteq rows
  BY <1>2 DEF SetPrivacy
<1> QED
  BY <1>1, <1>2, <1>3, RightsWritten DEF SetPrivacy

LEMMA EditMediaAccessStep ==
  ASSUME MInv, NEW r \in Requests, editMediaAccess(r), UNCHANGED adsVars, ObserveMedia
  PROVE  MInv'
<1>1. pc[r] = "queued" /\ req[r].op = "editMediaAccess"
      /\ UNCHANGED <<rows, hidden, objects, ads, nextId>>
  BY DEF editMediaAccess, Taken, adsVars
<1>2. req[r].user \in Users /\ req[r].accessor \in Users
      /\ hidden \subseteq rows /\ access \subseteq Users \X Users
  BY <1>1, Asked DEF MInv, Typed, TypeOK, MediaTypeOK
<1>3. access' \subseteq Users \X Users
  BY <1>2 DEF editMediaAccess
<1> QED
  BY <1>1, <1>2, <1>3, RightsWritten DEF editMediaAccess

LEMMA DestroyMediaStep ==
  ASSUME MInv, NEW r \in Requests, DestroyMedia(r), ObserveMedia
  PROVE  MInv'
<1> DEFINE m == req[r].media
<1>1. /\ pc[r] = "destroying" /\ UNCHANGED <<objects, access, nextId>>
      /\ rows' = rows \ {m} /\ hidden' = hidden \ {m}
      /\ ads' = [i \in DOMAIN ads |-> [ads[i] EXCEPT !.photos = @ \ {m}]]
      /\ MediaController(r, Success)
  BY DEF DestroyMedia, destroy, DropPhoto
<1>2. Typed /\ StageOK(r) /\ req[r].op = "deleteMedia" /\ Settled(m) /\ m \notin objects
  BY <1>1 DEF MInv, StagesOK, StageOK, MediaStageOK
<1>3. Alone(r) /\ pc'[r] = "done" /\ RpcTypeOK'
  <2>1. 204 \in Statuses /\ Finish(r, Success, 204, Nothing)
    BY <1>1, <1>2 DEF MediaController, api_media, Statuses
  <2> QED
    BY <1>1, <1>2, <2>1, Finishes
<1>4. Watched
  BY <1>1, <1>2, <1>3, Observed DEF Typed, TypeOK, MediaTypeOK, Alone
<1>5. MediaTypeOK'
  BY <1>1, <1>2, <1>4 DEF Typed, TypeOK, MediaTypeOK, Watched
<1>6. ASSUME NEW i \in DOMAIN ads
      PROVE  /\ DOMAIN ads'[i] = AdFields
             /\ ads'[i].user = ads[i].user /\ ads'[i].status = ads[i].status
             /\ ads'[i].filter = ads[i].filter /\ ads'[i].by = ads[i].by
             /\ ads'[i].photos = ads[i].photos \intersect rows'
  <2>1. DOMAIN ads[i] = AdFields /\ ads[i].photos \subseteq rows
    BY <1>2 DEF Typed, TypeOK
  <2>2. ads'[i] = [ads[i] EXCEPT !.photos = @ \ {m}]
    BY <1>1
  <2> QED
    BY <1>1, <2>1, <2>2 DEF AdFields
<1>7. DOMAIN ads' = DOMAIN ads
  BY <1>1
<1>8. TypeOK'
  <2>1. nextId' \in Nat \ {0} /\ DOMAIN ads' \subseteq 1..(nextId' - 1)
    BY <1>1, <1>2, <1>7 DEF Typed, TypeOK
  <2>2. ASSUME NEW i \in DOMAIN ads'
        PROVE  /\ DOMAIN ads'[i] = AdFields
               /\ ads'[i].user \in Users
               /\ ads'[i].status \in AdStatuses
               /\ ads'[i].filter = Nothing \/ DOMAIN ads'[i].filter \subseteq FilterFields
               /\ ads'[i].photos \subseteq rows'
    BY <1>2, <1>6, <1>7 DEF Typed, TypeOK
  <2> QED
    BY <1>3, <1>5, <2>1, <2>2 DEF TypeOK
<1>9. KeepsAds(r)
  <2>1. nextId \in Nat /\ nextId <= nextId
    BY <1>2 DEF Typed, TypeOK
  <2>2. \A i \in DOMAIN ads : FilterAccepted(ads[i].filter)
    BY DEF MInv, AdsOK, AdOK
  <2> QED
    BY <1>1, <1>3, <1>6, <1>7, <2>1, <2>2 DEF KeepsAds
<1>10. KeepsMedia(r)
  BY <1>1, <1>2, <1>3 DEF KeepsMedia, LeftFile, Ill, Alone
<1>11. StageOK(r)'
  <2>1. Settled(m)'
    BY <1>2, <1>3 DEF Settled, Alone
  <2>2. /\ told'[r] \in {500, 204}
    BY <1>1, <1>2, Finishes DEF MediaController, api_media, Statuses
  <2> QED
    BY <1>1, <1>2, <1>3, <2>1, <2>2 DEF StageOK, MediaStageOK, AdsStageOK, Labels, Alone
<1> QED
  BY <1>3, <1>4, <1>8, <1>9, <1>10, <1>11, StepKept

-----------------------------------------------------------------------------
(* Ads: the steps that read.                                                *)
LEMMA AdsRefuses ==
  ASSUME MInv, NEW r \in Requests, NEW outcome \in Refusals, NEW result,
         AdsController(r, outcome, result),
         pc[r] \notin {"done", "lost", "storing", "destroying"},
         ObserveMedia, UNCHANGED <<rows, hidden, objects, access, ads, nextId>>
  PROVE  MInv'
BY Refuses DEF AdsController, api_ads, Statuses

LEMMA CreateAdStep ==
  ASSUME MInv, NEW r \in Requests, createAd(r), ObserveMedia
  PROVE  MInv'
<1>1. pc[r] = "queued" /\ req[r].op = "createAdv" /\ GoOn(r, "inserting", prepareMediaToAttach(r))
      /\ UNCHANGED <<rows, hidden, objects, access, ads, nextId>>
  BY DEF createAd, Taken, mediaVars, adsVars
<1>2. Typed /\ StageOK(r)
  BY DEF MInv, StagesOK
<1>3. Alone(r) /\ pc'[r] = "inserting" /\ mem'[r] = prepareMediaToAttach(r) /\ told' = told
  BY <1>1, <1>2, GoesOn
<1>4. ASSUME NEW m \in prepareMediaToAttach(r)
      PROVE  m \in seen'[r] /\ Owner[m] = req[r].user /\ Settled(m)
  <2>1. m \in req[r].photos /\ m \in rows \ hidden /\ Owner[m] = req[r].user
    BY DEF prepareMediaToAttach
  <2>2. Running(r)' /\ MediaOf(r) = req[r].photos /\ req' = req /\ rows' \subseteq MediaIds
    BY <1>1, <1>2, <1>3 DEF Running, MediaOf, Typed, TypeOK, MediaTypeOK, Alone
  <2>3. m \in seen'[r]
    BY <1>1, <1>2, <2>1, <2>2, Observed
  <2> QED
    BY <2>1, <2>3 DEF MInv, RowsSettled
<1>5. Fit(r, mem[r])'
  BY <1>3, <1>4 DEF Fit, Settled, Alone
<1>6. StageOK(r)'
  BY <1>1, <1>2, <1>3, <1>5 DEF StageOK, MediaStageOK, AdsStageOK, Labels, Alone, NoAnswer
<1> QED
  BY <1>1, <1>6, Proceeds DEF Labels

LEMMA EditAdStep ==
  ASSUME MInv, NEW r \in Requests, editAd(r), ObserveMedia
  PROVE  MInv'
<1> DEFINE i == req[r].ad
<1>1. pc[r] = "queued" /\ req[r].op = "editAdv"
      /\ UNCHANGED <<rows, hidden, objects, access, ads, nextId>>
  BY DEF editAd, Taken, mediaVars, adsVars
<1>2. Typed /\ StageOK(r)
  BY DEF MInv, StagesOK
<1>3. CASE AdsController(r, 404, Nothing)
  BY <1>1, <1>3, AdsRefuses DEF Refusals
<1>4. CASE i \in DOMAIN ads /\ GoOn(r, "editing", IF ads[i].filter = Nothing THEN <<>> ELSE ads[i].filter)
  <2> DEFINE read == IF ads[i].filter = Nothing THEN <<>> ELSE ads[i].filter
  <2>1. DOMAIN read \subseteq FilterFields
    BY <1>2, <1>4 DEF Typed, TypeOK
  <2> HIDE DEF read
  <2>2. GoOn(r, "editing", read)
    BY <1>4 DEF read
  <2>3. Alone(r) /\ pc'[r] = "editing" /\ mem'[r] = read /\ told' = told
    BY <1>1, <1>2, <2>2, GoesOn
  <2>4. StageOK(r)'
    BY <1>1, <1>2, <1>4, <2>1, <2>3 DEF StageOK, MediaStageOK, AdsStageOK, Labels, Alone, NoAnswer
  <2> QED
    BY <1>1, <2>2, <2>4, Proceeds DEF Labels
<1> QED
  BY <1>3, <1>4 DEF editAd, OwnAd

LEMMA FindAdStep ==
  ASSUME MInv, NEW r \in Requests, publishAdv(r) \/ archiveAdv(r), ObserveMedia
  PROVE  MInv'
<1>1. pc[r] = "queued" /\ req[r].op \in {"publishAdv", "archiveAdv"}
      /\ UNCHANGED <<rows, hidden, objects, access, ads, nextId>>
  BY DEF publishAdv, archiveAdv, Taken, mediaVars, adsVars
<1>2. Typed /\ StageOK(r)
  BY DEF MInv, StagesOK
<1>3. CASE AdsController(r, 404, Nothing)
  BY <1>1, <1>3, AdsRefuses DEF Refusals
<1>4. CASE OwnAd(r) /\ \E label \in {"publishing", "archiving"} :
             GoOn(r, label, Nothing) /\ req[r].op = IF label = "publishing" THEN "publishAdv" ELSE "archiveAdv"
  <2>1. PICK label \in {"publishing", "archiving"} :
          GoOn(r, label, Nothing) /\ req[r].op = IF label = "publishing" THEN "publishAdv" ELSE "archiveAdv"
    BY <1>4
  <2>2. Alone(r) /\ pc'[r] = label /\ told' = told
    BY <1>1, <1>2, <2>1, GoesOn
  <2>3. StageOK(r)'
    BY <1>1, <1>2, <1>4, <2>1, <2>2 DEF StageOK, MediaStageOK, AdsStageOK, Labels, Alone, NoAnswer, OwnAd
  <2> QED
    BY <1>1, <2>1, <2>3, Proceeds DEF Labels
<1> QED
  BY <1>3, <1>4 DEF publishAdv, archiveAdv, Taken

LEMMA SearchStep ==
  ASSUME MInv, NEW r \in Requests, getSuitableAds(r) \/ ReadPage(r), ObserveMedia
  PROVE  MInv'
<1>0. ReadPage(r) => pc[r] = "paging" /\ UNCHANGED <<adsVars, mediaVars>>
  BY Zenon DEF ReadPage
<1>1. pc[r] \in {"queued", "paging"} /\ req[r].op = "getSuitableAdvertisements"
      /\ UNCHANGED <<rows, hidden, objects, access, ads, nextId>>
  BY <1>0 DEF MInv, StagesOK, StageOK, AdsStageOK, getSuitableAds, Taken, mediaVars, adsVars
<1>2. pc[r] = "paging" => req[r].user \in DOMAIN Profile
  BY DEF MInv, StagesOK, StageOK, AdsStageOK
<1>3. CASE \E e \in {404, 500} : \E result : AdsController(r, e, result)
  BY <1>1, <1>3, AdsRefuses DEF Refusals
<1>4. CASE \E found : AdsController(r, Success, found)
  <2>1. PICK found : Finish(r, Success, 200, found)
    BY <1>1, <1>4 DEF AdsController, api_ads
  <2>2. Alone(r) /\ pc'[r] = "done" /\ RpcTypeOK'
    BY <1>1, <2>1, Finishes DEF MInv, StagesOK, Statuses
  <2>3. StageOK(r)'
    BY <1>1, <2>2 DEF StageOK, MediaStageOK, AdsStageOK, Labels, Alone
  <2>4. ~ LeftFile(r) /\ ~ LeftRow(r)
    BY <1>1 DEF LeftFile, LeftRow
  <2> QED
    BY <1>1, <2>2, <2>3, <2>4, QuietStep
<1>5. CASE req[r].user \in DOMAIN Profile /\ \E value : GoOn(r, "paging", value)
  <2>1. PICK value : GoOn(r, "paging", value)
    BY <1>5
  <2>2. Alone(r) /\ pc'[r] = "paging" /\ told' = told
    BY <1>1, <2>1, GoesOn DEF MInv
  <2>3. StageOK(r)'
    BY <1>1, <1>5, <2>2 DEF MInv, StagesOK, StageOK, MediaStageOK, AdsStageOK, Labels, Alone, NoAnswer
  <2> QED
    BY <1>1, <2>1, <2>3, Proceeds DEF Labels
<1>6. CASE getSuitableAds(r)
  BY <1>3, <1>5, <1>6 DEF getSuitableAds
<1>7. CASE ReadPage(r)
  <2> DEFINE batch == Batch(r, mem[r].last)
             kept  == {i \in batch : matchesMutualFilters(Profile[req[r].user], ads[i].filter)}
             found == mem[r].found \o ById(kept)
  <2>1. /\ pc[r] = "paging"
        /\ \/ AdsController(r, 500, Nothing)
           \/ GoOn(r, "paging", [last |-> Max(batch), found |-> found])
           \/ AdsController(r, IF found = <<>> THEN 404 ELSE Success, found)
    BY <1>7, Zenon DEF ReadPage
  <2> HIDE DEF batch, found
  <2> QED
    BY <1>2, <1>3, <1>4, <1>5, <2>1
<1> QED
  BY <1>6, <1>7

LEMMA AdsFailsStep ==
  ASSUME MInv, NEW r \in Requests, AdsFails(r) \/ RefuseEmpty(r), ObserveMedia
  PROVE  MInv'
<1>1. /\ pc[r] \notin {"done", "lost"} /\ req[r].op \in AdsOps
      /\ \E e \in Refusals : AdsController(r, e, Nothing)
      /\ UNCHANGED <<rows, hidden, objects, access, ads, nextId>>
  BY DEF AdsFails, RefuseEmpty, Empty, AdsOps, Running, Refusals, mediaVars, adsVars
<1>2. pc[r] \notin {"storing", "destroying"}
  BY <1>1 DEF MInv, StagesOK, StageOK, MediaStageOK, AdsOps
<1> QED
  BY <1>1, <1>2, AdsRefuses

-----------------------------------------------------------------------------
(* Ads: the steps that write.                                               *)
LEMMA AdsWrites ==
  ASSUME MInv, NEW r \in Requests, Alone(r), RpcTypeOK', ObserveMedia,
         UNCHANGED <<rows, hidden, objects, access>>,
         pc[r] \notin {"storing", "destroying"},
         nextId' \in Nat \ {0}, DOMAIN ads' \subseteq 1..(nextId' - 1),
         \A i \in DOMAIN ads' :
           /\ DOMAIN ads'[i] = AdFields
           /\ ads'[i].user \in Users
           /\ ads'[i].status \in AdStatuses
           /\ ads'[i].filter = Nothing \/ DOMAIN ads'[i].filter \subseteq FilterFields
           /\ ads'[i].photos \subseteq rows,
         KeepsAds(r), StageOK(r)'
  PROVE  MInv'
<1>1. Typed /\ req' = req /\ rows' \subseteq MediaIds
  BY DEF MInv, Alone, Typed, TypeOK, MediaTypeOK
<1>2. Watched
  BY <1>1, Observed
<1>3. MediaTypeOK'
  BY <1>1, <1>2 DEF Typed, TypeOK, MediaTypeOK, Watched
<1>4. TypeOK'
  BY <1>3 DEF TypeOK
<1>5. KeepsMedia(r)
  BY DEF KeepsMedia, LeftFile, LeftRow, Ill, Alone
<1> QED
  BY <1>2, <1>4, <1>5, StepKept

LEMMA CreatedFilter ==
  ASSUME NEW targetFilters,
         targetFilters = Nothing \/ DOMAIN targetFilters \subseteq FilterFields
  PROVE  CreateAdvDTO(targetFilters) = Nothing \/ DOMAIN CreateAdvDTO(targetFilters) \subseteq FilterFields
<1>1. DOMAIN AdTargetFiltersDTO = FilterFields
  BY DEF AdTargetFiltersDTO, FilterFields
<1>2. DOMAIN Spread(AdTargetFiltersDTO, targetFilters) = DOMAIN AdTargetFiltersDTO \union DOMAIN targetFilters
  BY DEF Spread
<1> QED
  BY <1>1, <1>2 DEF CreateAdvDTO

(* Columns that a body names change the author and the status of a row only. *)
LEMMA RowOverwritten ==
  ASSUME NEW row, DOMAIN row = AdFields, row.user \in Users, row.status \in AdStatuses,
         NEW columns, DOMAIN columns \subseteq {"text", "user", "status"},
         "user" \in DOMAIN columns => columns.user \in Users,
         "status" \in DOMAIN columns => columns.status \in AdStatuses
  PROVE  LET over == Overwritten(row, columns) IN
         /\ DOMAIN over = AdFields /\ over.user \in Users /\ over.status \in AdStatuses
         /\ over.filter = row.filter /\ over.photos = row.photos /\ over.by = row.by
         /\ over.user = IF "user" \in DOMAIN columns THEN columns["user"] ELSE row.user
         /\ over.status = IF "status" \in DOMAIN columns THEN columns["status"] ELSE row.status
BY DEF Overwritten, AdFields

LEMMA InsertAdStep ==
  ASSUME MInv, NEW r \in Requests, InsertAd(r), ObserveMedia
  PROVE  MInv'
<1>1. pc[r] = "inserting" /\ UNCHANGED <<rows, hidden, objects, access, ads>>
  BY DEF InsertAd, mediaVars
<1>2. Typed /\ StageOK(r) /\ req[r].op = "createAdv" /\ Fit(r, mem[r])
  BY <1>1 DEF MInv, StagesOK, StageOK, AdsStageOK
<1>3. CASE UNCHANGED nextId /\ AdsController(r, 400, Nothing)
  BY <1>1, <1>3, AdsRefuses DEF Refusals
<1>4. CASE /\ FilterAccepted(CreateAdvDTO(req[r].targetFilters))
           /\ nextId' = nextId + 1 /\ GoOn(r, "attaching", [id |-> nextId, photos |-> mem[r]])
  <2>1. Alone(r) /\ pc'[r] = "attaching" /\ mem'[r] = [id |-> nextId, photos |-> mem[r]]
        /\ told' = told /\ RpcTypeOK'
    BY <1>1, <1>2, <1>4, GoesOn
  <2>2. /\ nextId \in Nat \ {0} /\ DOMAIN ads \subseteq 1..(nextId - 1)
        /\ \A i \in DOMAIN ads : ads[i].photos \subseteq rows
    BY <1>2 DEF Typed, TypeOK
  <2>3. nextId' \in Nat \ {0} /\ DOMAIN ads' \subseteq 1..(nextId' - 1)
        /\ nextId \in 1..(nextId' - 1) \ DOMAIN ads'
    BY <1>1, <1>4, <2>2
  <2>4. KeepsAds(r)
    BY <1>1, <1>4, <2>1, <2>2, <2>3 DEF KeepsAds, MInv, AdsOK, AdOK
  <2>5. Watched
    BY <1>1, <1>2, <2>1, Observed DEF Typed, TypeOK, MediaTypeOK, Alone
  <2>6. Fit(r, mem[r].photos)'
    BY <1>2, <2>1, <2>5, FitStays DEF Fit
  <2>7. StageOK(r)'
    BY <1>1, <1>2, <1>4, <2>1, <2>3, <2>6 DEF StageOK, MediaStageOK, AdsStageOK, Labels, Alone, NoAnswer
  <2> QED
    BY <1>1, <1>2, <2>1, <2>3, <2>4, <2>7, AdsWrites DEF Typed, TypeOK
<1> QED
  BY <1>3, <1>4 DEF InsertAd

LEMMA AttachMediaStep ==
  ASSUME MInv, NEW r \in Requests, AttachMedia(r), ObserveMedia
  PROVE  MInv'
<1> DEFINE base == [user |-> req[r].user, status |-> "DRAFT", filter |-> CreateAdvDTO(req[r].targetFilters),
                    photos |-> mem[r].photos, by |-> r]
           new  == Overwritten(base, req[r].columns)
<1>1. pc[r] = "attaching" /\ UNCHANGED <<rows, hidden, objects, access, nextId>>
  BY DEF AttachMedia, mediaVars
<1>2. /\ Typed /\ StageOK(r) /\ req[r].op = "createAdv" /\ Fit(r, mem[r].photos)
      /\ FilterAccepted(CreateAdvDTO(req[r].targetFilters))
      /\ mem[r].id \in 1..(nextId - 1) \ DOMAIN ads
  BY <1>1 DEF MInv, StagesOK, StageOK, AdsStageOK
<1> PICK j \in 1..(nextId - 1) \ DOMAIN ads : j = mem[r].id
  BY <1>2
<1>3. CASE UNCHANGED ads /\ \E e \in {400, 500} : AdsController(r, e, Nothing)
  BY <1>1, <1>3, AdsRefuses DEF Refusals
<1>4. CASE mem[r].photos \subseteq rows /\ ads' = CommittedAd(r)
           /\ (AdsController(r, Success, mem[r]) \/ AdsController(r, 500, Nothing))
  <2>1. /\ Alone(r) /\ pc'[r] = "done" /\ RpcTypeOK'
        /\ told'[r] \in {201, 500}
        /\ told'[r] = 201 => mem'[r] = mem[r]
    <3>1. 201 \in Statuses /\ 500 \in Refusals /\ Success # 500
      BY DEF Statuses, Refusals, Success
    <3>2. CASE AdsController(r, Success, mem[r])
      BY <1>1, <1>2, <3>1, <3>2, Finishes DEF AdsController, api_ads
    <3>3. CASE AdsController(r, 500, Nothing)
      BY <1>1, <1>2, <3>1, <3>3, Finishes DEF AdsController, api_ads
    <3> QED
      BY <1>4, <3>2, <3>3
  <2>2. ads' = [i \in DOMAIN ads \union {j} |-> IF i = j THEN new ELSE ads[i]]
    BY <1>4 DEF CommittedAd
  <2>3. /\ DOMAIN new = AdFields /\ new.user \in Users /\ new.status \in AdStatuses
        /\ new.filter = CreateAdvDTO(req[r].targetFilters) /\ new.photos = mem[r].photos /\ new.by = r
    <3>1. /\ DOMAIN base = AdFields /\ base.user \in Users /\ base.status \in AdStatuses
          /\ base.filter = CreateAdvDTO(req[r].targetFilters) /\ base.photos = mem[r].photos /\ base.by = r
      BY <1>2, Asked DEF AdFields, AdStatuses, Typed
    <3>2. /\ DOMAIN req[r].columns \subseteq {"text", "user", "status"}
          /\ "user" \in DOMAIN req[r].columns => req[r].columns.user \in Users
          /\ "status" \in DOMAIN req[r].columns => req[r].columns.status \in AdStatuses
      BY <1>2, Asked DEF Typed
    <3> HIDE DEF base
    <3> QED
      BY <3>1, <3>2, RowOverwritten
  <2> HIDE DEF new
  <2>4. /\ DOMAIN ads' = DOMAIN ads \union {j} /\ ads'[j] = new
        /\ \A i \in DOMAIN ads : ads'[i] = ads[i]
    BY <1>2, <2>2
  <2>5. Watched
    BY <1>1, <1>2, <2>1, Observed DEF Typed, TypeOK, MediaTypeOK, Alone
  <2>6. told'[r] = 201 => Fit(r, mem[r].photos)'
    BY <1>2, <2>1, <2>5, FitStays DEF Fit
  <2>7. AdOK(j)'
    <3>1. \A m \in mem[r].photos : m \in seen'[r] /\ Owner[m] = req'[r].user
      BY <1>2, <2>1, <2>5 DEF Fit, Watched, Alone
    <3> QED
      BY <1>2, <2>1, <2>3, <2>4, <3>1 DEF AdOK
  <2>8. KeepsAds(r)
    <3>1. nextId \in Nat /\ nextId <= nextId
          /\ \A i \in DOMAIN ads : ads[i].photos \subseteq rows /\ FilterAccepted(ads[i].filter)
      BY <1>2 DEF Typed, TypeOK, MInv, AdsOK, AdOK
    <3> QED
      BY <1>1, <2>1, <2>4, <2>7, <3>1 DEF KeepsAds
  <2>9. StageOK(r)'
    <3>1. req' = req /\ told'[r] # NoAnswer /\ told'[r] # 200 /\ told'[r] # 204
      BY <2>1 DEF Alone, NoAnswer
    <3>2. MediaStageOK(r)'
      BY <1>2, <2>1, <3>1 DEF MediaStageOK
    <3>3. ASSUME told'[r] = 201
          PROVE  /\ mem'[r].id \in DOMAIN ads' /\ ads'[mem'[r].id].by = r
                 /\ ads'[mem'[r].id].photos = mem'[r].photos \intersect rows'
                 /\ Fit(r, mem[r].photos)'
      BY <1>1, <1>4, <2>1, <2>3, <2>4, <2>6, <3>3
    <3>4. AdsStageOK(r)'
      BY <2>1, <3>1, <3>3 DEF AdsStageOK
    <3> QED
      BY <2>1, <3>2, <3>4 DEF StageOK, Labels
  <2>10. /\ new.filter = Nothing \/ DOMAIN new.filter \subseteq FilterFields
    BY <1>2, <2>3, Asked, CreatedFilter DEF Typed
  <2>11. \A i \in DOMAIN ads' :
           /\ DOMAIN ads'[i] = AdFields
           /\ ads'[i].user \in Users
           /\ ads'[i].status \in AdStatuses
           /\ ads'[i].filter = Nothing \/ DOMAIN ads'[i].filter \subseteq FilterFields
           /\ ads'[i].photos \subseteq rows
    BY <1>2, <1>4, <2>3, <2>4, <2>10 DEF Typed, TypeOK
  <2>12. nextId' \in Nat \ {0} /\ DOMAIN ads' \subseteq 1..(nextId' - 1)
    BY <1>1, <1>2, <2>4 DEF Typed, TypeOK
  <2> QED
    BY <1>1, <2>1, <2>8, <2>9, <2>11, <2>12, AdsWrites
<1> QED
  BY <1>3, <1>4 DEF AttachMedia

(* A row is replaced: another author, status or filter, the same photos.    *)
Replaces(r, i, row) ==
  /\ pc[r] \in {"editing", "publishing", "archiving"} /\ AdsController(r, Success, Nothing)
  /\ i \in DOMAIN ads /\ ads' = [ads EXCEPT ![i] = row]
  /\ DOMAIN row = AdFields /\ row.user \in Users /\ row.status \in AdStatuses
  /\ row.filter = Nothing \/ DOMAIN row.filter \subseteq FilterFields
  /\ FilterAccepted(row.filter)
  /\ row.photos = ads[i].photos /\ row.by = ads[i].by

LEMMA AdReplaced ==
  ASSUME MInv, ObserveMedia, UNCHANGED <<rows, hidden, objects, access, nextId>>,
         NEW r \in Requests, NEW i, NEW row, Replaces(r, i, row)
  PROVE  MInv'
<1> USE DEF Replaces
<1>1. Typed /\ StageOK(r) /\ req[r].op \in {"editAdv", "publishAdv", "archiveAdv"}
  BY DEF MInv, StagesOK, StageOK, AdsStageOK
<1>2. Finish(r, Success, 200, Nothing) /\ 200 \in Statuses
  BY <1>1 DEF AdsController, api_ads, Statuses
<1>3. Alone(r) /\ pc'[r] = "done" /\ RpcTypeOK'
  BY <1>1, <1>2, Finishes
<1>4. ASSUME NEW k \in DOMAIN ads
      PROVE  /\ DOMAIN ads'[k] = AdFields /\ ads'[k].user \in Users
             /\ ads'[k].by = ads[k].by /\ ads'[k].photos = ads[k].photos
             /\ ads'[k].status \in AdStatuses
             /\ ads'[k].filter = Nothing \/ DOMAIN ads'[k].filter \subseteq FilterFields
             /\ FilterAccepted(ads'[k].filter)
  <2>1. /\ DOMAIN ads[k] = AdFields /\ ads[k].user \in Users /\ ads[k].status \in AdStatuses
        /\ ads[k].filter = Nothing \/ DOMAIN ads[k].filter \subseteq FilterFields
        /\ FilterAccepted(ads[k].filter)
    BY <1>1 DEF Typed, TypeOK, MInv, AdsOK, AdOK
  <2>2. CASE k = i
    BY <2>2
  <2>3. CASE k # i
    BY <2>1, <2>3
  <2> QED
    BY <2>2, <2>3
<1>5. /\ nextId \in Nat \ {0} /\ nextId <= nextId /\ DOMAIN ads \subseteq 1..(nextId - 1)
      /\ \A k \in DOMAIN ads : ads[k].photos \subseteq rows
  BY <1>1 DEF Typed, TypeOK
<1>6. DOMAIN ads' = DOMAIN ads
  OBVIOUS
<1>7. KeepsAds(r)
  BY <1>3, <1>4, <1>5, <1>6 DEF KeepsAds
<1>8. StageOK(r)'
  BY <1>1, <1>3 DEF StageOK, MediaStageOK, AdsStageOK, Labels, Alone
<1> QED
  BY <1>3, <1>4, <1>5, <1>6, <1>7, <1>8, AdsWrites

LEMMA UpdateAdStep ==
  ASSUME MInv, NEW r \in Requests, UpdateAd(r), ObserveMedia
  PROVE  MInv'
<1> DEFINE i == req[r].ad
           filter == Spread(mem[r], EditAdvDTO(req[r].targetFilters))
           base == [ads[i] EXCEPT !.filter = filter]
<1>1. pc[r] = "editing" /\ UNCHANGED <<rows, hidden, objects, access, nextId>>
  BY DEF UpdateAd, mediaVars
<1>2. /\ Typed /\ req[r].op = "editAdv" /\ i \in DOMAIN ads /\ DOMAIN mem[r] \subseteq FilterFields
      /\ DOMAIN ads[i] = AdFields /\ ads[i].user \in Users /\ ads[i].status \in AdStatuses
  BY <1>1 DEF MInv, StagesOK, StageOK, AdsStageOK, Typed, TypeOK
<1>3. CASE UNCHANGED ads /\ AdsController(r, 400, Nothing)
  BY <1>1, <1>3, AdsRefuses DEF Refusals
<1>4. CASE /\ validateAdvFilter(filter)
           /\ ads' = [ads EXCEPT ![i] = Overwritten([@ EXCEPT !.filter = filter], req[r].columns)]
           /\ AdsController(r, Success, Nothing)
  <2>1. DOMAIN EditAdvDTO(req[r].targetFilters) \subseteq FilterFields
    BY <1>2, Asked DEF EditAdvDTO, Typed
  <2>2. DOMAIN filter \subseteq FilterFields /\ FilterAccepted(filter)
    BY <1>2, <1>4, <2>1 DEF Spread, FilterAccepted
  <2> HIDE DEF filter
  <2>3. /\ DOMAIN base = AdFields /\ base.user \in Users /\ base.status \in AdStatuses
        /\ base.filter = filter /\ base.photos = ads[i].photos /\ base.by = ads[i].by
    BY <1>2 DEF AdFields
  <2>4. /\ DOMAIN req[r].columns \subseteq {"text", "user", "status"}
        /\ "user" \in DOMAIN req[r].columns => req[r].columns.user \in Users
        /\ "status" \in DOMAIN req[r].columns => req[r].columns.status \in AdStatuses
    BY <1>2, Asked DEF Typed
  <2>5. ads' = [ads EXCEPT ![i] = Overwritten(base, req[r].columns)]
    BY <1>4
  <2> HIDE DEF base
  <2> DEFINE row == Overwritten(base, req[r].columns)
  <2>6. /\ DOMAIN row = AdFields /\ row.user \in Users /\ row.status \in AdStatuses
        /\ row.filter = filter /\ row.photos = ads[i].photos /\ row.by = ads[i].by
    BY <2>3, <2>4, RowOverwritten
  <2>7. ads' = [ads EXCEPT ![i] = row]
    BY <2>5
  <2> HIDE DEF row
  <2>8. Replaces(r, i, row)
    BY <1>1, <1>2, <1>4, <2>2, <2>6, <2>7 DEF Replaces
  <2> QED
    BY <1>1, <2>8, AdReplaced
<1> QED
  BY <1>3, <1>4 DEF UpdateAd

LEMMA SetStatusStep ==
  ASSUME MInv, NEW r \in Requests, SetStatus(r), ObserveMedia
  PROVE  MInv'
<1> DEFINE i == req[r].ad
           status == IF pc[r] = "publishing" THEN "ACTIVE" ELSE "ARCHIVED"
           row == [ads[i] EXCEPT !.status = status]
<1>1. /\ pc[r] \in {"publishing", "archiving"} /\ UNCHANGED <<rows, hidden, objects, access, nextId>>
      /\ ads' = [ads EXCEPT ![i].status = status] /\ AdsController(r, Success, Nothing)
  BY DEF SetStatus, mediaVars
<1>2. /\ i \in DOMAIN ads /\ DOMAIN ads[i] = AdFields /\ FilterAccepted(ads[i].filter)
      /\ ads[i].user \in Users
      /\ ads[i].filter = Nothing \/ DOMAIN ads[i].filter \subseteq FilterFields
  BY <1>1 DEF MInv, StagesOK, StageOK, AdsStageOK, Typed, TypeOK, AdsOK, AdOK
<1>3. status \in AdStatuses
  BY DEF AdStatuses
<1> HIDE DEF status
<1>4. /\ DOMAIN row = AdFields /\ row.user = ads[i].user /\ row.status = status
      /\ row.filter = ads[i].filter /\ row.photos = ads[i].photos /\ row.by = ads[i].by
  BY <1>2 DEF AdFields
<1>5. ads' = [ads EXCEPT ![i] = row]
  BY <1>1
<1> HIDE DEF row
<1>6. Replaces(r, i, row)
  BY <1>1, <1>2, <1>3, <1>4, <1>5 DEF Replaces
<1> QED
  BY <1>1, <1>6, AdReplaced

-----------------------------------------------------------------------------
(* What the transport does: sending, refusing a token, giving up, expiring. *)
LEMMA SendStep ==
  ASSUME MInv, NEW r \in Requests, SendRequest(r), ObserveMedia
  PROVE  MInv'
<1>1. /\ pc[r] = "new" /\ pc' = [pc EXCEPT ![r] = "queued"] /\ UNCHANGED <<req, mem, told, crashes>>
      /\ UNCHANGED <<rows, hidden, objects, access, ads, nextId>>
  BY DEF SendRequest, Send, adsVars, mediaVars
<1>2. Typed /\ StageOK(r) /\ told[r] = NoAnswer
  BY <1>1 DEF MInv, StagesOK, StageOK
<1>3. Alone(r) /\ RpcTypeOK' /\ pc'[r] = "queued" /\ told'[r] = NoAnswer
  BY <1>1, <1>2 DEF Alone, Typed, TypeOK, RpcTypeOK
<1>4. StageOK(r)'
  BY <1>3 DEF StageOK, MediaStageOK, AdsStageOK, Labels, NoAnswer
<1>5. ~ LeftFile(r) /\ ~ LeftRow(r)
  BY <1>1 DEF LeftFile, LeftRow, Ill
<1> QED
  BY <1>1, <1>3, <1>4, <1>5, QuietStep

LEMMA AuthenticateStep ==
  ASSUME MInv, NEW r \in Requests, authenticate(r), ObserveMedia,
         UNCHANGED <<rows, hidden, objects, access, ads, nextId>>
  PROVE  MInv'
<1>1. /\ pc[r] = "new" /\ pc' = [pc EXCEPT ![r] = "done"] /\ UNCHANGED <<req, mem, crashes>>
      /\ Tell(r, 401)
  BY DEF authenticate
<1>2. Typed /\ StageOK(r) /\ told[r] = NoAnswer /\ 401 \in Statuses /\ 401 \in Refusals
  BY <1>1 DEF MInv, StagesOK, StageOK, Statuses, Refusals
<1>3. told' = [told EXCEPT ![r] = 401]
  BY <1>1, <1>2 DEF Tell
<1>4. Alone(r) /\ RpcTypeOK' /\ pc'[r] = "done" /\ told'[r] \in Refusals
  BY <1>1, <1>2, <1>3 DEF Alone, Typed, TypeOK, RpcTypeOK
<1>5. StageOK(r)'
  BY <1>4, RefusedStage
<1>6. ~ LeftFile(r) /\ ~ LeftRow(r)
  BY <1>1 DEF LeftFile, LeftRow, Ill
<1> QED
  BY <1>4, <1>5, <1>6, QuietStep

LEMMA GiveUpStep ==
  ASSUME MInv, NEW r \in Requests, GiveUp(r), ObserveMedia,
         UNCHANGED <<rows, hidden, objects, access, ads, nextId>>
  PROVE  MInv'
<1>1. /\ pc[r] \notin {"new", "done", "lost"} /\ UNCHANGED <<req, pc, mem, crashes>>
      /\ told' = [told EXCEPT ![r] = 500]
  BY NothingIsNoStatus DEF GiveUp, Running, Tell, TekeroError
<1>2. Typed /\ StageOK(r) /\ 500 \in Statuses
  BY DEF MInv, StagesOK, Statuses
<1>3. Alone(r) /\ RpcTypeOK' /\ told'[r] = 500 /\ pc'[r] = pc[r] /\ mem'[r] = mem[r]
  BY <1>1, <1>2 DEF Alone, Typed, TypeOK, RpcTypeOK
<1>4. Watched
  <2>1. req' = req /\ rows' \subseteq MediaIds
    BY <1>2, <1>3 DEF Alone, Typed, TypeOK, MediaTypeOK
  <2> QED
    BY <1>2, <2>1, Observed
<1>5. StageOK(r)'
  <2>1. MediaStageOK(r)'
    <3>1. Settled(req[r].media) => Settled(req[r].media)'
      BY <1>3, SettledStays DEF Alone, Settled
    <3> QED
      BY <1>1, <1>2, <1>3, <1>4, <3>1 DEF StageOK, MediaStageOK, Alone, Watched
  <2>2. \A S : Fit(r, S) => Fit(r, S)'
    BY <1>3, <1>4, FitStays DEF Fit
  <2>3. AdsStageOK(r)'
    BY <1>1, <1>2, <1>3, <2>2 DEF StageOK, AdsStageOK, Alone, Fit
  <2> QED
    BY <1>1, <1>2, <1>3, <2>1, <2>3 DEF StageOK
<1>6. (LeftFile(r) => LeftFile(r)') /\ (LeftRow(r) => LeftRow(r)')
  BY <1>1, <1>3 DEF LeftFile, LeftRow, Ill, Alone
<1> QED
  BY <1>3, <1>5, <1>6, QuietStep

LEMMA ExpireStep ==
  ASSUME MInv, NEW r \in Requests, Expire(r), ObserveMedia,
         UNCHANGED <<rows, hidden, objects, access, ads, nextId>>
  PROVE  MInv'
<1>1. /\ pc[r] = "queued" /\ pc' = [pc EXCEPT ![r] = "lost"] /\ UNCHANGED <<req, mem, told, crashes>>
      /\ told[r] # NoAnswer
  BY DEF Expire
<1>2. Typed /\ StageOK(r) /\ told[r] = 500
  BY <1>1 DEF MInv, StagesOK, StageOK
<1>3. Alone(r) /\ RpcTypeOK' /\ pc'[r] = "lost" /\ told'[r] = 500
  BY <1>1, <1>2 DEF Alone, Typed, TypeOK, RpcTypeOK
<1>4. StageOK(r)'
  BY <1>3 DEF StageOK, MediaStageOK, AdsStageOK, Labels, NoAnswer
<1>5. ~ LeftFile(r) /\ ~ LeftRow(r)
  BY <1>1 DEF LeftFile, LeftRow, Ill
<1> QED
  BY <1>3, <1>4, <1>5, QuietStep

(* The process dies in the middle of any number of requests.                *)
LEMMA CrashStep ==
  ASSUME MInv, Crash, ObserveMedia, UNCHANGED <<rows, hidden, objects, access, ads, nextId>>
  PROVE  MInv'
<1>1. Typed /\ UNCHANGED <<req, mem>> /\ crashes < CrashBound /\ crashes' = crashes + 1
  BY DEF MInv, Crash
<1>2. ASSUME NEW q \in Requests
      PROVE  /\ pc'[q] \in {pc[q], "lost"} /\ told'[q] \in {told[q], 500}
             /\ pc[q] \in {"new", "done", "lost"} => pc'[q] = pc[q] /\ told'[q] = told[q]
             /\ pc'[q] = "new" => pc[q] = "new"
  BY <1>2 DEF Crash, Running
<1>3. RpcTypeOK'
  <2>1. crashes' \in 0..CrashBound
    BY <1>1, CrashBoundAssumption DEF Typed, TypeOK, RpcTypeOK
  <2>2. /\ DOMAIN pc' = Requests /\ told' \in [Requests -> Statuses \union {NoAnswer}]
    BY <1>1 DEF Typed, TypeOK, RpcTypeOK, Crash, Statuses
  <2> QED
    BY <1>1, <2>1, <2>2 DEF Typed, TypeOK, RpcTypeOK
<1>4. Watched
  BY <1>1, Observed DEF Typed, TypeOK, MediaTypeOK
<1>5. MediaTypeOK'
  BY <1>1, <1>4 DEF Typed, TypeOK, MediaTypeOK, Watched
<1>6. Typed'
  BY <1>1, <1>3, <1>5 DEF Typed, TypeOK
<1>7. \A m : Settled(m) => Settled(m)'
  BY <1>1, <1>2 DEF Settled
<1>8. ASSUME NEW q \in Requests, NEW S, Fit(q, S) PROVE Fit(q, S)'
  BY <1>1, <1>4, <1>7, <1>8 DEF Fit, Watched
<1>9. ASSUME NEW q \in Requests PROVE StageOK(q)'
  <2>1. StageOK(q)
    BY DEF MInv, StagesOK
  <2>2. MediaStageOK(q)'
    <3>1. MayHaveUrl(q) => MayHaveUrl(q)'
      BY <1>1, <1>4 DEF MayHaveUrl, Watched
    <3>2. Settled(req[q].media) => Settled(req[q].media)'
      BY <1>1, <1>7 DEF Settled
    <3> QED
      BY <1>1, <1>2, <1>4, <2>1, <3>1, <3>2 DEF StageOK, MediaStageOK, Watched
  <2>3. AdsStageOK(q)'
    BY <1>1, <1>2, <1>8, <2>1 DEF StageOK, AdsStageOK, Fit
  <2> QED
    BY <1>1, <1>2, <2>1, <2>2, <2>3 DEF StageOK, Labels, NoAnswer
<1>10. RowsSettled'
  BY <1>1, <1>7 DEF MInv, RowsSettled
<1>11. StorageOK'
  BY <1>1, <1>2 DEF MInv, StorageOK, LeftFile, LeftRow, Ill
<1>12. IdsDistinct'
  BY <1>1, <1>2 DEF MInv, IdsDistinct
<1>13. AdsOK'
  BY <1>1, <1>2, <1>4 DEF MInv, AdsOK, AdOK, FilterAccepted, Watched
<1> QED
  BY <1>6, <1>9, <1>10, <1>11, <1>12, <1>13 DEF MInv, StagesOK

LEMMA StutterStep ==
  ASSUME MInv, UNCHANGED vars
  PROVE  MInv'
<1>1. UNCHANGED <<req, pc, mem, told, crashes, rows, hidden, objects, access, seen, trusted, ads, nextId>>
  BY DEF vars, rpcVars, mediaVars, mediaHistory, adsVars
<1>2. Typed'
  BY <1>1 DEF MInv, Typed, TypeOK, RpcTypeOK, MediaTypeOK
<1>3. \A m : Settled(m)' <=> Settled(m)
  BY <1>1 DEF Settled
<1>4. \A q \in Requests : \A S : Fit(q, S) => Fit(q, S)'
  BY <1>1, <1>3 DEF Fit
<1>5. ASSUME NEW q \in Requests PROVE StageOK(q)'
  <2>1. StageOK(q)
    BY DEF MInv, StagesOK
  <2>2. MediaStageOK(q)'
    BY <1>1, <1>3, <2>1 DEF StageOK, MediaStageOK, MayHaveUrl
  <2>3. AdsStageOK(q)'
    BY <1>1, <1>4, <2>1 DEF StageOK, AdsStageOK, Fit
  <2> QED
    BY <1>1, <2>1, <2>2, <2>3 DEF StageOK
<1>6. RowsSettled'
  BY <1>1, <1>3 DEF MInv, RowsSettled
<1>7. StorageOK'
  BY <1>1 DEF MInv, StorageOK, LeftFile, LeftRow, Ill
<1>8. IdsDistinct' /\ AdsOK'
  BY <1>1 DEF MInv, IdsDistinct, AdsOK, AdOK, FilterAccepted
<1> QED
  BY <1>2, <1>5, <1>6, <1>7, <1>8 DEF MInv, StagesOK

-----------------------------------------------------------------------------
LEMMA InitMInv == Init => MInv
<1> SUFFICES ASSUME Init PROVE MInv
  OBVIOUS
<1>1. /\ req \in Scenarios /\ pc = [r \in Requests |-> "new"] /\ mem = [r \in Requests |-> Nothing]
      /\ told = [r \in Requests |-> NoAnswer] /\ crashes = 0
      /\ rows = OldMedia /\ hidden = {} /\ objects = OldMedia /\ access = {}
      /\ seen = [r \in Requests |-> {}] /\ trusted = {}
      /\ ads = OldAds /\ nextId = Cardinality(DOMAIN OldAds) + 1
  BY DEF Init, RpcInit, MediaInit
<1>2. RpcTypeOK
  BY <1>1, ScenariosAssumption, CrashBoundAssumption DEF RpcTypeOK
<1>3. MediaTypeOK
  BY <1>1, MediaAssumption DEF MediaTypeOK
<1>4. TypeOK
  <2>1. Cardinality(DOMAIN OldAds) \in Nat
    BY OldAdsAssumption, FS_CardinalityType
  <2>2. nextId \in Nat \ {0} /\ nextId - 1 = Cardinality(DOMAIN OldAds)
    BY <1>1, <2>1
  <2>3. \A i \in DOMAIN ads :
          /\ DOMAIN ads[i] = AdFields
          /\ ads[i].user \in Users
          /\ ads[i].status \in AdStatuses
          /\ ads[i].filter = Nothing \/ DOMAIN ads[i].filter \subseteq FilterFields
          /\ ads[i].photos \subseteq rows
    BY <1>1, OldAdsAssumption
  <2>4. DOMAIN ads \subseteq 1..(nextId - 1)
    BY <1>1, <2>2, OldAdsAssumption
  <2> QED
    BY <1>2, <1>3, <2>2, <2>3, <2>4 DEF TypeOK
<1>5. StagesOK
  BY <1>1 DEF StagesOK, StageOK, MediaStageOK, AdsStageOK, Labels, NoAnswer
<1>6. RowsSettled
  BY <1>1, Asked DEF RowsSettled, Settled
<1>7. StorageOK /\ IdsDistinct
  BY <1>1 DEF StorageOK, IdsDistinct
<1>8. AdsOK
  BY <1>1, OldAdsAssumption DEF AdsOK, AdOK
<1> QED
  BY <1>1, <1>4, <1>5, <1>6, <1>7, <1>8 DEF MInv, Typed

LEMMA MediaNextStep ==
  ASSUME MInv, NEW r \in Requests, MediaNext(r), ObserveMedia, UNCHANGED <<ads, nextId>>
  PROVE  MInv'
<1>1. UNCHANGED adsVars
  BY DEF adsVars
<1> QED
  BY <1>1, UploadStep, S3UploadStep, StoreMediaStep, GetMediaStep, CheckAccessStep, CheckMemberStep,
     DeleteMediaStep, S3DeleteStep, SetMediaPrivacyStep, SetPrivacyStep, EditMediaAccessStep,
     MediaFailsStep DEF MediaNext

LEMMA NextMInv ==
  ASSUME MInv, [Next]_vars
  PROVE  MInv'
<1>1. ASSUME NEW r \in Requests, AdsNext(r), ObserveMedia PROVE MInv'
  <2>1. CASE MediaNext(r) /\ UNCHANGED adsVars
    BY <1>1, <2>1, MediaNextStep DEF adsVars
  <2>2. CASE (authenticate(r) \/ GiveUp(r) \/ Expire(r)) /\ UNCHANGED <<adsVars, mediaVars>>
    BY <1>1, <2>2, AuthenticateStep, GiveUpStep, ExpireStep DEF adsVars, mediaVars
  <2>3. CASE RefuseEmpty(r) \/ AdsFails(r)
    BY <1>1, <2>3, AdsFailsStep
  <2>4. CASE editAd(r) \/ publishAdv(r) \/ archiveAdv(r)
    BY <1>1, <2>4, EditAdStep, FindAdStep
  <2>5. CASE getSuitableAds(r) \/ ReadPage(r)
    BY <1>1, <2>5, SearchStep
  <2> QED
    BY <1>1, <2>1, <2>2, <2>3, <2>4, <2>5, SendStep, CreateAdStep, InsertAdStep, AttachMediaStep,
       UpdateAdStep, SetStatusStep, DestroyMediaStep DEF AdsNext
<1>2. CASE Crash /\ UNCHANGED <<adsVars, mediaVars>> /\ Observe
  BY <1>2, CrashStep DEF adsVars, mediaVars, Observe
<1>3. CASE (\E r \in Requests : AdsNext(r)) /\ Observe
  BY <1>1, <1>3 DEF Observe
<1> QED
  BY <1>2, <1>3, StutterStep DEF Next

LEMMA MediaInvariance == Spec => []MInv
BY InitMInv, NextMInv, PTL DEF Spec

(* Rows, files, photos and ads keep their types: every private medium and   *)
(* every photo of an ad has a row, every id comes from the sequence.        *)
THEOREM AdsTypeCorrect == Spec => []TypeOK
<1>1. MInv => TypeOK
  BY DEF MInv, Typed
<1> QED
  BY MediaInvariance, <1>1, PTL

(* Whatever becomes of a medium while getMedia decides from what it has     *)
(* read, a url is given only to who had the right to it while his request   *)
(* ran.                                                                     *)
THEOREM UrlByRight == Spec => []UrlOnlyByRight
<1>1. MInv => UrlOnlyByRight
  BY DEF MInv, StagesOK, StageOK, MediaStageOK, MayHaveUrl, UrlOnlyByRight
<1> QED
  BY MediaInvariance, <1>1, PTL

(* A row without its file, or a file without its row, is traced to an       *)
(* upload or a delete that runs, died or failed; a confirmed delete leaves  *)
(* neither (uploadMedia, deleteMedia).                                      *)
THEOREM StorageStaysAgreed == Spec => []StorageAgrees
<1>1. ASSUME MInv PROVE StorageAgrees
  <2>1. ASSUME NEW r \in Requests, LeftFile(r) \/ LeftRow(r)
        PROVE  /\ req[r].op \in {"uploadMedia", "deleteMedia"}
               /\ Running(r) \/ pc[r] = "lost" \/ told[r] \in {400, 500}
    BY <2>1 DEF LeftFile, LeftRow, Ill, Running
  <2>2. ASSUME NEW m \in MediaIds, (m \in rows) # (m \in objects)
        PROVE  \E r \in Requests :
                 /\ req[r].op \in {"uploadMedia", "deleteMedia"} /\ req[r].media = m
                 /\ Running(r) \/ pc[r] = "lost" \/ told[r] \in {400, 500}
    <3>1. m \in objects \ rows \/ m \in rows \ objects
      BY <2>2
    <3>2. \E r \in Requests : (LeftFile(r) \/ LeftRow(r)) /\ req[r].media = m
      BY <1>1, <3>1 DEF MInv, StorageOK
    <3> QED
      BY <2>1, <3>2
  <2>3. \A r \in Requests : (req[r].op = "deleteMedia" /\ told[r] = 204) =>
          req[r].media \notin rows \union objects
    BY <1>1 DEF MInv, StagesOK, StageOK, MediaStageOK
  <2> QED
    BY <2>2, <2>3 DEF StorageAgrees
<1> QED
  BY MediaInvariance, <1>1, PTL

(* Edits of one ad in any order leave it a filter whose bounds agree        *)
(* (UpdateAd writes the whole filter it has validated).                     *)
THEOREM FiltersStayValid == Spec => []FilterAlwaysValid
<1>1. MInv => FilterAlwaysValid
  BY DEF MInv, AdsOK, AdOK, FilterAlwaysValid
<1> QED
  BY MediaInvariance, <1>1, PTL

(* The photos of an ad belong to who created it, whatever author bodies     *)
(* have given the ad, and had been public while that request ran            *)
(* (prepareMediaToAttach).                                                  *)
THEOREM PhotosHadBeenPublic == Spec => []PhotosWerePublic
<1>1. MInv => PhotosWerePublic
  BY DEF MInv, AdsOK, AdOK, PhotosWerePublic
<1> QED
  BY MediaInvariance, <1>1, PTL

(* The transaction of createAd: the ad is there with all its photos, or, if *)
(* the client is told 400, not at all.                                      *)
THEOREM CreateIsAllOrNothing == Spec => []CreateAllOrNothing
<1>1. ASSUME MInv PROVE CreateAllOrNothing
  <2> SUFFICES ASSUME NEW r \in Requests, req[r].op = "createAdv"
               PROVE  /\ told[r] = 201 => /\ mem[r].id \in DOMAIN ads /\ ads[mem[r].id].by = r
                                          /\ ads[mem[r].id].photos = mem[r].photos \intersect rows
                      /\ (told[r] = 400 /\ pc[r] = "done") => \A i \in DOMAIN ads : ads[i].by # r
    BY DEF CreateAllOrNothing
  <2>1. AdsStageOK(r)
    BY <1>1 DEF MInv, StagesOK, StageOK
  <2>2. \A i \in DOMAIN ads : ads[i].by = r => told[r] \in {201, 500}
    BY <1>1, NothingIsNoRequest DEF MInv, AdsOK, AdOK
  <2> QED
    BY <2>1, <2>2 DEF AdsStageOK
<1> QED
  BY MediaInvariance, <1>1, PTL

-----------------------------------------------------------------------------
(* What a handler holds is its client's: the photos were chosen, the medium *)
(* is his. (The ad need not be his any more.)                               *)
Rights(r) ==
  /\ pc[r] = "inserting" => mem[r] \subseteq req[r].photos
  /\ pc[r] = "attaching" => mem[r].photos \subseteq req[r].photos
  /\ pc[r] \in {"deleting", "destroying"} => Owner[req[r].media] = req[r].user

BInv == MInv /\ \A r \in Requests : Rights(r)

(* How a step of a handler ends it, and how it goes on.                     *)
Ends(r, outcome) == \E status \in Statuses : \E result : Finish(r, outcome, status, result)

LEMMA EndsServed ==
  ASSUME MInv, NEW r \in Requests, pc[r] \notin {"done", "lost"},
         NEW outcome \in Refusals \union {Success}, Ends(r, outcome)
  PROVE  /\ Board!Served(r) /\ Alone(r) /\ pc'[r] = "done"
         /\ outcome # Success => UNCHANGED ToldOk
<1>0. PICK status \in Statuses : \E result : Finish(r, outcome, status, result)
  BY DEF Ends
<1>1. PICK result : Finish(r, outcome, status, result)
  BY <1>0
<1>2. Typed /\ StageOK(r)
  BY DEF MInv, StagesOK
<1>3. /\ Alone(r) /\ pc'[r] = "done"
      /\ told'[r] \in {500, IF outcome = Success THEN status ELSE outcome}
  BY <1>1, <1>2, Finishes
<1>4. r \notin Ended /\ Ended' = Ended \union {r} /\ Allowed' = Allowed \ {r} /\ req' = req
  BY <1>3 DEF Ended, Allowed, Alone
<1>5. r \notin ToldOk
  BY <1>2 DEF StageOK, ToldOk, NoAnswer
<1>6. ToldOk' \in {ToldOk, ToldOk \union {r}}
  BY <1>3, <1>5 DEF Alone, ToldOk
<1>7. outcome # Success => UNCHANGED ToldOk
  BY <1>3, <1>5 DEF Alone, ToldOk, Refusals
<1> QED
  BY <1>3, <1>4, <1>6, <1>7 DEF Board!Served, Board!End

LEMMA EndsRefused ==
  ASSUME MInv, NEW r \in Requests, pc[r] \notin {"done", "lost"}, UNCHANGED ads,
         NEW outcome \in Refusals, Ends(r, outcome)
  PROVE  Board!BoardNext /\ Alone(r) /\ pc'[r] = "done"
<1>1. outcome # Success
  BY DEF Refusals, Success
<1>2. Board!Refuse(r)
  BY <1>1, EndsServed DEF Board!Served, Board!Refuse
<1> QED
  BY <1>2, EndsServed DEF Board!BoardNext

(* A handler that goes on is not seen, unless it has found its user to be    *)
(* the author of the ad.                                                    *)
LEMMA Unseen ==
  ASSUME MInv, NEW r \in Requests, pc[r] \notin {"done", "lost", "editing", "publishing", "archiving"},
         UNCHANGED ads, NEW value,
         NEW label \in Labels \ {"new", "done", "lost", "editing", "publishing", "archiving"},
         GoOn(r, label, value)
  PROVE  /\ UNCHANGED Board!boardVars
         /\ Alone(r) /\ pc'[r] = label /\ mem'[r] = value
<1>1. Alone(r) /\ pc'[r] = label /\ mem'[r] = value /\ told' = told
  BY GoesOn DEF MInv
<1>2. Ended' = Ended /\ Allowed' = Allowed /\ ToldOk' = ToldOk /\ req' = req
  BY <1>1 DEF Alone, Ended, Allowed, ToldOk
<1> QED
  BY <1>1, <1>2 DEF Board!boardVars

LEMMA Permitted ==
  ASSUME MInv, NEW r \in Requests, pc[r] = "queued", UNCHANGED ads, OwnAd(r),
         req[r].op \in {"editAdv", "publishAdv", "archiveAdv"},
         NEW label \in {"editing", "publishing", "archiving"}, NEW value, GoOn(r, label, value)
  PROVE  Board!BoardNext /\ Alone(r) /\ pc'[r] = label
<1>1. Alone(r) /\ pc'[r] = label /\ told' = told
  BY GoesOn DEF MInv
<1>2. /\ Ended' = Ended /\ r \notin Ended /\ Allowed' = Allowed \union {r}
      /\ ToldOk' = ToldOk /\ req' = req
  BY <1>1 DEF Alone, Ended, Allowed, ToldOk
<1>3. Board!Allow(r)
  BY <1>2 DEF Board!Allow, Board!AuthorOps, OwnAd
<1> QED
  BY <1>1, <1>3 DEF Board!BoardNext

-----------------------------------------------------------------------------
(* A step of r, as the board sees it, and what r holds after it.            *)
Shown(r) == Board!BoardNext \/ UNCHANGED Board!boardVars
Granted(r) == Alone(r) /\
  (Rights(r)' \/ pc'[r] \notin {"inserting", "attaching", "deleting", "destroying"})

LEMMA RefusedShown ==
  ASSUME MInv, NEW r \in Requests, pc[r] \notin {"done", "lost"}, UNCHANGED ads,
         NEW outcome \in Refusals, Ends(r, outcome)
  PROVE  Shown(r) /\ Granted(r)
BY EndsRefused DEF Shown, Granted

(* The steps of the media service.                                          *)
LEMMA MediaShown ==
  ASSUME BInv, NEW r \in Requests, MediaNext(r), UNCHANGED ads
  PROVE  Shown(r) /\ Granted(r)
<1>1. MInv /\ Typed /\ StageOK(r) /\ Rights(r)
  BY DEF BInv, MInv, StagesOK
<1>2. ASSUME NEW label \in {"uploading", "storing", "access", "member", "toggling"}, NEW value,
             GoOn(r, label, value), pc[r] \notin {"done", "lost", "editing", "publishing", "archiving"}
      PROVE  Shown(r) /\ Granted(r)
  BY <1>1, <1>2, Unseen DEF Labels, Shown, Granted
<1>3. ASSUME NEW label \in {"deleting", "destroying"}, NEW value,
             GoOn(r, label, value), pc[r] \notin {"done", "lost", "editing", "publishing", "archiving"},
             Owner[req[r].media] = req[r].user
      PROVE  Shown(r) /\ Granted(r)
  <2>1. UNCHANGED Board!boardVars /\ Alone(r) /\ pc'[r] = label
    BY <1>1, <1>3, Unseen DEF Labels
  <2>2. Rights(r)'
    BY <1>3, <2>1 DEF Rights, Alone
  <2> QED
    BY <2>1, <2>2 DEF Shown, Granted
<1>4. ASSUME NEW outcome \in Refusals, Ends(r, outcome), pc[r] \notin {"done", "lost"}
      PROVE  Shown(r) /\ Granted(r)
  BY <1>1, <1>4, RefusedShown
<1>5. ASSUME Ends(r, Success), pc[r] \notin {"done", "lost"}, req[r].op \in MediaOps \ {"deleteMedia"}
      PROVE  Shown(r) /\ Granted(r)
  <2>1. Board!Served(r) /\ Alone(r) /\ pc'[r] = "done"
    BY <1>1, <1>5, EndsServed
  <2>2. Board!Look(r)
    BY <1>5, <2>1 DEF Board!Look, Board!ChangeOps, Board!AuthorOps, MediaOps
  <2> QED
    BY <2>1, <2>2 DEF Shown, Granted, Board!BoardNext
<1>6. ASSUME NEW outcome, MediaController(r, outcome), req[r].op \in MediaOps \ {"uploadMedia"}
      PROVE  Ends(r, outcome)
  BY <1>6, MediaStatus DEF MediaController, Ends
<1>7. ASSUME NEW outcome, NEW result, api_uploadMedia(r, outcome, result) PROVE Ends(r, outcome)
  BY <1>7 DEF api_uploadMedia, Ends, Statuses
<1>8. 400 \in Refusals /\ 404 \in Refusals /\ 406 \in Refusals /\ 500 \in Refusals
  BY DEF Refusals
<1>9. CASE uploadMedia(r)
  BY <1>2, <1>9 DEF uploadMedia, Taken
<1>10. CASE s3_upload(r)
  BY <1>2, <1>4, <1>7, <1>8, <1>10 DEF s3_upload
<1>11. CASE StoreMedia(r)
  <2>1. pc[r] = "storing" /\ req[r].op \in MediaOps \ {"deleteMedia"}
    BY <1>1, <1>11 DEF StoreMedia, StageOK, MediaStageOK, MediaOps
  <2> QED
    BY <1>4, <1>5, <1>7, <1>8, <1>11, <2>1 DEF StoreMedia
<1>12. CASE getMedia(r)
  <2>1. pc[r] = "queued" /\ req[r].op \in MediaOps \ {"uploadMedia"}
    BY <1>12 DEF getMedia, Taken, MediaOps
  <2> QED
    BY <1>2, <1>4, <1>6, <1>8, <1>12, <2>1 DEF getMedia
<1>13. CASE CheckAccess(r)
  <2>1. pc[r] = "access" /\ req[r].op \in MediaOps \ {"uploadMedia"}
    BY <1>1, <1>13 DEF CheckAccess, StageOK, MediaStageOK, MediaOps
  <2> QED
    BY <1>2, <1>4, <1>6, <1>8, <1>13, <2>1 DEF CheckAccess
<1>14. CASE CheckMember(r)
  <2>1. pc[r] = "member" /\ req[r].op \in MediaOps \ {"uploadMedia", "deleteMedia"}
    BY <1>1, <1>14 DEF CheckMember, StageOK, MediaStageOK, MediaOps
  <2> QED
    BY <1>4, <1>5, <1>6, <1>8, <1>14, <2>1 DEF CheckMember
<1>15. CASE deleteMedia(r)
  <2>1. pc[r] = "queued" /\ req[r].op \in MediaOps \ {"uploadMedia"}
    BY <1>15 DEF deleteMedia, Taken, MediaOps
  <2> QED
    BY <1>3, <1>4, <1>6, <1>8, <1>15, <2>1 DEF deleteMedia
<1>16. CASE s3_delete(r)
  <2>1. pc[r] = "deleting" /\ req[r].op \in MediaOps \ {"uploadMedia"}
    BY <1>1, <1>16 DEF s3_delete, StageOK, MediaStageOK, MediaOps
  <2>2. Owner[req[r].media] = req[r].user
    BY <1>1, <2>1 DEF Rights
  <2> QED
    BY <1>3, <1>4, <1>6, <1>8, <1>16, <2>1, <2>2 DEF s3_delete
<1>17. CASE setMediaPrivacy(r)
  <2>1. pc[r] = "queued" /\ req[r].op \in MediaOps \ {"uploadMedia"}
    BY <1>17 DEF setMediaPrivacy, Taken, MediaOps
  <2> QED
    BY <1>2, <1>4, <1>6, <1>8, <1>17, <2>1 DEF setMediaPrivacy
<1>18. CASE SetPrivacy(r)
  <2>1. pc[r] = "toggling" /\ req[r].op \in MediaOps \ {"uploadMedia", "deleteMedia"}
    BY <1>1, <1>18 DEF SetPrivacy, StageOK, MediaStageOK, MediaOps
  <2> QED
    BY <1>4, <1>5, <1>6, <1>8, <1>18, <2>1 DEF SetPrivacy
<1>19. CASE editMediaAccess(r)
  <2>1. pc[r] = "queued" /\ req[r].op \in MediaOps \ {"uploadMedia", "deleteMedia"}
    BY <1>19 DEF editMediaAccess, Taken, MediaOps
  <2>2. MediaController(r, Success) \/ MediaController(r, 500)
    BY <1>19 DEF editMediaAccess
  <2> QED
    BY <1>4, <1>5, <1>6, <1>8, <2>1, <2>2
<1>20. CASE MediaFails(r)
  <2>1. pc[r] \notin {"done", "lost"} /\ Ends(r, 500)
    BY <1>20 DEF MediaFails, Running, Ends, Statuses
  <2> QED
    BY <1>4, <1>8, <2>1
<1> QED
  BY <1>9, <1>10, <1>11, <1>12, <1>13, <1>14, <1>15, <1>16, <1>17, <1>18, <1>19, <1>20 DEF MediaNext

-----------------------------------------------------------------------------
LEMMA AdsEnds ==
  ASSUME NEW r \in Requests, NEW outcome, NEW result, AdsController(r, outcome, result)
  PROVE  Ends(r, outcome)
BY DEF AdsController, api_ads, Ends, Statuses

(* The steps of the ads service that read, and all its failures.            *)
LEMMA ReadsShown ==
  ASSUME BInv, NEW r \in Requests,
         \/ RefuseEmpty(r) \/ AdsFails(r) \/ createAd(r) \/ InsertAd(r) \/ editAd(r)
         \/ publishAdv(r) \/ archiveAdv(r) \/ getSuitableAds(r) \/ ReadPage(r)
  PROVE  Shown(r) /\ Granted(r)
<1>1. MInv /\ Typed /\ StageOK(r) /\ Rights(r)
  BY DEF BInv, MInv, StagesOK
<1>2. ReadPage(r) => pc[r] = "paging" /\ UNCHANGED <<adsVars, mediaVars>>
  BY Zenon DEF ReadPage
<1>3. UNCHANGED ads /\ pc[r] \notin {"done", "lost"}
  BY <1>2 DEF RefuseEmpty, AdsFails, Running, createAd, InsertAd, editAd, publishAdv, archiveAdv,
              getSuitableAds, Taken, adsVars
<1>5. ASSUME NEW outcome \in Refusals, NEW result, AdsController(r, outcome, result)
      PROVE  Shown(r) /\ Granted(r)
  BY <1>1, <1>3, <1>5, AdsEnds, RefusedShown
<1>6. ASSUME NEW label \in {"inserting", "attaching", "paging"}, NEW value, GoOn(r, label, value),
             pc[r] \notin {"editing", "publishing", "archiving"}
      PROVE  UNCHANGED Board!boardVars /\ Alone(r) /\ pc'[r] = label /\ mem'[r] = value
  BY <1>1, <1>3, <1>6, Unseen DEF Labels
<1>7. {400, 404, 500} \subseteq Refusals
  BY DEF Refusals
<1>8. CASE RefuseEmpty(r) \/ AdsFails(r)
  BY <1>5, <1>7, <1>8 DEF RefuseEmpty, AdsFails
<1>9. CASE createAd(r)
  <2>1. UNCHANGED Board!boardVars /\ Alone(r) /\ pc'[r] = "inserting" /\ mem'[r] = prepareMediaToAttach(r)
    BY <1>6, <1>9 DEF createAd, Taken
  <2>2. Rights(r)'
    BY <2>1 DEF Rights, Alone, prepareMediaToAttach
  <2> QED
    BY <2>1, <2>2 DEF Shown, Granted
<1>10. CASE InsertAd(r)
  <2>1. CASE AdsController(r, 400, Nothing)
    BY <1>5, <1>7, <2>1
  <2>2. CASE GoOn(r, "attaching", [id |-> nextId, photos |-> mem[r]])
    <3>1. UNCHANGED Board!boardVars /\ Alone(r) /\ pc'[r] = "attaching" /\ mem'[r].photos = mem[r]
      BY <1>6, <1>10, <2>2 DEF InsertAd
    <3>2. mem[r] \subseteq req[r].photos
      BY <1>1, <1>10 DEF InsertAd, Rights
    <3>3. Rights(r)'
      BY <3>1, <3>2 DEF Rights, Alone
    <3> QED
      BY <3>1, <3>3 DEF Shown, Granted
  <2> QED
    BY <1>10, <2>1, <2>2 DEF InsertAd
<1>11. CASE editAd(r) \/ publishAdv(r) \/ archiveAdv(r)
  <2>1. CASE AdsController(r, 404, Nothing)
    BY <1>5, <1>7, <2>1
  <2>2. CASE OwnAd(r) /\ \E label \in {"editing", "publishing", "archiving"} : \E value : GoOn(r, label, value)
    <3>0. PICK label \in {"editing", "publishing", "archiving"} : \E value : GoOn(r, label, value)
      BY <2>2
    <3>1. PICK value : GoOn(r, label, value)
      BY <3>0
    <3>2. pc[r] = "queued" /\ req[r].op \in {"editAdv", "publishAdv", "archiveAdv"}
      BY <1>11 DEF editAd, publishAdv, archiveAdv, Taken
    <3> QED
      BY <1>1, <1>3, <2>2, <3>1, <3>2, Permitted DEF Shown, Granted
  <2> QED
    BY <1>11, <2>1, <2>2 DEF editAd, publishAdv, archiveAdv
<1>12. ASSUME NEW value, GoOn(r, "paging", value), pc[r] \in {"queued", "paging"}
       PROVE  Shown(r) /\ Granted(r)
  BY <1>6, <1>12 DEF Shown, Granted
<1>13. CASE getSuitableAds(r)
  BY <1>5, <1>7, <1>12, <1>13 DEF getSuitableAds, Taken
<1>14. CASE ReadPage(r)
  <2> DEFINE batch == Batch(r, mem[r].last)
             kept  == {i \in batch : matchesMutualFilters(Profile[req[r].user], ads[i].filter)}
             found == mem[r].found \o ById(kept)
  <2>1. \/ AdsController(r, 500, Nothing)
        \/ GoOn(r, "paging", [last |-> Max(batch), found |-> found])
        \/ AdsController(r, IF found = <<>> THEN 404 ELSE Success, found)
    BY <1>14, Zenon DEF ReadPage
  <2> HIDE DEF batch, found
  <2>2. ASSUME AdsController(r, Success, found) PROVE Shown(r) /\ Granted(r)
    <3>1. Board!Served(r) /\ Alone(r) /\ pc'[r] = "done"
      BY <1>1, <1>3, <2>2, AdsEnds, EndsServed
    <3>2. req[r].op = "getSuitableAdvertisements"
      BY <1>1, <1>2, <1>14 DEF StageOK, AdsStageOK
    <3>3. Board!Look(r)
      BY <1>3, <3>1, <3>2 DEF Board!Look, Board!ChangeOps, Board!AuthorOps
    <3> QED
      BY <3>1, <3>3 DEF Shown, Granted, Board!BoardNext
  <2> QED
    BY <1>2, <1>5, <1>7, <1>12, <1>14, <2>1, <2>2
<1> QED
  BY <1>8, <1>9, <1>10, <1>11, <1>13, <1>14

(* createAd shows the whole ad at its commit, or nothing.                   *)
LEMMA AttachShown ==
  ASSUME BInv, NEW r \in Requests, AttachMedia(r)
  PROVE  Shown(r) /\ Granted(r)
<1>1. MInv /\ Typed /\ pc[r] = "attaching" /\ req[r].op = "createAdv" /\ mem[r].id \notin DOMAIN ads
      /\ Fit(r, mem[r].photos) /\ mem[r].photos \subseteq req[r].photos
  BY DEF AttachMedia, BInv, Rights, MInv, StagesOK, StageOK, AdsStageOK
<1>2. CASE UNCHANGED ads /\ \E e \in {400, 500} : AdsController(r, e, Nothing)
  <2>1. PICK e \in {400, 500} : AdsController(r, e, Nothing)
    BY <1>2
  <2>2. e \in Refusals
    BY DEF Refusals
  <2> QED
    BY <1>1, <1>2, <2>1, <2>2, AdsEnds, RefusedShown
<1>3. CASE ads' = CommittedAd(r)
           /\ (AdsController(r, Success, mem[r]) \/ AdsController(r, 500, Nothing))
  <2> DEFINE i   == mem[r].id
             base == [user |-> req[r].user, status |-> "DRAFT",
                      filter |-> CreateAdvDTO(req[r].targetFilters), photos |-> mem[r].photos, by |-> r]
             new == Overwritten(base, req[r].columns)
  <2>1. Board!Served(r) /\ Alone(r) /\ pc'[r] = "done"
    <3>1. 500 \in Refusals
      BY DEF Refusals
    <3> QED
      BY <1>1, <1>3, <3>1, AdsEnds, EndsServed
  <2>2. ads' = [j \in DOMAIN ads \union {i} |-> IF j = i THEN new ELSE ads[j]]
    BY <1>3 DEF CommittedAd
  <2>3. /\ DOMAIN base = AdFields /\ base.user = req[r].user /\ base.status = "DRAFT"
        /\ base.photos = mem[r].photos /\ base.by = r
    BY DEF AdFields
  <2> HIDE DEF base
  <2>4. /\ new.user = Board!Given(r, "user", req[r].user)
        /\ new.status = Board!Given(r, "status", "DRAFT") /\ new.by = r
        /\ new.photos \subseteq {m \in req[r].photos : Owner[m] = req[r].user}
    <3>1. base.user \in Users /\ base.status \in AdStatuses
      BY <1>1, <2>3, Asked DEF Typed, AdStatuses
    <3>2. /\ DOMAIN req[r].columns \subseteq {"text", "user", "status"}
          /\ "user" \in DOMAIN req[r].columns => req[r].columns.user \in Users
          /\ "status" \in DOMAIN req[r].columns => req[r].columns.status \in AdStatuses
      BY <1>1, Asked DEF Typed
    <3> QED
      BY <1>1, <2>3, <3>1, <3>2, RowOverwritten DEF Fit, Board!Given
  <2> HIDE DEF i, new
  <2>5. i \notin DOMAIN ads
    BY <1>1 DEF i
  <2>6. i \in DOMAIN ads' \ DOMAIN ads /\ ads'[i] = new
    BY <2>2, <2>5
  <2>7. ads' = [j \in DOMAIN ads \union {i} |-> IF j = i THEN ads'[i] ELSE ads[j]]
    BY <2>2, <2>6
  <2>8. Board!Create(r)
    BY <1>1, <2>1, <2>4, <2>6, <2>7 DEF Board!Create
  <2> QED
    BY <2>1, <2>8 DEF Shown, Granted, Board!BoardNext
<1> QED
  BY <1>2, <1>3 DEF AttachMedia

(* A step that makes the change it was asked for.                           *)
LEMMA Served ==
  ASSUME MInv, NEW r \in Requests, pc[r] \notin {"done", "lost"}, Ends(r, Success),
         Board!Served(r) => Board!Edit(r) \/ Board!SetStatus(r) \/ Board!Detach(r)
  PROVE  Shown(r) /\ Granted(r)
BY EndsServed DEF Shown, Granted, Board!BoardNext

LEMMA UpdateShown ==
  ASSUME BInv, NEW r \in Requests, UpdateAd(r)
  PROVE  Shown(r) /\ Granted(r)
<1> DEFINE i == req[r].ad
           filter == Spread(mem[r], EditAdvDTO(req[r].targetFilters))
           c == req[r].columns
<1>1. /\ MInv /\ Typed /\ pc[r] = "editing" /\ req[r].op = "editAdv" /\ r \in Allowed
      /\ i \in DOMAIN ads
  BY DEF UpdateAd, BInv, MInv, StagesOK, StageOK, AdsStageOK, Allowed
<1>2. DOMAIN ads[i] = AdFields
  BY <1>1 DEF Typed, TypeOK
<1>3. CASE UNCHANGED ads /\ AdsController(r, 400, Nothing)
  <2>1. 400 \in Refusals
    BY DEF Refusals
  <2> QED
    BY <1>1, <1>3, <2>1, AdsEnds, RefusedShown
<1>4. CASE ads' = [ads EXCEPT ![i] = Overwritten([@ EXCEPT !.filter = filter], req[r].columns)]
           /\ AdsController(r, Success, Nothing)
  <2> HIDE DEF filter
  <2> DEFINE base == [ads[i] EXCEPT !.filter = filter]
             new == Overwritten(base, c)
             edited == [ads[i] EXCEPT !.filter = new.filter, !.user = Board!Given(r, "user", @),
                                      !.status = Board!Given(r, "status", @)]
  <2>1. DOMAIN c \subseteq {"text", "user", "status"}
    BY <1>1, Asked DEF Typed
  <2>2. DOMAIN new = AdFields /\ DOMAIN edited = AdFields
    BY <1>2 DEF Overwritten
  <2>3. \A f \in AdFields : new[f] = edited[f]
    BY <1>2, <2>1 DEF Overwritten, AdFields, Board!Given
  <2>4. new = edited
    <3>1. new = [f \in DOMAIN base |-> IF f \in DOMAIN c THEN c[f] ELSE base[f]]
      BY DEF Overwritten
    <3>2. new = [f \in AdFields |-> new[f]] /\ edited = [f \in AdFields |-> edited[f]]
      BY <1>2, <3>1
    <3> QED
      BY <2>3, <3>2
  <2>5. ads'[i] = new /\ ads' = [ads EXCEPT ![i] = new]
    BY <1>1, <1>4
  <2>6. ads' = [ads EXCEPT ![i].filter = ads'[i].filter, ![i].user = Board!Given(r, "user", @),
                           ![i].status = Board!Given(r, "status", @)]
    <3>1. ads' = [ads EXCEPT ![i] = edited]
      BY <2>4, <2>5
    <3> HIDE DEF new
    <3> QED
      BY <1>1, <1>2, <2>5, <3>1 DEF AdFields
  <2>7. Board!Served(r) => Board!Edit(r)
    BY <1>1, <2>6 DEF Board!Edit
  <2> QED
    BY <1>1, <1>4, <2>7, AdsEnds, Served
<1> QED
  BY <1>3, <1>4 DEF UpdateAd

LEMMA SetStatusShown ==
  ASSUME BInv, NEW r \in Requests, SetStatus(r)
  PROVE  Shown(r) /\ Granted(r)
<1> DEFINE i == req[r].ad
<1>1. MInv /\ pc[r] \in {"publishing", "archiving"} /\ r \in Allowed
      /\ req[r].op = IF pc[r] = "publishing" THEN "publishAdv" ELSE "archiveAdv"
  BY DEF SetStatus, BInv, MInv, StagesOK, StageOK, AdsStageOK, Allowed
<1>2. ads' = [ads EXCEPT ![i].status = IF req[r].op = "publishAdv" THEN "ACTIVE" ELSE "ARCHIVED"]
      /\ AdsController(r, Success, Nothing)
  BY <1>1 DEF SetStatus
<1>3. Board!Served(r) => Board!SetStatus(r)
  BY <1>1, <1>2 DEF Board!SetStatus
<1> QED
  BY <1>1, <1>2, <1>3, AdsEnds, Served

LEMMA DestroyShown ==
  ASSUME BInv, NEW r \in Requests, DestroyMedia(r)
  PROVE  Shown(r) /\ Granted(r)
<1> DEFINE m == req[r].media
<1>1. MInv /\ pc[r] = "destroying" /\ req[r].op = "deleteMedia" /\ Owner[m] = req[r].user
  BY DEF DestroyMedia, destroy, BInv, Rights, MInv, StagesOK, StageOK, MediaStageOK
<1>2. ads' = [i \in DOMAIN ads |-> [ads[i] EXCEPT !.photos = @ \ {m}]]
  BY DEF DestroyMedia, DropPhoto
<1>3. Ends(r, Success)
  BY <1>1, MediaStatus DEF DestroyMedia, destroy, MediaController, Ends, MediaOps
<1>4. Board!Served(r) => Board!Detach(r)
  BY <1>1, <1>2 DEF Board!Detach
<1> QED
  BY <1>1, <1>3, <1>4, Served

(* The transport: a request waits, is refused, is given up or is lost.      *)
LEMMA TransportShown ==
  ASSUME BInv, NEW r \in Requests, UNCHANGED <<ads, nextId>>,
         SendRequest(r) \/ authenticate(r) \/ GiveUp(r) \/ Expire(r)
  PROVE  Shown(r) /\ Granted(r)
<1>1. MInv /\ Typed /\ StageOK(r) /\ Rights(r) /\ RpcTypeOK
  BY DEF BInv, MInv, StagesOK, Typed, TypeOK
<1>3. CASE SendRequest(r)
  <2>1. pc[r] = "new" /\ pc' = [pc EXCEPT ![r] = "queued"] /\ UNCHANGED <<req, mem, told>>
    BY <1>3 DEF SendRequest, Send
  <2>2. Alone(r) /\ pc'[r] = "queued" /\ Ended' = Ended /\ Allowed' = Allowed /\ ToldOk' = ToldOk
    BY <1>1, <2>1 DEF Alone, RpcTypeOK, Ended, Allowed, ToldOk
  <2> QED
    BY <2>1, <2>2 DEF Shown, Granted, Board!boardVars
<1>4. CASE authenticate(r)
  <2>1. pc[r] = "new" /\ pc' = [pc EXCEPT ![r] = "done"] /\ UNCHANGED <<req, mem>>
        /\ told' = [told EXCEPT ![r] = 401] /\ told[r] = NoAnswer
    BY <1>1, <1>4 DEF authenticate, Tell, StageOK
  <2>2. Alone(r) /\ pc'[r] = "done" /\ ToldOk' = ToldOk
        /\ Ended' = Ended \union {r} /\ r \notin Ended /\ Allowed' = Allowed \ {r}
    BY <1>1, <2>1 DEF Alone, RpcTypeOK, Ended, Allowed, ToldOk, NoAnswer
  <2>3. Board!Refuse(r)
    BY <2>1, <2>2 DEF Board!Refuse, Board!End
  <2> QED
    BY <2>2, <2>3 DEF Shown, Granted, Board!BoardNext
<1>5. CASE GiveUp(r)
  <2>1. /\ pc[r] \notin {"new", "done", "lost"} /\ UNCHANGED <<req, pc, mem>>
        /\ told[r] = NoAnswer /\ told' = [told EXCEPT ![r] = 500]
    BY <1>5, NothingIsNoStatus DEF GiveUp, Running, Tell, TekeroError
  <2>2. Alone(r) /\ Ended' = Ended /\ Allowed' = Allowed /\ ToldOk' = ToldOk
    BY <1>1, <2>1 DEF Alone, RpcTypeOK, Ended, Allowed, ToldOk, NoAnswer
  <2>3. Rights(r)'
    BY <1>1, <2>1 DEF Rights
  <2> QED
    BY <2>1, <2>2, <2>3 DEF Shown, Granted, Board!boardVars
<1>6. CASE Expire(r)
  <2>1. pc[r] = "queued" /\ pc' = [pc EXCEPT ![r] = "lost"] /\ UNCHANGED <<req, mem, told>>
    BY <1>6 DEF Expire
  <2>2. Alone(r) /\ pc'[r] = "lost" /\ ToldOk' = ToldOk
        /\ Ended' = Ended \union {r} /\ r \notin Ended /\ Allowed' = Allowed \ {r}
    BY <1>1, <2>1 DEF Alone, RpcTypeOK, Ended, Allowed, ToldOk
  <2>3. Board!Refuse(r)
    BY <2>1, <2>2 DEF Board!Refuse, Board!End
  <2> QED
    BY <2>2, <2>3 DEF Shown, Granted, Board!BoardNext
<1> QED
  BY <1>3, <1>4, <1>5, <1>6

LEMMA RequestShown ==
  ASSUME BInv, NEW r \in Requests, AdsNext(r)
  PROVE  Shown(r) /\ Granted(r)
<1>1. CASE MediaNext(r) /\ UNCHANGED adsVars
  BY <1>1, MediaShown DEF adsVars
<1>2. CASE (authenticate(r) \/ GiveUp(r) \/ Expire(r)) /\ UNCHANGED <<adsVars, mediaVars>>
  BY <1>2, TransportShown DEF adsVars
<1>3. CASE SendRequest(r)
  BY <1>3, TransportShown DEF SendRequest, adsVars
<1> QED
  BY <1>1, <1>2, <1>3, ReadsShown, AttachShown, UpdateShown, SetStatusShown, DestroyShown DEF AdsNext

LEMMA CrashShown ==
  ASSUME BInv, Crash, UNCHANGED ads
  PROVE  Board!Lose /\ \A r \in Requests : Rights(r)'
<1>1. UNCHANGED <<req, mem>> /\ RpcTypeOK
  BY DEF Crash, BInv, MInv, Typed, TypeOK
<1>2. ASSUME NEW q \in Requests
      PROVE  /\ pc'[q] \in {pc[q], "lost"}
             /\ pc[q] \in {"done", "lost"} => pc'[q] = pc[q]
             /\ told'[q] = told[q] \/ (told[q] = NoAnswer /\ told'[q] = 500)
  BY <1>2 DEF Crash, Running
<1>3. ToldOk' = ToldOk
  BY <1>2 DEF ToldOk, NoAnswer
<1>4. Ended \subseteq Ended' /\ Ended' \subseteq Requests /\ Allowed' = Allowed \ Ended'
  BY <1>2 DEF Ended, Allowed
<1>5. Board!Lose
  <2>1. Ended' = Ended \union Ended'
    BY <1>4
  <2> QED
    BY <1>1, <1>3, <1>4, <2>1 DEF Board!Lose, Board!End
<1>6. ASSUME NEW r \in Requests PROVE Rights(r)'
  BY <1>1, <1>2 DEF BInv, Rights
<1> QED
  BY <1>5, <1>6

LEMMA NextShown ==
  ASSUME BInv, [Next]_vars
  PROVE  BInv' /\ [Board!BoardNext]_Board!boardVars
<1>1. MInv'
  BY NextMInv DEF BInv
<1>2. ASSUME NEW r \in Requests, AdsNext(r)
      PROVE  (\A q \in Requests : Rights(q)') /\ [Board!BoardNext]_Board!boardVars
  <2>1. Shown(r) /\ Granted(r)
    BY <1>2, RequestShown
  <2>2. Rights(r)'
    BY <2>1 DEF Granted, Rights
  <2>3. ASSUME NEW q \in Requests \ {r} PROVE Rights(q)'
    <3>1. Rights(q) /\ req' = req /\ pc'[q] = pc[q] /\ mem'[q] = mem[q]
      BY <2>1 DEF BInv, Granted, Alone
    <3> QED
      BY <3>1 DEF Rights
  <2> QED
    BY <2>1, <2>2, <2>3 DEF Shown
<1>3. CASE Crash /\ UNCHANGED <<adsVars, mediaVars>> /\ Observe
  BY <1>1, <1>3, CrashShown DEF adsVars, BInv, Board!BoardNext
<1>4. CASE UNCHANGED vars
  <2>1. UNCHANGED <<req, pc, mem, told, ads>>
    BY <1>4 DEF vars, rpcVars, adsVars
  <2>2. \A q \in Requests : Rights(q)'
    BY <2>1 DEF BInv, Rights
  <2>3. UNCHANGED Board!boardVars
    BY <2>1 DEF Board!boardVars, Ended, Allowed, ToldOk
  <2> QED
    BY <1>1, <2>2, <2>3 DEF BInv
<1> QED
  BY <1>1, <1>2, <1>3, <1>4 DEF Next, BInv

LEMMA InitShown == Init => BInv /\ Board!BoardInit
<1> SUFFICES ASSUME Init PROVE BInv /\ Board!BoardInit
  OBVIOUS
<1>1. pc = [r \in Requests |-> "new"] /\ told = [r \in Requests |-> NoAnswer] /\ ads = OldAds
  BY DEF Init, RpcInit
<1>2. Ended = {} /\ Allowed = {} /\ ToldOk = {}
  BY <1>1 DEF Ended, Allowed, ToldOk, NoAnswer
<1> QED
  BY <1>1, <1>2, InitMInv DEF BInv, Rights, Board!BoardInit

(* Handlers that act on what they read some steps ago, the transaction of   *)
(* createAd, columns named by bodies, time limits, failures and crashes:    *)
(* together they are the operations of AdBoard, which change an ad in one   *)
(* step after at most one look at its author (every handler of              *)
(* AdsController and deleteMedia).                                          *)
THEOREM AdsImplementBoard == Spec => BoardImplemented
<1>1. BInv /\ [Next]_vars => BInv'
  BY NextShown
<1>2. Spec => []BInv
  BY <1>1, InitShown, PTL DEF Spec
<1>3. BInv /\ [Next]_vars => [Board!BoardNext]_Board!boardVars
  BY NextShown
<1> QED
  BY <1>2, <1>3, InitShown, PTL DEF Spec, BoardImplemented, Board!BoardSpec
=============================================================================
