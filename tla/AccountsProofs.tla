---------------------------- MODULE AccountsProofs ----------------------------
(***************************************************************************)
(* Proofs about Accounts, for every number of users and requests and        *)
(* whatever the requests ask for: what is left of a registration or a       *)
(* deletion that others get in the way of, and which sessions are active    *)
(* and which tokens are refreshed when logins race.                         *)
(***************************************************************************)
EXTENDS Accounts, FiniteSetTheorems, TLAPS

Labels == {"new", "queued", "done", "lost", "registering", "deleting", "opening", "session",
           "updating", "finding", "answering", "writing", "counting"}

(* Which handler a label belongs to, and what the handler remembers there.  *)
StageOK(r) ==
  /\ pc[r] \in Labels
  /\ pc[r] = "new" => told[r] = NoAnswer
  /\ pc[r] \in {"new", "queued"} => session[r] = "none"
  /\ pc[r] = "registering" => req[r].op = "register"
  /\ pc[r] = "deleting" => req[r].op = "deleteUser" /\ mem[r] \in 1..5
  /\ pc[r] \in {"opening", "session"} => req[r].op = "login" /\ session[r] = "none"
  /\ pc[r] = "updating" => req[r].op = "updateUserProfile"
  /\ pc[r] = "finding" => req[r].op = "updateUserProfile"
  /\ pc[r] \in {"answering", "writing", "counting"} =>
       req[r].op = "submitQuestion" /\ req[r].shortcode \in Active /\ req[r].answer \in Answers
  /\ pc[r] = "writing" => mem[r] \in Responses
  /\ pc[r] \in {"writing", "counting"} => questionnaire[req[r].user] # Nothing

StagesOK == \A r \in Requests : StageOK(r)

(* History speaks of requests that have ended.                              *)
PastOK == \A r \in Requests : \A q \in before[r] : Ended(q)

DeletionBegun(u) == \E d \in Of("deleteUser", u) : pc[d] \notin {"new", "queued"}

RenameBegun(u) == \E e \in Renames(u) : pc[e] \notin {"new", "queued"}

(* Who has another email has asked for it.                                  *)
RenamedOK == \A u \in Users : "renamed" \in account[u] => RenameBegun(u)

(* Who has been told that he is registered has all rows until a deletion    *)
(* begins.                                                                  *)
RegisteredIsThere == \A q \in Requests :
  (req[q].op = "register" /\ told[q] = 200) =>
    Tables \subseteq account[req[q].user] \/ DeletionBegun(req[q].user)

(* From the moment at which a login has outdated the sessions before it,    *)
(* none of the logins that had ended when it was sent is active.            *)
Superseding(r) ==
  pc[r] = "session" \/ session[r] # "none" \/ (req[r].op = "login" /\ told[r] = 201)

SupersededOK == \A r \in Requests : Superseding(r) =>
  /\ req[r].op = "login"
  /\ \A q \in before[r] : req[q].user = req[r].user => session[q] # "ACTIVE"

RefreshOK == \A r \in Requests : (req[r].op = "refresh" /\ told[r] = 200) =>
  \A q \in Of("login", req[r].user) \intersect before[r] :
    req[r].of \in before[q] => told[q] # 201

Typed == TypeOK /\ req \in Scenarios /\ StagesOK

AInv == /\ Typed /\ PastOK
        /\ HalfUserHasCause /\ DeletedIsGone
        /\ RenamedOK /\ RegisteredIsThere /\ RegisteredIsFound
        /\ SupersededOK /\ RefreshOK

-----------------------------------------------------------------------------
LEMMA Asked ==
  ASSUME req \in Scenarios, NEW r \in Requests
  PROVE  /\ req[r].op \in AccountOps \union QuestionnaireOps
         /\ req[r].user \in Users
         /\ req[r].op = "refresh" => req[r].of \in Requests /\ req[req[r].of].user = req[r].user
         /\ req[r].op = "submitQuestion" => req[r].answer \in Answers \union Misfits
BY AskedAssumption

LEMMA RowTypes ==
  /\ \A row \in Rows : row # Nothing /\ (row.responses # Nothing => row.responses \in Responses)
  /\ Blank(Nothing) \in Rows /\ Blank(<<>>) \in Rows
  /\ <<>> # Nothing
<1>1. <<>> \in [{} -> Answers]
  OBVIOUS
<1>2. <<>> \in Responses
  BY <1>1 DEF Responses
<1> QED
  BY <1>2, NothingIsNoRow DEF Rows, Blank

(* What a request changes of the others, and what it changes of itself.     *)
Alone(r) ==
  /\ req' = req /\ before' = before
  /\ pc[r] \notin {"done", "lost"}
  /\ pc'[r] # "new" /\ (pc'[r] = "queued" => pc[r] = "queued")
  /\ \A q \in Requests \ {r} : pc'[q] = pc[q] /\ mem'[q] = mem[q] /\ told'[q] = told[q]

LEMMA GoesOn ==
  ASSUME Typed, NEW r \in Requests, NEW label, NEW value, GoOn(r, label, value),
         label \notin {"new", "queued"}, pc[r] \notin {"done", "lost"}, before' = before
  PROVE  /\ Alone(r) /\ pc'[r] = label /\ mem'[r] = value /\ told' = told
         /\ RpcTypeOK'
BY DEF GoOn, Alone, Typed, TypeOK, RpcTypeOK

LEMMA Finishes ==
  ASSUME Typed, NEW r \in Requests, NEW outcome, NEW ok \in Statuses, NEW result,
         Finish(r, outcome, ok, result),
         pc[r] \notin {"done", "lost"}, before' = before
  PROVE  /\ Alone(r) /\ pc'[r] = "done" /\ mem'[r] = result
         /\ RpcTypeOK'
         /\ told'[r] \in {told[r], IF outcome = Success THEN ok ELSE TekeroError(outcome)}
<1> DEFINE s == IF outcome = Success THEN ok ELSE TekeroError(outcome)
<1>1. s \in Statuses
  BY DEF TekeroError, Statuses
<1>2. told' = told \/ told' = [told EXCEPT ![r] = s]
  BY DEF Finish, Tell
<1>3. told \in [Requests -> Statuses \union {NoAnswer}]
  BY DEF Typed, TypeOK, RpcTypeOK
<1> HIDE DEF s
<1>4. told' \in [Requests -> Statuses \union {NoAnswer}] /\ told'[r] \in {told[r], s}
      /\ \A q \in Requests \ {r} : told'[q] = told[q]
  BY <1>1, <1>2, <1>3
<1>5. told'[r] \in {told[r], IF outcome = Success THEN ok ELSE TekeroError(outcome)}
  BY <1>4 DEF s
<1> QED
  BY <1>4, <1>5 DEF Finish, Alone, Typed, TypeOK, RpcTypeOK

Outcomes == {Success, 400, 401, 404, 500}

(* The status that answers an operation of an account.                      *)
LEMMA Answered ==
  ASSUME Typed, NEW r \in Requests, NEW outcome \in Outcomes, Answer(r, outcome),
         req[r].op \in AccountOps, pc[r] \notin {"done", "lost"}, before' = before
  PROVE  /\ Alone(r) /\ pc'[r] = "done" /\ mem'[r] = outcome
         /\ RpcTypeOK'
         /\ \/ told'[r] = told[r]
            \/ outcome # Success /\ told'[r] = outcome
            \/ /\ outcome = Success
               /\ told'[r] \in {200, 201, 202}
               /\ req[r].op = "deleteUser" <=> told'[r] = 202 /\ req[r].op # "editUser"
<1> DEFINE op == req[r].op
           ok == CASE op \in {"createUser", "deleteUser", "editUser", "register"} -> api_users(op)
                   [] op \in {"login", "refresh"}                     -> AuthController(op)
                   [] op \in {"getUserProfile", "updateUserProfile"}  -> api_profiles(op)
                   [] op = "getUserStats"                             -> api_stats(op)
<1>1. /\ ok \in {200, 201, 202}
      /\ op = "deleteUser" <=> ok = 202 /\ op # "editUser"
  BY DEF AccountOps, api_users, AuthController, api_profiles, api_stats
<1>2. Finish(r, outcome, ok, outcome)
  BY DEF Answer
<1>3. ok \in Statuses
  BY <1>1 DEF Statuses
<1>4. outcome # Success => TekeroError(outcome) = outcome
  BY DEF Outcomes, TekeroError, Statuses
<1> HIDE DEF ok
<1>5. /\ Alone(r) /\ pc'[r] = "done" /\ mem'[r] = outcome
      /\ RpcTypeOK'
      /\ told'[r] \in {told[r], IF outcome = Success THEN ok ELSE TekeroError(outcome)}
  BY <1>2, <1>3, Finishes
<1> QED
  BY <1>1, <1>4, <1>5 DEF Success

-----------------------------------------------------------------------------
(* What a step of a request r has to observe, part by part.                 *)
Half(u) == account[u] # {} /\ ~ (Tables \subseteq account[u] /\ questionnaire[u] # Nothing)

Cause(r) ==
  /\ req[r].op \in {"register", "deleteUser"}
  /\ Running(r) \/ pc[r] = "lost" \/ (pc[r] = "done" /\ mem[r] # Success)

Gone(u) == account[u] = {} /\ questionnaire[u] = Nothing /\ SessionsOf(u) = {}

TellsTruth(r) == told'[r] # told[r] =>
  /\ req[r].op = "register" /\ told'[r] = 200 => Tables \subseteq account'[req[r].user]
  /\ req[r].op \in {"login", "getUserStats", "getUserProfile"} /\ told'[r] = 404 =>
       \/ ~ Tables \subseteq account[req[r].user]
       \/ req[r].op = "login" /\ "renamed" \in account[req[r].user]
  /\ req[r].op = "deleteUser" /\ told'[r] = 202 =>
       \A u \in Users : u = req[r].user => Gone(u)'
  /\ req[r].op = "refresh" /\ told'[r] = 200 => session[req[r].of] = "ACTIVE"
  /\ req[r].op = "login" /\ told'[r] = 201 => pc[r] = "session"

KeepsRows(r) ==
  /\ \A u \in Users :
       /\ Tables \subseteq account[u] => Tables \subseteq account'[u] \/ DeletionBegun(u)'
       /\ Half(u)' => Half(u) \/ (u = req[r].user /\ Cause(r)')
       /\ Gone(u) =>
            \/ Gone(u)'
            \/ /\ u = req[r].user /\ req[r].op \in {"register", "createUser"}
               /\ "user" \in account'[u]
       /\ "user" \in account[u] => "user" \in account'[u] \/ Gone(u)'
       /\ "renamed" \in account'[u] => "renamed" \in account[u] \/ RenameBegun(u)'
  /\ Cause(r) => Cause(r)' \/ \A u \in Users : u = req[r].user => ~ Half(u)'

KeepsSessions(r) ==
  /\ \A q \in Requests \ {r} :
       /\ session'[q] = "ACTIVE" => session[q] = "ACTIVE"
       /\ session'[q] # "none" => session[q] # "none"
  /\ Superseding(r)' =>
       \/ Superseding(r)
       \/ /\ req[r].op = "login"
          /\ \A q \in before[r] : req[q].user = req[r].user => session'[q] # "ACTIVE"

LEMMA EndedStays ==
  ASSUME AInv, NEW r \in Requests, Alone(r)
  PROVE  /\ \A p \in Requests : \A q \in before[p] :
              q \in Requests \ {r} /\ Ended(q)' /\ told'[q] = told[q]
         /\ \A u : DeletionBegun(u) => DeletionBegun(u)'
         /\ \A u : RenameBegun(u) => RenameBegun(u)'
<1>1. \A p \in Requests : before[p] \subseteq Requests
  BY DEF AInv, Typed, TypeOK
<1> QED
  BY <1>1 DEF AInv, PastOK, Ended, Alone, DeletionBegun, RenameBegun, Renames, Of

LEMMA RenamedKept ==
  ASSUME AInv, NEW r \in Requests, Alone(r), KeepsRows(r)
  PROVE  RenamedOK'
BY EndedStays DEF AInv, RenamedOK, KeepsRows

LEMMA ThereKept ==
  ASSUME AInv, NEW r \in Requests, Alone(r), Typed', TellsTruth(r), KeepsRows(r)
  PROVE  RegisteredIsThere'
<1> SUFFICES ASSUME NEW q \in Requests, req[q].op = "register", told'[q] = 200,
                    NEW u, u = req[q].user
             PROVE  Tables \subseteq account'[u] \/ DeletionBegun(u)'
  BY DEF RegisteredIsThere, DeletionBegun, Of, Alone
<1>1. u \in Users
  BY Asked DEF AInv, Typed
<1>2. CASE told[q] = 200
  BY <1>1, <1>2, EndedStays DEF AInv, RegisteredIsThere, KeepsRows
<1>3. CASE told[q] # 200
  BY <1>3 DEF Alone, TellsTruth
<1> QED
  BY <1>2, <1>3

LEMMA FoundKept ==
  ASSUME AInv, NEW r \in Requests, Alone(r), TellsTruth(r)
  PROVE  RegisteredIsFound'
<1> SUFFICES ASSUME NEW p \in Requests, NEW u, u = req[p].user,
                    req[p].op \in {"login", "getUserStats", "getUserProfile"}, told'[p] = 404,
                    NEW q \in Of("register", u) \intersect before[p], told[q] = 200
             PROVE  DeletionBegun(u)' \/ (req[p].op = "login" /\ RenameBegun(u)')
  <2>1. \A p \in Requests : \A q \in before[p] : told'[q] = told[q]
    BY EndedStays
  <2> QED
    BY <2>1 DEF RegisteredIsFound, Alone, DeletionBegun, RenameBegun, Renames, Of
<1>1. CASE told[p] = 404
  <2>1. DeletionBegun(u) \/ (req[p].op = "login" /\ RenameBegun(u))
    BY <1>1 DEF AInv, RegisteredIsFound, DeletionBegun, RenameBegun
  <2> QED
    BY <2>1, EndedStays
<1>2. CASE told[p] # 404
  <2>1. ~ Tables \subseteq account[u] \/ (req[p].op = "login" /\ "renamed" \in account[u])
    BY <1>2 DEF Alone, TellsTruth
  <2>2. q \in Requests /\ req[q].op = "register" /\ req[q].user = u /\ u \in Users
    BY Asked DEF Of, AInv, Typed
  <2>3. DeletionBegun(u) \/ (req[p].op = "login" /\ RenameBegun(u))
    BY <2>1, <2>2 DEF AInv, RegisteredIsThere, RenamedOK
  <2> QED
    BY <2>3, EndedStays
<1> QED
  BY <1>1, <1>2

LEMMA HalfKept ==
  ASSUME AInv, NEW r \in Requests, Alone(r), KeepsRows(r)
  PROVE  HalfUserHasCause'
<1> SUFFICES ASSUME NEW u \in Users, Half(u)'
             PROVE  \E c \in Requests : req[c].user = u /\ Cause(c)'
  BY DEF HalfUserHasCause, Half, Cause, Of, Alone, Running
<1>1. CASE u = req[r].user /\ Cause(r)'
  BY <1>1
<1>2. CASE Half(u)
  <2>1. PICK c \in Requests : req[c].user = u /\ Cause(c)
    BY <1>2 DEF AInv, HalfUserHasCause, Half, Cause, Of
  <2>2. CASE c = r
    BY <2>1, <2>2 DEF KeepsRows
  <2>3. CASE c # r
    BY <2>1, <2>3 DEF Alone, Cause, Running
  <2> QED
    BY <2>2, <2>3
<1> QED
  BY <1>1, <1>2 DEF KeepsRows

LEMMA DeletedKept ==
  ASSUME AInv, NEW r \in Requests, Alone(r), TellsTruth(r), KeepsRows(r)
  PROVE  DeletedIsGone'
<1> DEFINE Again(d) == "user" \in account[req[d].user]
             /\ \E c \in Requests : req[c].user = req[d].user /\ c \notin before[d]
                                    /\ req[c].op \in {"register", "createUser"}
<1> SUFFICES ASSUME NEW d \in Requests, req[d].op = "deleteUser", told'[d] = 202
             PROVE  Gone(req[d].user)' \/ Again(d)'
  BY DEF DeletedIsGone, Gone, SessionsOf, Of, Alone
<1>1. req[d].user \in Users
  BY Asked DEF AInv, Typed
<1>2. CASE told[d] # 202
  BY <1>1, <1>2 DEF Alone, TellsTruth
<1>3. CASE told[d] = 202 /\ Gone(req[d].user)
  <2>1. r \notin before[d]
    BY EndedStays
  <2> QED
    BY <1>1, <1>3, <2>1 DEF KeepsRows, Alone
<1>4. CASE told[d] = 202 /\ Again(d)
  BY <1>1, <1>4 DEF KeepsRows, Alone
<1> QED
  BY <1>2, <1>3, <1>4 DEF AInv, DeletedIsGone, Gone, SessionsOf, Of

LEMMA SupersededKept ==
  ASSUME AInv, NEW r \in Requests, Alone(r), TellsTruth(r), KeepsSessions(r)
  PROVE  SupersededOK'
<1> SUFFICES ASSUME NEW p \in Requests, Superseding(p)'
             PROVE  /\ req[p].op = "login"
                    /\ \A q \in before[p] : req[q].user = req[p].user => session'[q] # "ACTIVE"
  BY DEF SupersededOK, Alone
<1>1. \A q \in before[p] : session'[q] = "ACTIVE" => session[q] = "ACTIVE"
  BY EndedStays DEF KeepsSessions
<1>2. CASE Superseding(p)
  BY <1>1, <1>2 DEF AInv, SupersededOK
<1>3. CASE p # r /\ ~ Superseding(p)
  BY <1>3 DEF Superseding, KeepsSessions, Alone
<1>4. CASE p = r /\ ~ Superseding(p)
  BY <1>4 DEF KeepsSessions
<1> QED
  BY <1>2, <1>3, <1>4

LEMMA RefreshKept ==
  ASSUME AInv, NEW r \in Requests, Alone(r), TellsTruth(r)
  PROVE  RefreshOK'
<1> SUFFICES ASSUME NEW p \in Requests, req[p].op = "refresh", told'[p] = 200,
                    NEW q \in Of("login", req[p].user) \intersect before[p],
                    req[p].of \in before[q], told[q] = 201
             PROVE  FALSE
  <2>1. \A p \in Requests : \A q \in before[p] : told'[q] = told[q]
    BY EndedStays
  <2> QED
    BY <2>1 DEF RefreshOK, Alone, Of
<1>1. told[p] # 200
  BY DEF AInv, RefreshOK
<1>2. session[req[p].of] = "ACTIVE"
  BY <1>1 DEF Alone, TellsTruth
<1>3. q \in Requests /\ req[q].op = "login" /\ req[q].user = req[p].user
  BY DEF Of
<1>4. req[req[p].of].user = req[p].user
  BY Asked DEF AInv, Typed
<1> QED
  BY <1>2, <1>3, <1>4 DEF AInv, SupersededOK, Superseding

LEMMA StepKept ==
  ASSUME AInv, NEW r \in Requests, Alone(r), Typed',
         TellsTruth(r), KeepsRows(r), KeepsSessions(r)
  PROVE  AInv'
<1>1. PastOK'
  BY EndedStays DEF PastOK, Alone
<1> QED
  BY <1>1, RenamedKept, ThereKept, FoundKept, HalfKept, DeletedKept, SupersededKept, RefreshKept DEF AInv

-----------------------------------------------------------------------------
(* Steps that touch no row.                                                 *)
LEMMA TypedKept ==
  ASSUME Typed, NEW r \in Requests, Alone(r), TypeOK', StageOK(r)',
         \A u \in Users : questionnaire[u] # Nothing => questionnaire'[u] # Nothing,
         \A q \in Requests \ {r} : session'[q] # "none" => session[q] # "none"
  PROVE  Typed'
<1> SUFFICES ASSUME NEW q \in Requests \ {r}
             PROVE  StageOK(q)'
  BY DEF Typed, StagesOK, Alone
<1>1. StageOK(q) /\ req[q].user \in Users /\ session[q] \in Sessions
  BY Asked DEF Typed, StagesOK, TypeOK
<1>2. session'[q] \in Sessions
  BY DEF TypeOK
<1> QED
  BY <1>1, <1>2 DEF StageOK, Alone

Plain(r) ==
  \/ told'[r] \in {told[r], 400, 401, 500}
  \/ req[r].op \in {"createUser", "editUser", "updateUserProfile"} \union QuestionnaireOps

LEMMA QuietStep ==
  ASSUME AInv, NEW r \in Requests, Alone(r), RpcTypeOK', StageOK(r)',
         UNCHANGED <<account, session, questionnaire>>, written' \subseteq Requests,
         pc'[r] = "session" => pc[r] = "session", Plain(r), Cause(r) => Cause(r)'
  PROVE  AInv'
<1>1. Typed'
  <2>1. TypeOK'
    BY DEF AInv, Typed, TypeOK, QuestionnaireTypeOK, Alone
  <2> QED
    BY <2>1, TypedKept DEF AInv
<1>2. TellsTruth(r)
  BY DEF Plain, TellsTruth, QuestionnaireOps
<1>3. KeepsRows(r)
  BY DEF KeepsRows, Half, Gone, SessionsOf, Alone
<1>4. KeepsSessions(r)
  <2>1. Superseding(r)' => Superseding(r)
    BY DEF Superseding, Plain, QuestionnaireOps, Alone
  <2> QED
    BY <2>1 DEF KeepsSessions
<1> QED
  BY <1>1, <1>2, <1>3, <1>4, StepKept

(* An answer that tells of no success.                                      *)
LEMMA Declines ==
  ASSUME AInv, NEW r \in Requests, NEW outcome \in {400, 401, 500}, Answer(r, outcome),
         req[r].op \in AccountOps, pc[r] \notin {"done", "lost"},
         UNCHANGED <<before, account, session, questionnaire, written>>
  PROVE  AInv'
<1>1. Typed /\ outcome \in Outcomes /\ outcome # Success
  BY DEF AInv, Outcomes, Success
<1>2. /\ Alone(r) /\ pc'[r] = "done" /\ mem'[r] = outcome
      /\ RpcTypeOK'
      /\ told'[r] \in {told[r], outcome}
  BY <1>1, Answered
<1>3. StageOK(r)'
  BY <1>2 DEF StageOK, Labels
<1>4. Cause(r) => Cause(r)'
  BY <1>1, <1>2 DEF Cause, Alone
<1>5. written' \subseteq Requests
  BY <1>1 DEF Typed, TypeOK, QuestionnaireTypeOK
<1> QED
  BY <1>2, <1>3, <1>4, <1>5, QuietStep DEF Plain

(* A handler goes on without having changed a row.                          *)
LEMMA Proceeds ==
  ASSUME AInv, NEW r \in Requests, NEW label \in Labels \ {"new", "queued", "done", "lost", "session"},
         NEW value, GoOn(r, label, value), pc[r] \notin {"new", "done", "lost"},
         UNCHANGED <<before, account, session, questionnaire, written>>,
         StageOK(r)'
  PROVE  AInv'
<1>1. Typed
  BY DEF AInv
<1>2. Alone(r) /\ pc'[r] = label /\ told' = told /\ RpcTypeOK'
  BY <1>1, GoesOn
<1>3. Cause(r) => Cause(r)'
  BY <1>2 DEF Cause, Running, Alone
<1>4. written' \subseteq Requests
  BY <1>1 DEF Typed, TypeOK, QuestionnaireTypeOK
<1> QED
  BY <1>2, <1>3, <1>4, QuietStep DEF Plain

LEMMA RefusalStep ==
  ASSUME AInv, NEW r \in Requests, RefuseEmpty(r) \/ RegisterFails(r) \/ AccountFails(r),
         before' = before
  PROVE  AInv'
<1>1. /\ \E outcome \in {400, 500} : Answer(r, outcome)
      /\ pc[r] \notin {"done", "lost"}
      /\ UNCHANGED <<account, session, questionnaire, written>>
  BY DEF RefuseEmpty, RegisterFails, AccountFails, Taken, Running, accountVars, questionnaireVars
<1>2. req[r].op \in AccountOps
  BY DEF RefuseEmpty, Empty, RegisterFails, AccountFails, Taken, AInv, Typed, StagesOK, StageOK, AccountOps
<1> QED
  BY <1>1, <1>2, Declines

(* The queue, the timer and the guard of the api.                           *)
LEMMA TransportStep ==
  ASSUME AInv, NEW r \in Requests, authenticate(r) \/ GiveUp(r) \/ Expire(r),
         UNCHANGED <<account, session, questionnaire, written>>, before' = before
  PROVE  AInv'
<1>1. /\ \/ pc[r] = "new" /\ pc' = [pc EXCEPT ![r] = "done"] /\ Tell(r, 401)
         \/ Running(r) /\ pc' = pc /\ Tell(r, 500)
         \/ pc[r] = "queued" /\ pc' = [pc EXCEPT ![r] = "lost"] /\ told' = told
      /\ UNCHANGED <<req, mem, crashes>>
  <2>1. TekeroError(Nothing) = 500
    BY NothingIsNoStatus DEF TekeroError
  <2> QED
    BY <2>1 DEF authenticate, GiveUp, Expire
<1>2. Typed /\ StageOK(r)
  BY DEF AInv, Typed, StagesOK
<1>3. \E s \in {401, 500} :
        told' = told \/ told' = [told EXCEPT ![r] = s]
  BY <1>1 DEF Tell
<1>4. /\ told' \in [Requests -> Statuses \union {NoAnswer}]
      /\ \A q \in Requests \ {r} : told'[q] = told[q]
      /\ told'[r] \in {told[r], 401, 500}
  BY <1>2, <1>3 DEF Typed, TypeOK, RpcTypeOK, Statuses
<1>5. Alone(r) /\ RpcTypeOK'
  BY <1>1, <1>2, <1>4 DEF Alone, Running, Typed, TypeOK, RpcTypeOK
<1>6. /\ pc'[r] \in {pc[r], "done", "lost"} /\ mem' = mem
      /\ pc[r] \in {"new", "queued"} \/ pc'[r] = pc[r]
      /\ pc[r] = "queued" => pc'[r] # "done"
  BY <1>1, <1>2 DEF Typed, TypeOK, RpcTypeOK, Running
<1>7. StageOK(r)'
  BY <1>2, <1>5, <1>6 DEF StageOK, Labels, Alone
<1>8. Cause(r) => Cause(r)'
  BY <1>5, <1>6 DEF Cause, Running, Alone
<1>9. written' \subseteq Requests
  BY <1>2 DEF Typed, TypeOK, QuestionnaireTypeOK
<1> QED
  BY <1>4, <1>5, <1>6, <1>7, <1>8, <1>9, QuietStep DEF Plain

-----------------------------------------------------------------------------
(* Steps that read.                                                         *)
LEMMA ReadStep ==
  ASSUME AInv, NEW r \in Requests, getUserStats(r) \/ FindProfile(r) \/ refresh(r),
         before' = before
  PROVE  AInv'
<1>1. Typed /\ StageOK(r) /\ UNCHANGED <<account, session, questionnaire, written>>
  BY DEF AInv, Typed, StagesOK, getUserStats, FindProfile, refresh, accountVars, questionnaireVars
<1>2. /\ pc[r] \in {"queued", "finding"}
      /\ req[r].op \in {"getUserStats", "getUserProfile", "updateUserProfile", "refresh"}
  BY <1>1 DEF getUserStats, FindProfile, refresh, Taken, StageOK
<1>3. PICK outcome \in {Success, 404, 500} :
        /\ Answer(r, outcome)
        /\ outcome = 404 => ~ Tables \subseteq account[req[r].user]
        /\ outcome = Success /\ req[r].op = "refresh" => session[req[r].of] = "ACTIVE"
  <2>1. CASE getUserStats(r) \/ FindProfile(r)
    <3>1. req[r].op # "refresh"
      BY <1>1, <2>1 DEF getUserStats, FindProfile, Taken, StageOK
    <3>2. \E table \in Tables : Answer(r, IF table \in account[req[r].user] THEN Success ELSE 404)
      BY <2>1 DEF getUserStats, FindProfile, Tables
    <3> QED
      BY <3>1, <3>2 DEF Success
  <2>2. CASE refresh(r)
    BY <2>2 DEF refresh, Success
  <2> QED
    BY <2>1, <2>2
<1>4. outcome \in Outcomes /\ req[r].op \in AccountOps /\ pc[r] \notin {"done", "lost"}
  BY <1>2 DEF Outcomes, AccountOps
<1>5. /\ Alone(r) /\ pc'[r] = "done" /\ RpcTypeOK'
      /\ told'[r] \in {told[r], 200, 201, outcome}
      /\ told'[r] = 200 /\ told[r] # 200 => outcome = Success
  BY <1>1, <1>2, <1>3, <1>4, Answered DEF Success
<1>6. Typed'
  <2>1. TypeOK' /\ StageOK(r)'
    BY <1>1, <1>5 DEF Typed, TypeOK, QuestionnaireTypeOK, Alone, StageOK, Labels
  <2> QED
    BY <1>1, <1>5, <2>1, TypedKept
<1>7. TellsTruth(r)
  BY <1>2, <1>3, <1>5 DEF TellsTruth, Success
<1>8. ~ Cause(r)
  BY <1>2 DEF Cause
<1>9. KeepsRows(r)
  BY <1>1, <1>5, <1>8 DEF KeepsRows, Half, Gone, SessionsOf, Alone
<1>10. KeepsSessions(r)
  BY <1>1, <1>2, <1>5 DEF KeepsSessions, Superseding, Alone
<1> QED
  BY <1>5, <1>6, <1>7, <1>9, <1>10, StepKept

LEMMA UpdateStep ==
  ASSUME AInv, NEW r \in Requests, UpdateProfile(r) \/ UpdateProfileUser(r), before' = before
  PROVE  AInv'
<1>1. Typed /\ StageOK(r) /\ UNCHANGED <<account, session, questionnaire, written>>
  BY DEF AInv, Typed, StagesOK, UpdateProfile, UpdateProfileUser, accountVars, questionnaireVars
<1>2. pc[r] \in {"queued", "updating"} /\ req[r].op = "updateUserProfile"
  BY <1>1 DEF UpdateProfile, UpdateProfileUser, Taken, StageOK
<1>3. CASE \E value : GoOn(r, "updating", value) \/ GoOn(r, "finding", value)
  <2>1. PICK value : \E label \in {"updating", "finding"} : GoOn(r, label, value)
    BY <1>3
  <2>2. PICK label \in {"updating", "finding"} : GoOn(r, label, value)
    BY <2>1
  <2>3. Alone(r) /\ pc'[r] = label
    BY <1>1, <1>2, <2>2, GoesOn
  <2>4. StageOK(r)'
    BY <1>2, <2>3 DEF StageOK, Labels, Alone
  <2>5. label \in Labels \ {"new", "queued", "done", "lost", "session"}
    BY DEF Labels
  <2> QED
    BY <1>1, <1>2, <2>2, <2>4, <2>5, Proceeds
<1>4. CASE Answer(r, 404)
  <2>1. 404 \in Outcomes /\ req[r].op \in AccountOps
    BY <1>2 DEF Outcomes, AccountOps
  <2>2. Alone(r) /\ pc'[r] = "done" /\ RpcTypeOK'
    BY <1>1, <1>2, <1>4, <2>1, Answered
  <2>3. StageOK(r)' /\ written' \subseteq Requests
    BY <1>1, <2>2 DEF StageOK, Labels, Typed, TypeOK, QuestionnaireTypeOK
  <2> QED
    BY <1>1, <1>2, <2>2, <2>3, QuietStep DEF Plain, Cause
<1> QED
  BY <1>3, <1>4 DEF UpdateProfile, UpdateProfileUser

-----------------------------------------------------------------------------
(* The rows of one user are replaced.                                       *)
LEMMA RowsTyped ==
  ASSUME Typed, NEW r \in Requests, Alone(r), RpcTypeOK', UNCHANGED <<session, written>>,
         NEW u \in Users, NEW S \in SUBSET (Tables \union Marks),
         NEW row \in Rows \union {Nothing},
         account' = [account EXCEPT ![u] = S],
         questionnaire' = [questionnaire EXCEPT ![u] = row],
         "user" \in S \/ (S = {} /\ row = Nothing /\ SessionsOf(u) = {})
  PROVE  TypeOK'
<1>1. /\ account \in [Users -> SUBSET (Tables \union Marks)]
      /\ questionnaire \in [Users -> Rows \union {Nothing}]
  BY DEF Typed, TypeOK, QuestionnaireTypeOK
<1>2. /\ account' \in [Users -> SUBSET (Tables \union Marks)]
      /\ questionnaire' \in [Users -> Rows \union {Nothing}]
  BY <1>1
<1>3. \A v \in Users : account'[v] # {} \/ questionnaire'[v] # Nothing => "user" \in account'[v]
  BY <1>1 DEF Typed, TypeOK
<1>4. \A q \in Requests : session'[q] # "none" => "user" \in account'[req[q].user]
  <2> SUFFICES ASSUME NEW q \in Requests, session[q] # "none"
               PROVE  "user" \in account'[req[q].user]
    OBVIOUS
  <2>1. req[q].user \in Users /\ "user" \in account[req[q].user]
    BY Asked DEF Typed, TypeOK
  <2>2. req[q].user = u => SessionsOf(u) # {}
    BY DEF SessionsOf
  <2> QED
    BY <1>1, <2>1, <2>2
<1> QED
  BY <1>2, <1>3, <1>4 DEF Typed, TypeOK, QuestionnaireTypeOK, Alone

-----------------------------------------------------------------------------
(* Registration.                                                            *)
LEMMA CreateUserStep ==
  ASSUME AInv, NEW r \in Requests, createUser(r), before' = before
  PROVE  AInv'
<1>1. Typed /\ StageOK(r) /\ UNCHANGED <<session, written>>
      /\ pc[r] = "queued" /\ req[r].op = "createUser" /\ req[r].user \in Users
  BY Asked DEF AInv, Typed, StagesOK, createUser, Taken
<1>2. PICK outcome \in {Success, 500} :
        /\ Answer(r, outcome)
        /\ \/ UNCHANGED <<account, questionnaire>>
           \/ /\ "user" \notin account[req[r].user]
              /\ account' = [account EXCEPT ![req[r].user] = Tables \union {"password"}]
              /\ questionnaire' = [questionnaire EXCEPT ![req[r].user] = Blank(Nothing)]
  BY DEF createUser
<1>3. outcome \in Outcomes /\ req[r].op \in AccountOps /\ pc[r] \notin {"done", "lost"}
  BY <1>1 DEF Outcomes, AccountOps
<1>4. Alone(r) /\ pc'[r] = "done" /\ RpcTypeOK'
  BY <1>1, <1>2, <1>3, Answered
<1>5. Blank(Nothing) \in Rows /\ Blank(Nothing) # Nothing
  BY RowTypes
<1>6. TypeOK'
  <2>1. Tables \union {"password"} \in SUBSET (Tables \union Marks) /\ "user" \in Tables
    BY DEF Tables, Marks
  <2>2. CASE UNCHANGED <<account, questionnaire>>
    BY <1>1, <1>4, <2>2 DEF Typed, TypeOK, QuestionnaireTypeOK, Alone
  <2>3. CASE ~ UNCHANGED <<account, questionnaire>>
    BY <1>1, <1>2, <1>4, <1>5, <2>1, <2>3, RowsTyped
  <2> QED
    BY <2>2, <2>3
<1>7. /\ account \in [Users -> SUBSET (Tables \union Marks)]
      /\ questionnaire \in [Users -> Rows \union {Nothing}]
  BY <1>1 DEF Typed, TypeOK, QuestionnaireTypeOK
<1>8. Typed'
  <2>1. StageOK(r)'
    BY <1>4 DEF StageOK, Labels
  <2>2. \A u \in Users : questionnaire[u] # Nothing => questionnaire'[u] # Nothing
    BY <1>2, <1>5, <1>7
  <2> QED
    BY <1>1, <1>4, <1>6, <2>1, <2>2, TypedKept
<1>9. TellsTruth(r) /\ KeepsSessions(r)
  BY <1>1, <1>4 DEF TellsTruth, KeepsSessions, Superseding, Alone
<1>10. KeepsRows(r)
  BY <1>1, <1>2, <1>4, <1>5, <1>7 DEF KeepsRows, Half, Gone, Cause, SessionsOf, Alone, Tables
<1> QED
  BY <1>4, <1>8, <1>9, <1>10, StepKept

LEMMA RegisterStep ==
  ASSUME AInv, NEW r \in Requests, register(r), before' = before
  PROVE  AInv'
<1>1. Typed /\ StageOK(r) /\ UNCHANGED <<session, questionnaire, written>>
      /\ pc[r] = "queued" /\ req[r].op = "register" /\ req[r].user \in Users
  BY Asked DEF AInv, Typed, StagesOK, register, Taken, questionnaireVars
<1>2. CASE "user" \in account[req[r].user]
  <2>1. Answer(r, 400) /\ UNCHANGED account
    BY <1>2 DEF register
  <2> QED
    BY <1>1, <2>1, Declines DEF AccountOps
<1>3. CASE "user" \notin account[req[r].user]
  <2>1. account' = [account EXCEPT ![req[r].user] = {"user"}] /\ GoOn(r, "registering", Nothing)
    BY <1>3 DEF register
  <2>2. Alone(r) /\ pc'[r] = "registering" /\ told' = told /\ RpcTypeOK'
    BY <1>1, <2>1, GoesOn
  <2>3. account \in [Users -> SUBSET (Tables \union Marks)]
    BY <1>1 DEF Typed, TypeOK
  <2>4. TypeOK'
    BY <1>1, <2>1, <2>2 DEF Typed, TypeOK, QuestionnaireTypeOK, Tables, Alone
  <2>5. Typed'
    <3>1. StageOK(r)'
      BY <1>1, <2>2 DEF StageOK, Labels, Alone
    <3> QED
      BY <1>1, <2>2, <2>4, <3>1, TypedKept
  <2>6. TellsTruth(r) /\ KeepsSessions(r)
    BY <1>1, <2>2 DEF TellsTruth, KeepsSessions, Superseding, Alone
  <2>7. Cause(r)'
    BY <1>1, <2>2 DEF Cause, Running, Alone
  <2>8. KeepsRows(r)
    BY <1>1, <1>3, <2>1, <2>2, <2>3, <2>7 DEF KeepsRows, Half, Gone, SessionsOf, Alone, Tables
  <2> QED
    BY <2>2, <2>5, <2>6, <2>8, StepKept
<1> QED
  BY <1>2, <1>3

LEMMA CommitRegisterStep ==
  ASSUME AInv, NEW r \in Requests, CommitRegister(r), before' = before
  PROVE  AInv'
<1>1. Typed /\ StageOK(r) /\ UNCHANGED <<session, written>>
      /\ pc[r] = "registering" /\ req[r].op = "register" /\ req[r].user \in Users
      /\ "user" \in account[req[r].user]
  BY Asked DEF AInv, Typed, StagesOK, StageOK, CommitRegister
<1>2. /\ account' = [account EXCEPT ![req[r].user] = @ \union Tables]
      /\ Answer(r, Success)
  BY DEF CommitRegister
<1>3. Alone(r) /\ pc'[r] = "done" /\ RpcTypeOK'
  BY <1>1, <1>2, Answered DEF Outcomes, AccountOps
<1>4. Blank(<<>>) \in Rows /\ Blank(<<>>) # Nothing
  BY RowTypes
<1>5. /\ account \in [Users -> SUBSET (Tables \union Marks)]
      /\ questionnaire \in [Users -> Rows \union {Nothing}]
  BY <1>1 DEF Typed, TypeOK, QuestionnaireTypeOK
<1>6. PICK row \in Rows :
        row # Nothing /\ questionnaire' = [questionnaire EXCEPT ![req[r].user] = row]
  BY <1>1, <1>4, <1>5 DEF CommitRegister
<1>7. Typed'
  <2>1. TypeOK'
    BY <1>1, <1>2, <1>3, <1>6 DEF Typed, TypeOK, QuestionnaireTypeOK, Tables, Alone
  <2>2. StageOK(r)'
    BY <1>3 DEF StageOK, Labels
  <2>3. \A u \in Users : questionnaire[u] # Nothing => questionnaire'[u] # Nothing
    BY <1>5, <1>6
  <2> QED
    BY <1>1, <1>3, <2>1, <2>2, <2>3, TypedKept
<1>8. TellsTruth(r) /\ KeepsSessions(r)
  BY <1>1, <1>2, <1>3, <1>5 DEF TellsTruth, KeepsSessions, Superseding, Alone, Tables
<1>9. KeepsRows(r)
  BY <1>1, <1>2, <1>3, <1>5, <1>6 DEF KeepsRows, Half, Gone, SessionsOf, Alone, Tables
<1> QED
  BY <1>3, <1>7, <1>8, <1>9, StepKept

LEMMA EditUserStep ==
  ASSUME AInv, NEW r \in Requests, editUser(r), before' = before
  PROVE  AInv'
<1>1. Typed /\ StageOK(r) /\ UNCHANGED <<session, questionnaire, written>>
      /\ pc[r] = "queued" /\ req[r].op = "editUser" /\ req[r].user \in Users
  BY Asked DEF AInv, Typed, StagesOK, editUser, Taken, questionnaireVars
<1>2. PICK outcome \in {Success, 500} :
        /\ Answer(r, outcome)
        /\ \/ account' = account
           \/ /\ "user" \in account[req[r].user]
              /\ \E S \in SUBSET {"password"} : \E T \in SUBSET {"renamed"} :
                   /\ account' = [account EXCEPT ![req[r].user] = (@ \ S) \union T]
                   /\ T # {} => "email" \in req[r].fields
  <2>1. CASE "user" \in account[req[r].user] /\ req[r].fields # {}
    <3> DEFINE S == req[r].fields \intersect {"password"}
               T == IF "email" \in req[r].fields THEN {"renamed"} ELSE {}
    <3>1. /\ Answer(r, Success)
          /\ account' = [account EXCEPT ![req[r].user] = (@ \ S) \union T]
      BY <2>1 DEF editUser
    <3>2. S \in SUBSET {"password"} /\ T \in SUBSET {"renamed"} /\ (T # {} => "email" \in req[r].fields)
      OBVIOUS
    <3> QED
      BY <2>1, <3>1, <3>2
  <2>2. CASE ~ ("user" \in account[req[r].user] /\ req[r].fields # {})
    BY <2>2 DEF editUser
  <2> QED
    BY <2>1, <2>2
<1>3. Alone(r) /\ pc'[r] = "done" /\ RpcTypeOK'
  BY <1>1, <1>2, Answered DEF Outcomes, AccountOps
<1>4. account \in [Users -> SUBSET (Tables \union Marks)]
  BY <1>1 DEF Typed, TypeOK
<1>5. /\ account' \in [Users -> SUBSET (Tables \union Marks)]
      /\ \A u \in Users : \A table \in Tables : table \in account[u] <=> table \in account'[u]
      /\ \A u \in Users : account'[u] # {} <=> account[u] # {}
      /\ \A u \in Users : "renamed" \in account'[u] =>
           "renamed" \in account[u] \/ (u = req[r].user /\ "email" \in req[r].fields)
  <2>1. CASE account' = account
    BY <1>4, <2>1
  <2>2. CASE account' # account
    <3>1. PICK S \in SUBSET {"password"} : \E T \in SUBSET {"renamed"} :
            /\ account' = [account EXCEPT ![req[r].user] = (@ \ S) \union T]
            /\ T # {} => "email" \in req[r].fields
      BY <1>2, <2>2
    <3>2. PICK T \in SUBSET {"renamed"} :
            /\ account' = [account EXCEPT ![req[r].user] = (@ \ S) \union T]
            /\ T # {} => "email" \in req[r].fields
      BY <3>1
    <3>3. "user" \in account[req[r].user]
      BY <1>2, <2>2
    <3>4. /\ account'[req[r].user] = (account[req[r].user] \ S) \union T
          /\ \A u \in Users \ {req[r].user} : account'[u] = account[u]
          /\ DOMAIN account' = Users
      BY <1>1, <1>4, <3>2
    <3>5. account' \in [Users -> SUBSET (Tables \union Marks)]
      <4>1. T \subseteq Tables \union Marks
        BY DEF Marks
      <4>2. account[req[r].user] \subseteq Tables \union Marks
        BY <1>1, <1>4
      <4>3. (account[req[r].user] \ S) \union T \in SUBSET (Tables \union Marks)
        BY <4>1, <4>2
      <4> QED
        BY <1>4, <3>2, <4>3
    <3>6. "user" \in account'[req[r].user]
      BY <3>3, <3>4
    <3> QED
      BY <3>2, <3>3, <3>4, <3>5, <3>6 DEF Tables
  <2> QED
    BY <2>1, <2>2
<1>6. Typed'
  <2>1. TypeOK'
    <3>1. \A u \in Users : "user" \in account[u] <=> "user" \in account'[u]
      BY <1>5 DEF Tables
    <3>2. \A q \in Requests : req[q].user \in Users
      BY <1>1, Asked DEF Typed
    <3> QED
      BY <1>1, <1>3, <1>5, <3>1, <3>2 DEF Typed, TypeOK, QuestionnaireTypeOK, Alone
  <2>2. StageOK(r)'
    BY <1>3 DEF StageOK, Labels
  <2> QED
    BY <1>1, <1>3, <2>1, <2>2, TypedKept
<1>7. TellsTruth(r) /\ KeepsSessions(r)
  BY <1>1, <1>3 DEF TellsTruth, KeepsSessions, Superseding, Alone
<1>8. \A u \in Users : "renamed" \in account'[u] => "renamed" \in account[u] \/ RenameBegun(u)'
  BY <1>1, <1>3, <1>5 DEF RenameBegun, Renames, Of, Alone
<1>9. \A u \in Users :
        /\ Tables \subseteq account[u] <=> Tables \subseteq account'[u]
        /\ account'[u] = {} <=> account[u] = {}
        /\ "user" \in account[u] => "user" \in account'[u]
  <2> TAKE u \in Users
  <2>1. "user" \in Tables
    BY DEF Tables
  <2>2. \A table \in Tables : table \in account[u] <=> table \in account'[u]
    BY <1>5
  <2>3. account'[u] # {} <=> account[u] # {}
    BY <1>5
  <2> QED
    BY <2>1, <2>2, <2>3
<1>10. /\ \A u \in Users : (Half(u)' <=> Half(u)) /\ (Gone(u)' <=> Gone(u))
       /\ ~ Cause(r)
  BY <1>1, <1>3, <1>9 DEF Half, Gone, Cause, SessionsOf, Alone
<1>11. KeepsRows(r)
  <2>1. "user" \in Tables
    BY DEF Tables
  <2> QED
    BY <1>8, <1>9, <1>10, <2>1 DEF KeepsRows
<1> QED
  BY <1>3, <1>6, <1>7, <1>11, StepKept

-----------------------------------------------------------------------------
(* Deletion.                                                                *)
LEMMA DeleteUserStep ==
  ASSUME AInv, NEW r \in Requests, deleteUser(r), before' = before
  PROVE  AInv'
<1>1. /\ Typed /\ pc[r] = "queued" /\ req[r].op = "deleteUser" /\ GoOn(r, "deleting", 1)
      /\ UNCHANGED <<account, session, questionnaire, written>>
  BY DEF AInv, deleteUser, Taken, accountVars, questionnaireVars
<1>2. Alone(r) /\ pc'[r] = "deleting" /\ mem'[r] = 1
  BY <1>1, GoesOn
<1>3. StageOK(r)'
  BY <1>1, <1>2 DEF StageOK, Labels, Alone
<1>4. "deleting" \in Labels \ {"new", "queued", "done", "lost", "session"}
  BY DEF Labels
<1> QED
  BY <1>1, <1>3, <1>4, Proceeds

LEMMA Order == /\ \A i \in 1..5 : DeleteOrder[i] = "user" <=> i = 5
               /\ \A i \in 1..5 : DeleteOrder[i] \in {"stats", "profile", "settings", "sessions", "user"}
BY DEF DeleteOrder

LEMMA DestroyNextStep ==
  ASSUME AInv, NEW r \in Requests, DestroyNext(r), before' = before
  PROVE  AInv'
<1>1. Typed /\ StageOK(r) /\ UNCHANGED <<questionnaire, written>>
      /\ pc[r] = "deleting" /\ req[r].op = "deleteUser" /\ req[r].user \in Users
      /\ mem[r] \in 1..5 /\ DeleteOrder[mem[r]] # "user"
  BY Asked DEF AInv, Typed, StagesOK, StageOK, DestroyNext, questionnaireVars
<1>2. PICK table : /\ table # "user"
                   /\ account' = [account EXCEPT ![req[r].user] = @ \ {table}]
                   /\ \A q \in Requests : session'[q] \in {session[q], "none"}
                   /\ session' \in [Requests -> Sessions]
  BY <1>1 DEF DestroyNext, Typed, TypeOK, Sessions
<1>3. mem[r] + 1 \in 1..5
  BY <1>1, Order
<1>4. Alone(r) /\ pc'[r] = "deleting" /\ mem'[r] = mem[r] + 1 /\ told' = told /\ RpcTypeOK'
  BY <1>1, GoesOn DEF DestroyNext
<1>5. account \in [Users -> SUBSET (Tables \union Marks)]
  BY <1>1 DEF Typed, TypeOK
<1>6. /\ account' \in [Users -> SUBSET (Tables \union Marks)]
      /\ \A u \in Users : "user" \in account[u] <=> "user" \in account'[u]
      /\ \A u \in Users : account'[u] # {} => account[u] # {}
      /\ \A u \in Users : u # req[r].user => account'[u] = account[u]
      /\ \A u \in Users : account'[u] \subseteq account[u]
  BY <1>1, <1>2, <1>5
<1>7. \A q \in Requests : req[q].user \in Users
  BY <1>1, Asked DEF Typed
<1>8. Typed'
  <2>1. TypeOK'
    BY <1>1, <1>2, <1>4, <1>6, <1>7 DEF Typed, TypeOK, QuestionnaireTypeOK, Alone
  <2>2. StageOK(r)'
    BY <1>1, <1>3, <1>4 DEF StageOK, Labels, Alone
  <2> QED
    BY <1>1, <1>2, <1>4, <2>1, <2>2, TypedKept
<1>9. TellsTruth(r) /\ KeepsSessions(r)
  BY <1>1, <1>2, <1>4 DEF TellsTruth, KeepsSessions, Superseding, Alone
<1>10. Cause(r)' /\ DeletionBegun(req[r].user)'
  BY <1>1, <1>4 DEF Cause, Running, DeletionBegun, Of, Alone
<1>11. \A u \in Users : Gone(u) => Gone(u)'
  BY <1>1, <1>2, <1>4, <1>6 DEF Gone, SessionsOf, Alone
<1>12. ASSUME NEW u \in Users, u = req[r].user
       PROVE  DeletionBegun(u)'
  BY <1>4, <1>10, <1>12 DEF DeletionBegun, Of, Alone
<1>13. KeepsRows(r)
  BY <1>1, <1>4, <1>6, <1>10, <1>11, <1>12 DEF KeepsRows, Half
<1> QED
  BY <1>4, <1>8, <1>9, <1>13, StepKept

LEMMA DestroyUserStep ==
  ASSUME AInv, NEW r \in Requests, DestroyUser(r), before' = before
  PROVE  AInv'
<1>1. Typed /\ StageOK(r) /\ UNCHANGED <<session, questionnaire, written>>
      /\ pc[r] = "deleting" /\ req[r].op = "deleteUser" /\ req[r].user \in Users
  BY Asked DEF AInv, Typed, StagesOK, StageOK, DestroyUser, questionnaireVars
<1>2. CASE Referred(req[r].user)
  <2>1. Answer(r, 500) /\ UNCHANGED account
    BY <1>2 DEF DestroyUser
  <2> QED
    BY <1>1, <2>1, Declines DEF AccountOps
<1>3. CASE ~ Referred(req[r].user)
  <2>1. PICK outcome \in {Success, 500} : Answer(r, outcome)
    BY <1>3 DEF DestroyUser
  <2>2. Alone(r) /\ pc'[r] = "done" /\ RpcTypeOK'
    BY <1>1, <2>1, Answered DEF Outcomes, AccountOps
  <2>3. account' = [account EXCEPT ![req[r].user] = {}]
    BY <1>3 DEF DestroyUser
  <2>4. questionnaire[req[r].user] = Nothing /\ SessionsOf(req[r].user) = {}
    BY <1>3 DEF Referred
  <2>5. /\ account \in [Users -> SUBSET (Tables \union Marks)]
        /\ \A u \in Users : u # req[r].user => account'[u] = account[u]
        /\ account'[req[r].user] = {}
        /\ account' \in [Users -> SUBSET (Tables \union Marks)]
    BY <1>1, <2>3 DEF Typed, TypeOK
  <2>6. \A q \in Requests : req[q].user \in Users
                         /\ (session[q] # "none" => req[q].user # req[r].user)
    BY <1>1, <2>4, Asked DEF Typed, SessionsOf
  <2>7. Typed'
    <3>1. TypeOK'
      BY <1>1, <2>2, <2>4, <2>5, <2>6 DEF Typed, TypeOK, QuestionnaireTypeOK, Alone
    <3>2. StageOK(r)'
      BY <2>2 DEF StageOK, Labels
    <3> QED
      BY <1>1, <2>2, <3>1, <3>2, TypedKept
  <2>8. \A u \in Users : u = req[r].user => Gone(u)'
    BY <1>1, <2>2, <2>4, <2>5 DEF Gone, SessionsOf, Alone
  <2>9. TellsTruth(r) /\ KeepsSessions(r)
    BY <1>1, <2>2, <2>8 DEF TellsTruth, KeepsSessions, Superseding, Alone
  <2>10. \A u \in Users : u = req[r].user => DeletionBegun(u)'
    BY <1>1, <2>2 DEF DeletionBegun, Of, Alone
  <2>11. \A u \in Users : Gone(u) => Gone(u)'
    BY <1>1, <2>2, <2>5, <2>8 DEF Gone, SessionsOf, Alone
  <2>12. KeepsRows(r)
    BY <1>1, <2>2, <2>5, <2>8, <2>10, <2>11 DEF KeepsRows, Half
  <2> QED
    BY <2>2, <2>7, <2>9, <2>12, StepKept
<1> QED
  BY <1>2, <1>3

-----------------------------------------------------------------------------
(* Logins.                                                                  *)
LEMMA ValidateStep ==
  ASSUME AInv, NEW r \in Requests, validate(r), before' = before
  PROVE  AInv'
<1>1. Typed /\ StageOK(r) /\ UNCHANGED <<account, session, questionnaire, written>>
      /\ pc[r] = "queued" /\ req[r].op = "login"
  BY DEF AInv, Typed, StagesOK, validate, Taken, accountVars, questionnaireVars
<1>2. CASE "user" \notin account[req[r].user] \/ "renamed" \in account[req[r].user]
  <2>1. Answer(r, 404)
    BY <1>2 DEF validate
  <2>2. /\ Alone(r) /\ pc'[r] = "done" /\ RpcTypeOK' /\ told'[r] \in {told[r], 404}
    BY <1>1, <2>1, Answered DEF Outcomes, AccountOps, Success
  <2>3. Typed'
    <3>1. TypeOK' /\ StageOK(r)'
      BY <1>1, <2>2 DEF Typed, TypeOK, QuestionnaireTypeOK, Alone, StageOK, Labels
    <3> QED
      BY <1>1, <2>2, <3>1, TypedKept
  <2>4. TellsTruth(r)
    BY <1>1, <1>2, <2>2 DEF TellsTruth, Tables
  <2>5. KeepsRows(r)
    BY <1>1, <2>2 DEF KeepsRows, Half, Gone, Cause, SessionsOf, Alone
  <2>6. KeepsSessions(r)
    BY <1>1, <2>2 DEF KeepsSessions, Superseding, Alone
  <2> QED
    BY <2>2, <2>3, <2>4, <2>5, <2>6, StepKept
<1>3. CASE Answer(r, 401)
  BY <1>1, <1>3, Declines DEF AccountOps
<1>4. CASE GoOn(r, "opening", Nothing) /\ "user" \in account[req[r].user]
  <2>1. Alone(r) /\ pc'[r] = "opening"
    BY <1>1, <1>4, GoesOn
  <2>2. session[r] = "none"
    BY <1>1 DEF StageOK
  <2>3. StageOK(r)'
    BY <1>1, <2>1, <2>2 DEF StageOK, Labels, Alone
  <2>4. "opening" \in Labels \ {"new", "queued", "done", "lost", "session"}
    BY DEF Labels
  <2> QED
    BY <1>1, <1>4, <2>3, <2>4, Proceeds
<1> QED
  BY <1>2, <1>3, <1>4 DEF validate

LEMMA OutdateStep ==
  ASSUME AInv, NEW r \in Requests, Outdate(r), before' = before
  PROVE  AInv'
<1>1. Typed /\ StageOK(r) /\ UNCHANGED <<account, questionnaire, written>>
      /\ pc[r] = "opening" /\ req[r].op = "login" /\ GoOn(r, "session", Nothing)
  BY DEF AInv, Typed, StagesOK, StageOK, Outdate, questionnaireVars
<1>2. Alone(r) /\ pc'[r] = "session" /\ told' = told /\ RpcTypeOK'
  BY <1>1, GoesOn
<1>3. session \in [Requests -> Sessions]
  BY <1>1 DEF Typed, TypeOK
<1>4. /\ session' \in [Requests -> Sessions]
      /\ \A q \in Requests : session'[q] # "none" <=> session[q] # "none"
      /\ \A q \in Requests : session'[q] = "ACTIVE" => session[q] = "ACTIVE"
      /\ \A q \in Requests : req[q].user = req[r].user => session'[q] # "ACTIVE"
  BY <1>3 DEF Outdate, Sessions
<1>5. Typed'
  <2>1. TypeOK'
    BY <1>1, <1>2, <1>4 DEF Typed, TypeOK, QuestionnaireTypeOK, Alone
  <2>2. StageOK(r)'
    BY <1>1, <1>2, <1>4 DEF StageOK, Labels, Alone
  <2> QED
    BY <1>1, <1>2, <1>4, <2>1, <2>2, TypedKept
<1>6. TellsTruth(r)
  BY <1>2 DEF TellsTruth
<1>7. KeepsRows(r)
  BY <1>1, <1>2, <1>4 DEF KeepsRows, Half, Gone, Cause, SessionsOf, Alone
<1>8. KeepsSessions(r)
  <2>1. before[r] \subseteq Requests
    BY <1>1 DEF Typed, TypeOK
  <2> QED
    BY <1>1, <1>4, <2>1 DEF KeepsSessions
<1> QED
  BY <1>2, <1>5, <1>6, <1>7, <1>8, StepKept

LEMMA CreateSessionStep ==
  ASSUME AInv, NEW r \in Requests, CreateSession(r), before' = before
  PROVE  AInv'
<1>1. Typed /\ StageOK(r) /\ UNCHANGED <<account, questionnaire, written>>
      /\ pc[r] = "session" /\ req[r].op = "login" /\ session[r] = "none"
      /\ "user" \in account[req[r].user] /\ req[r].user \in Users
  BY Asked DEF AInv, Typed, StagesOK, StageOK, CreateSession, questionnaireVars
<1>2. PICK outcome \in {Success, 500} : Answer(r, outcome)
  BY DEF CreateSession
<1>3. /\ Alone(r) /\ pc'[r] = "done" /\ RpcTypeOK'
      /\ told'[r] \in {told[r], 500, 200, 201, 202}
  BY <1>1, <1>2, Answered DEF Outcomes, AccountOps
<1>4. /\ session \in [Requests -> Sessions]
      /\ session' = [session EXCEPT ![r] = "ACTIVE"]
  BY <1>1 DEF Typed, TypeOK, CreateSession
<1>5. /\ session' \in [Requests -> Sessions] /\ session'[r] = "ACTIVE"
      /\ \A q \in Requests \ {r} : session'[q] = session[q]
  BY <1>4 DEF Sessions
<1>6. Typed'
  <2>1. TypeOK'
    BY <1>1, <1>3, <1>5 DEF Typed, TypeOK, QuestionnaireTypeOK, Alone
  <2>2. StageOK(r)'
    BY <1>3 DEF StageOK, Labels
  <2> QED
    BY <1>1, <1>3, <1>5, <2>1, <2>2, TypedKept
<1>7. TellsTruth(r)
  BY <1>1, <1>3 DEF TellsTruth
<1>8. KeepsRows(r)
  <2>1. \A u \in Users : Gone(u) => u # req[r].user
    BY <1>1 DEF Gone
  <2>2. \A u \in Users : Gone(u) => Gone(u)'
    BY <1>1, <1>3, <1>5, <2>1 DEF Gone, SessionsOf, Alone
  <2> QED
    BY <1>1, <1>3, <2>2 DEF KeepsRows, Half, Cause
<1>9. KeepsSessions(r)
  BY <1>1, <1>5 DEF KeepsSessions, Superseding
<1> QED
  BY <1>3, <1>6, <1>7, <1>8, <1>9, StepKept

-----------------------------------------------------------------------------
(* The questionnaire.                                                       *)
LEMMA NoAnswerYet ==
  ASSUME AInv, NEW r \in Requests, NEW outcome, NEW result,
         QuestionnaireController(r, outcome, result),
         req[r].op \in QuestionnaireOps, pc[r] \notin {"done", "lost"},
         UNCHANGED <<before, account, session, questionnaire>>, written' = written
  PROVE  AInv'
<1>1. Typed /\ Finish(r, outcome, 200, result) /\ 200 \in Statuses
  BY DEF AInv, QuestionnaireController, api_questionnaire, Statuses
<1>2. Alone(r) /\ pc'[r] = "done" /\ RpcTypeOK'
  BY <1>1, Finishes
<1>3. StageOK(r)' /\ written' \subseteq Requests
  BY <1>1, <1>2 DEF StageOK, Labels, Typed, TypeOK, QuestionnaireTypeOK
<1> QED
  BY <1>2, <1>3, QuietStep DEF Plain, Cause, QuestionnaireOps

LEMMA QuestionnaireReads ==
  ASSUME AInv, NEW r \in Requests,
         getQuestionnaire(r) \/ submitQuestion(r) \/ ReadAnswers(r) \/ QuestionnaireFails(r),
         UNCHANGED <<account, session, before>>
  PROVE  AInv'
<1>1. Typed /\ StageOK(r) /\ UNCHANGED <<questionnaire, written>> /\ req[r].user \in Users
      /\ pc[r] \notin {"new", "done", "lost"} /\ req[r].op \in QuestionnaireOps
  BY Asked DEF AInv, Typed, StagesOK, StageOK, getQuestionnaire, submitQuestion, ReadAnswers,
           QuestionnaireFails, Taken, Running, QuestionnaireOps
<1>2. CASE \E outcome, result : QuestionnaireController(r, outcome, result)
  BY <1>1, <1>2, NoAnswerYet
<1>3. CASE submitQuestion(r) /\ ~ \E outcome, result : QuestionnaireController(r, outcome, result)
  <2>1. /\ GoOn(r, "answering", Nothing) /\ req[r].op = "submitQuestion"
        /\ req[r].shortcode \in Active /\ req[r].answer \notin Misfits
    BY <1>3 DEF submitQuestion, Taken
  <2>2. req[r].answer \in Answers
    BY <1>1, <2>1, Asked DEF Typed
  <2>3. Alone(r) /\ pc'[r] = "answering"
    BY <1>1, <2>1, GoesOn
  <2>4. StageOK(r)'
    BY <2>1, <2>2, <2>3 DEF StageOK, Labels, Alone
  <2>5. "answering" \in Labels \ {"new", "queued", "done", "lost", "session"}
    BY DEF Labels
  <2> QED
    BY <1>1, <2>1, <2>4, <2>5, Proceeds
<1>4. CASE ReadAnswers(r) /\ ~ \E outcome, result : QuestionnaireController(r, outcome, result)
  <2>1. /\ GoOn(r, "writing", questionnaire[req[r].user].responses)
        /\ questionnaire[req[r].user] # Nothing
        /\ questionnaire[req[r].user].responses # Nothing
        /\ pc[r] = "answering"
    BY <1>4 DEF ReadAnswers
  <2>2. questionnaire[req[r].user] \in Rows
    BY <1>1, <2>1 DEF Typed, TypeOK, QuestionnaireTypeOK
  <2>3. questionnaire[req[r].user].responses \in Responses
    BY <2>1, <2>2, RowTypes
  <2>4. Alone(r) /\ pc'[r] = "writing" /\ mem'[r] \in Responses
    BY <1>1, <2>1, <2>3, GoesOn
  <2>5. StageOK(r)'
    BY <1>1, <2>1, <2>4 DEF StageOK, Labels, Alone
  <2>6. "writing" \in Labels \ {"new", "queued", "done", "lost", "session"}
    BY DEF Labels
  <2> QED
    BY <1>1, <2>1, <2>5, <2>6, Proceeds
<1> QED
  BY <1>2, <1>3, <1>4 DEF getQuestionnaire, QuestionnaireFails

(* A row of the questionnaire is replaced by another one.                   *)
LEMMA RowReplaced ==
  ASSUME AInv, NEW r \in Requests, Alone(r), RpcTypeOK', StageOK(r)',
         UNCHANGED <<account, session>>, written' \subseteq Requests,
         req[r].op = "submitQuestion", pc'[r] # "session",
         NEW u \in Users, NEW row \in Rows, questionnaire[u] # Nothing,
         questionnaire' = [questionnaire EXCEPT ![u] = row]
  PROVE  AInv'
<1>1. Typed /\ questionnaire \in [Users -> Rows \union {Nothing}]
  BY DEF AInv, Typed, TypeOK, QuestionnaireTypeOK
<1>2. /\ questionnaire' \in [Users -> Rows \union {Nothing}]
      /\ \A v \in Users : questionnaire'[v] # Nothing <=> questionnaire[v] # Nothing
  BY <1>1, RowTypes
<1>3. Typed'
  <2>1. TypeOK'
    BY <1>1, <1>2 DEF Typed, TypeOK, QuestionnaireTypeOK, Alone
  <2> QED
    BY <1>1, <1>2, <2>1, TypedKept
<1>4. TellsTruth(r) /\ KeepsSessions(r)
  BY DEF TellsTruth, KeepsSessions, Superseding, Alone
<1>5. KeepsRows(r)
  BY <1>2 DEF KeepsRows, Half, Gone, Cause, SessionsOf, Alone
<1> QED
  BY <1>3, <1>4, <1>5, StepKept

LEMMA MergedType ==
  ASSUME NEW r \in Requests, mem[r] \in Responses,
         req[r].shortcode \in Active, req[r].answer \in Answers
  PROVE  Merged(r) \in Responses
<1>1. PICK S \in SUBSET Active : mem[r] \in [S -> Answers]
  BY DEF Responses
<1>2. Merged(r) \in [S \union {req[r].shortcode} -> Answers]
  BY <1>1 DEF Merged
<1>3. S \union {req[r].shortcode} \in SUBSET Active
  OBVIOUS
<1> QED
  BY <1>2, <1>3 DEF Responses

LEMMA AnswerSteps ==
  ASSUME AInv, NEW r \in Requests, WriteAnswers(r) \/ Complete(r), UNCHANGED <<account, session, before>>
  PROVE  AInv'
<1>1. Typed /\ StageOK(r) /\ req[r].user \in Users /\ questionnaire[req[r].user] # Nothing
      /\ pc[r] \in {"writing", "counting"} /\ req[r].op = "submitQuestion"
      /\ written' \subseteq Requests
  BY Asked DEF AInv, Typed, StagesOK, StageOK, WriteAnswers, Complete, TypeOK, QuestionnaireTypeOK
<1>2. questionnaire \in [Users -> Rows \union {Nothing}] /\ questionnaire[req[r].user] \in Rows
  BY <1>1 DEF Typed, TypeOK, QuestionnaireTypeOK
<1>3. CASE WriteAnswers(r)
  <2>1. pc[r] = "writing" /\ GoOn(r, "counting", Cardinality(DOMAIN mem[r]))
    BY <1>3 DEF WriteAnswers
  <2>2. Alone(r) /\ pc'[r] = "counting" /\ RpcTypeOK'
    BY <1>1, <2>1, GoesOn
  <2>3. Merged(r) \in Responses
    BY <1>1, <2>1, MergedType DEF StageOK
  <2>4. PICK row \in Rows : questionnaire' = [questionnaire EXCEPT ![req[r].user] = row]
    <3> DEFINE new == [questionnaire[req[r].user] EXCEPT !.responses = Merged(r),
                         !.started = @ \/ DOMAIN mem[r] = {}]
    <3>1. new \in Rows
      BY <1>2, <2>3 DEF Rows
    <3>2. questionnaire' = [questionnaire EXCEPT ![req[r].user] = new]
      BY <1>3 DEF WriteAnswers
    <3> HIDE DEF new
    <3> QED
      BY <3>1, <3>2
  <2>5. questionnaire'[req[r].user] # Nothing
    BY <1>1, <1>2, <2>4, RowTypes
  <2>6. StageOK(r)'
    BY <1>1, <2>1, <2>2, <2>5 DEF StageOK, Labels, Alone
  <2> QED
    BY <1>1, <2>2, <2>4, <2>6, RowReplaced
<1>4. CASE Complete(r)
  <2>1. Finish(r, Success, 200, Nothing) /\ 200 \in Statuses
    BY <1>4 DEF Complete, QuestionnaireController, api_questionnaire, Statuses
  <2>2. Alone(r) /\ pc'[r] = "done" /\ RpcTypeOK'
    BY <1>1, <2>1, Finishes
  <2>3. PICK row \in Rows : questionnaire' = [questionnaire EXCEPT ![req[r].user] = row]
    <3>1. [questionnaire[req[r].user] EXCEPT !.completed = TRUE] \in Rows
      BY <1>2 DEF Rows
    <3>2. questionnaire = [questionnaire EXCEPT ![req[r].user] = questionnaire[req[r].user]]
      BY <1>2
    <3> QED
      BY <1>2, <1>4, <3>1, <3>2 DEF Complete
  <2>4. StageOK(r)'
    BY <2>2 DEF StageOK, Labels
  <2> QED
    BY <1>1, <2>2, <2>3, <2>4, RowReplaced
<1> QED
  BY <1>3, <1>4

-----------------------------------------------------------------------------
(* A request is sent: what has ended by now is noted as its past, and it    *)
(* has not been answered yet.                                               *)
LEMMA AskStep ==
  ASSUME AInv, NEW r \in Requests, Ask(r)
  PROVE  AInv'
<1>1. /\ Typed /\ StageOK(r) /\ pc[r] = "new"
      /\ UNCHANGED <<req, mem, told, account, session, questionnaire, written, crashes>>
      /\ pc' = [pc EXCEPT ![r] = "queued"]
      /\ before' = [before EXCEPT ![r] = {q \in Requests : Ended(q)}]
  BY DEF AInv, Typed, StagesOK, Ask, Send, accountVars, questionnaireVars
<1>2. told[r] = NoAnswer /\ session[r] = "none"
  BY <1>1 DEF StageOK
<1>3. /\ pc'[r] = "queued" /\ \A q \in Requests \ {r} : pc'[q] = pc[q]
      /\ before' \in [Requests -> SUBSET Requests]
      /\ \A q \in Requests \ {r} : before'[q] = before[q]
      /\ \A q \in before'[r] : Ended(q)
      /\ RpcTypeOK'
  BY <1>1 DEF Typed, TypeOK, RpcTypeOK
<1>4. Typed'
  <2>1. TypeOK'
    BY <1>1, <1>3 DEF Typed, TypeOK, QuestionnaireTypeOK
  <2>2. ASSUME NEW q \in Requests PROVE StageOK(q)'
    <3>1. StageOK(q)
      BY <1>1 DEF Typed, StagesOK
    <3> QED
      BY <1>1, <1>2, <1>3, <3>1 DEF StageOK, Labels
  <2> QED
    BY <1>1, <2>1, <2>2 DEF Typed, StagesOK
<1>5. PastOK'
  BY <1>1, <1>3 DEF AInv, PastOK, Ended
<1>6. \A u : DeletionBegun(u) <=> DeletionBegun(u)'
  BY <1>1, <1>3 DEF DeletionBegun, Of
<1>7. HalfUserHasCause'
  BY <1>1, <1>3 DEF AInv, HalfUserHasCause, Of, Running
<1>8. DeletedIsGone'
  BY <1>1, <1>2, <1>3 DEF AInv, DeletedIsGone, SessionsOf, Of, NoAnswer
<1>9. RegisteredIsThere' /\ RenamedOK'
  BY <1>1, <1>3 DEF AInv, RegisteredIsThere, DeletionBegun, RenamedOK, RenameBegun, Renames, Of
<1>10. RegisteredIsFound'
  BY <1>1, <1>2, <1>3 DEF AInv, RegisteredIsFound, Renames, Of, NoAnswer
<1>11. SupersededOK'
  BY <1>1, <1>2, <1>3 DEF AInv, SupersededOK, Superseding, NoAnswer
<1>12. RefreshOK'
  <2>1. \A q \in Requests : told[q] = 201 => q # r
    BY <1>2 DEF NoAnswer
  <2> QED
    BY <1>1, <1>2, <1>3, <2>1 DEF AInv, RefreshOK, Of, NoAnswer
<1> QED
  BY <1>4, <1>5, <1>7, <1>8, <1>9, <1>10, <1>11, <1>12 DEF AInv

LEMMA CrashStep ==
  ASSUME AInv, Crash, UNCHANGED <<accountVars, questionnaireVars, before>>
  PROVE  AInv'
<1>1. /\ Typed /\ UNCHANGED <<req, mem, account, session, questionnaire, written, before>>
      /\ crashes < CrashBound /\ crashes' = crashes + 1
  BY DEF AInv, Crash, accountVars, questionnaireVars
<1>2. ASSUME NEW q \in Requests
      PROVE  /\ pc'[q] \in {pc[q], "lost"} /\ told'[q] \in {told[q], 500}
             /\ pc[q] \in {"new", "done", "lost"} => pc'[q] = pc[q] /\ told'[q] = told[q]
  BY <1>2 DEF Crash, Running
<1>3. RpcTypeOK'
  <2>1. crashes' \in 0..CrashBound
    BY <1>1, CrashBoundAssumption DEF Typed, TypeOK, RpcTypeOK
  <2>2. /\ DOMAIN pc' = Requests /\ told' \in [Requests -> Statuses \union {NoAnswer}]
    BY <1>1 DEF Typed, TypeOK, RpcTypeOK, Crash, Statuses
  <2> QED
    BY <1>1, <2>1, <2>2 DEF Typed, TypeOK, RpcTypeOK
<1>4. Typed'
  <2>1. TypeOK'
    BY <1>1, <1>3 DEF Typed, TypeOK, QuestionnaireTypeOK
  <2>2. ASSUME NEW q \in Requests PROVE StageOK(q)'
    <3>1. StageOK(q)
      BY <1>1 DEF Typed, StagesOK
    <3> QED
      BY <1>1, <1>2, <3>1 DEF StageOK, Labels
  <2> QED
    BY <1>1, <2>1, <2>2 DEF Typed, StagesOK
<1>5. \A p \in Requests : \A q \in before[p] :
        q \in Requests /\ Ended(q) /\ Ended(q)' /\ told'[q] = told[q]
  BY <1>1, <1>2 DEF AInv, PastOK, Typed, TypeOK, Ended
<1>6. PastOK'
  BY <1>1, <1>5 DEF PastOK
<1>7. ASSUME NEW u, DeletionBegun(u) PROVE DeletionBegun(u)'
  BY <1>1, <1>2, <1>7 DEF DeletionBegun, Of
<1>8. HalfUserHasCause'
  <2>1. \A q \in Requests : Running(q) => Running(q)' \/ pc'[q] = "lost"
    BY <1>2 DEF Running
  <2> QED
    BY <1>1, <1>2, <2>1 DEF AInv, HalfUserHasCause, Of
<1>9. DeletedIsGone'
  BY <1>1, <1>2 DEF AInv, DeletedIsGone, SessionsOf, Of
<1>10. RegisteredIsThere' /\ RenamedOK'
  BY <1>1, <1>2 DEF AInv, RegisteredIsThere, DeletionBegun, RenamedOK, RenameBegun, Renames, Of
<1>11. RegisteredIsFound'
  BY <1>1, <1>2, <1>5 DEF AInv, RegisteredIsFound, Renames, Of
<1>12. SupersededOK'
  BY <1>1, <1>2 DEF AInv, SupersededOK, Superseding
<1>13. RefreshOK'
  BY <1>1, <1>2, <1>5 DEF AInv, RefreshOK, Of
<1> QED
  BY <1>4, <1>6, <1>8, <1>9, <1>10, <1>11, <1>12, <1>13 DEF AInv

-----------------------------------------------------------------------------
LEMMA InitAInv == Init => AInv
<1> SUFFICES ASSUME Init PROVE AInv
  OBVIOUS
<1>1. Blank(<<>>) \in Rows
  BY RowTypes
<1> DEFINE row == Blank(<<>>)
<1>2. questionnaire = [u \in Users |-> IF u \in OldUsers THEN row ELSE Nothing]
  BY DEF Init
<1> HIDE DEF row
<1>3. row \in Rows /\ row # Nothing
  BY <1>1, RowTypes DEF row
<1>4. TypeOK
  <2>1. RpcTypeOK
    BY ScenariosAssumption, CrashBoundAssumption DEF Init, RpcInit, RpcTypeOK
  <2>2. QuestionnaireTypeOK
    BY <1>2, <1>3 DEF Init, QuestionnaireTypeOK
  <2> QED
    BY <1>2, <2>1, <2>2 DEF Init, TypeOK, Tables, Marks, Sessions
<1>5. Typed
  BY <1>4 DEF Init, RpcInit, Typed, StagesOK, StageOK, Labels
<1>6. PastOK /\ SupersededOK /\ RefreshOK /\ RegisteredIsThere /\ RegisteredIsFound /\ DeletedIsGone
  BY DEF Init, RpcInit, PastOK, SupersededOK, Superseding, RefreshOK, RegisteredIsThere,
         RegisteredIsFound, DeletedIsGone, NoAnswer
<1>7. HalfUserHasCause /\ RenamedOK
  BY <1>2, <1>3 DEF Init, HalfUserHasCause, RenamedOK, Tables
<1> QED
  BY <1>5, <1>6, <1>7 DEF AInv

LEMMA StutterStep ==
  ASSUME AInv, UNCHANGED vars
  PROVE  AInv'
<1>1. UNCHANGED <<req, pc, mem, told, crashes, account, session, questionnaire, written, before>>
  BY DEF vars, rpcVars, accountVars, questionnaireVars
<1> QED
  BY <1>1 DEF AInv, Typed, TypeOK, RpcTypeOK, QuestionnaireTypeOK, StagesOK, StageOK, PastOK, Ended,
              HalfUserHasCause, Running, DeletedIsGone, SessionsOf, Of, RegisteredIsThere,
              DeletionBegun, RenamedOK, RenameBegun, Renames, RegisteredIsFound, SupersededOK, Superseding, RefreshOK

LEMMA NextAInv == AInv /\ [Next]_vars => AInv'
<1> SUFFICES ASSUME AInv, [Next]_vars PROVE AInv'
  OBVIOUS
<1>1. ASSUME NEW r \in Requests, Step(r), before' = before PROVE AInv'
  <2>1. CASE QuestionnaireNext(r) /\ UNCHANGED accountVars
    BY <1>1, <2>1, QuestionnaireReads, AnswerSteps DEF QuestionnaireNext, accountVars
  <2>2. CASE (authenticate(r) \/ GiveUp(r) \/ Expire(r)) /\ UNCHANGED <<accountVars, questionnaireVars>>
    BY <1>1, <2>2, TransportStep DEF accountVars, questionnaireVars
  <2> QED
    BY <1>1, <2>1, <2>2, RefusalStep, ReadStep, UpdateStep, CreateUserStep, RegisterStep,
       CommitRegisterStep, EditUserStep, DeleteUserStep, DestroyNextStep, DestroyUserStep,
       ValidateStep, OutdateStep, CreateSessionStep
    DEF Step
<1> QED
  BY <1>1, AskStep, CrashStep, StutterStep DEF Next

LEMMA AccountsInvariance == Spec => []AInv
BY InitAInv, NextAInv, PTL DEF Spec

(* Rows keep their types, and no row of an account, a questionnaire or a    *)
(* session outlives the users row it refers to.                             *)
THEOREM AccountsTypeCorrect == Spec => []TypeOK
<1>1. AInv => TypeOK
  BY DEF AInv, Typed
<1> QED
  BY AccountsInvariance, <1>1, PTL

(* Who has been told that he is registered is told "not found" later only   *)
(* if his deletion has begun, or when he logs in with an email that he has  *)
(* changed (register, editUser, validate, getUserStats, getUserProfile).    *)
THEOREM RegisteredStaysFound == Spec => []RegisteredIsFound
<1>1. AInv => RegisteredIsFound
  BY DEF AInv
<1> QED
  BY AccountsInvariance, <1>1, PTL

(* Whatever requests meet, an account that is not whole has a registration  *)
(* or a deletion that is under way, dead or failed (register, deleteUser).  *)
THEOREM HalfUsersHaveCause == Spec => []HalfUserHasCause
<1>1. AInv => HalfUserHasCause
  BY DEF AInv
<1> QED
  BY AccountsInvariance, <1>1, PTL

(* A confirmed deletion has left nothing that was not created again.        *)
THEOREM DeletedStaysGone == Spec => []DeletedIsGone
<1>1. AInv => DeletedIsGone
  BY DEF AInv
<1> QED
  BY AccountsInvariance, <1>1, PTL

(* Two active sessions come from logins at the same time, and a login that  *)
(* has succeeded takes the tokens before it their refresh                   *)
(* (openUserSession, refresh).                                              *)
THEOREM SessionsAreSuperseded == Spec => []SessionsSuperseded
<1>1. ASSUME AInv PROVE SessionsSuperseded
  <2>1. ASSUME NEW q \in Requests, NEW r \in Requests, req[q].user = req[r].user,
               session[q] = "ACTIVE", session[r] = "ACTIVE", q \in before[r]
        PROVE  FALSE
    BY <1>1, <2>1 DEF AInv, SupersededOK, Superseding
  <2> QED
    BY <1>1, <2>1 DEF AInv, RefreshOK, SessionsSuperseded, Overlap
<1> QED
  BY AccountsInvariance, <1>1, PTL

-----------------------------------------------------------------------------
(* The answers of the questionnaire. A submit writes back what it has read  *)
(* with its own answer added: what matters is which answers it had read,    *)
(* and, as long as nobody was in its way, that they were all there are.     *)
Submits(u) == {r \in written : req[r].user = u}
Codes(S)   == {req[r].shortcode : r \in S}

HasAnswer(responses, r) ==
  req[r].shortcode \in DOMAIN responses /\ responses[req[r].shortcode] = req[r].answer

(* What may take an answer away, or make the count of answers wrong.        *)
Excused(r) ==
  \/ \E q \in written \ {r} :
       /\ req[q].user = req[r].user /\ q \notin before[r]
       /\ req[q].shortcode = req[r].shortcode \/ Overlap(q, r)
  \/ Reregistered(r)

OneByOne(u) == \A r \in Submits(u) :
  /\ ~ Reregistered(r)
  /\ \A q \in Submits(u) \ {r} :
       ~ Overlap(q, r) /\ req[q].shortcode # req[r].shortcode

UntoldOK == \A r \in Requests : Running(r) => told[r] \in {NoAnswer, 500}

WrittenOK == \A r \in written :
  /\ req[r].op = "submitQuestion" /\ req[r].shortcode \in Active /\ req[r].answer \in Answers
  /\ questionnaire[req[r].user] # Nothing
  /\ questionnaire[req[r].user].responses # Nothing
  /\ pc[r] \in {"counting", "done", "lost"}

KeptOK == \A r \in written :
  HasAnswer(questionnaire[req[r].user].responses, r) \/ Excused(r)

Snapshot(p) == pc[p] = "writing" =>
  /\ \A r \in Submits(req[p].user) \intersect before[p] : HasAnswer(mem[p], r) \/ Excused(r)
  /\ OneByOne(req[p].user) /\ Submits(req[p].user) \subseteq before[p] =>
       DOMAIN mem[p] = Codes(Submits(req[p].user))

SnapshotOK == \A p \in Requests : Snapshot(p)

Count(p) == pc[p] = "counting" =>
  /\ p \in written /\ mem[p] \in Nat
  /\ OneByOne(req[p].user) =>
       Cardinality(DOMAIN questionnaire[req[p].user].responses) = mem[p] + 1

CountOK == \A p \in Requests : Count(p)

(* The flag, for a user whose submits came one by one.                      *)
Flag(u) == questionnaire[u] # Nothing /\ OneByOne(u) =>
  LET row == questionnaire[u] IN
  /\ row.responses # Nothing => DOMAIN row.responses = Codes(Submits(u))
  /\ row.completed => row.responses # Nothing /\ Active \subseteq DOMAIN row.responses
  /\ Submits(u) # {} /\ Active \subseteq DOMAIN row.responses =>
       row.completed \/ \E r \in Submits(u) : pc[r] # "done" \/ told[r] # 200

FlagOK == \A u \in Users : Flag(u)

KInv == AInv /\ UntoldOK /\ WrittenOK /\ KeptOK /\ SnapshotOK /\ CountOK /\ FlagOK

-----------------------------------------------------------------------------
(* A step that writes no answer and touches nothing that is in flight to    *)
(* the questionnaires; and one that leaves their rows as they are, too.     *)
Calm ==
  /\ req' = req /\ written' = written
  /\ \A q \in Requests :
       /\ pc[q] # "new" => before'[q] = before[q]
       /\ pc[q] \in {"done", "lost"} => pc'[q] = pc[q] /\ mem'[q] = mem[q] /\ told'[q] = told[q]
       /\ Running(q)' => pc[q] \notin {"done", "lost"} /\ told'[q] \in {told[q], 500}
       /\ pc'[q] \in {"writing", "counting"} => pc'[q] = pc[q] /\ mem'[q] = mem[q]
       /\ pc[q] = "counting" =>
            pc'[q] \in {"counting", "lost"} \/ (pc'[q] = "done" /\ told'[q] # 200)

Steady == Calm /\ questionnaire' = questionnaire

LEMMA WrittenTypes ==
  ASSUME KInv
  PROVE  /\ written \subseteq Requests
         /\ \A r \in Requests : req[r].user \in Users /\ before[r] \subseteq Requests
         /\ \A r \in Requests : pc[r] = "new" => told[r] = NoAnswer
         /\ \A r \in written : pc[r] \in {"counting", "done", "lost"}
         /\ \A r \in Requests : \A q \in before[r] : pc[q] \in {"done", "lost"}
BY Asked DEF KInv, AInv, Typed, TypeOK, QuestionnaireTypeOK, WrittenOK, PastOK, Ended, StagesOK, StageOK

LEMMA CalmExcuses ==
  ASSUME KInv, Calm
  PROVE  /\ \A r \in written : Excused(r) => Excused(r)'
         /\ \A u : Submits(u)' = Submits(u) /\ (OneByOne(u)' => OneByOne(u))
<1>1. \A r \in written : before'[r] = before[r]
  BY WrittenTypes DEF Calm
<1>2. ASSUME NEW r \in written, Reregistered(r) PROVE Reregistered(r)'
  BY <1>1, <1>2 DEF Calm, Reregistered, Of
<1>3. \A r \in written : Excused(r) => Excused(r)'
  BY <1>1, <1>2 DEF Calm, Excused, Overlap
<1>4. ASSUME NEW u PROVE Submits(u)' = Submits(u)
  BY DEF Calm, Submits
<1>5. ASSUME NEW u, OneByOne(u)' PROVE OneByOne(u)
  BY <1>1, <1>2, <1>4, <1>5 DEF Calm, OneByOne, Overlap, Submits
<1> QED
  BY <1>3, <1>4, <1>5

LEMMA SteadyKept ==
  ASSUME KInv, Steady, AInv'
  PROVE  KInv'
<1>1. UntoldOK'
  BY WrittenTypes DEF KInv, UntoldOK, Steady, Calm, Running
<1>2. WrittenOK'
  BY WrittenTypes DEF KInv, WrittenOK, Steady, Calm
<1>3. KeptOK'
  <2>1. \A r \in written : Excused(r) => Excused(r)'
    BY CalmExcuses DEF Steady
  <2> QED
    BY <2>1 DEF KInv, KeptOK, HasAnswer, Steady, Calm
<1>4. ASSUME NEW p \in Requests PROVE Snapshot(p)'
  <2>1. CASE pc'[p] = "writing"
    <3>1. pc[p] = "writing" /\ mem'[p] = mem[p] /\ before'[p] = before[p] /\ req' = req
      BY <2>1 DEF Steady, Calm
    <3>2. Submits(req[p].user)' = Submits(req[p].user)
          /\ (OneByOne(req[p].user)' => OneByOne(req[p].user))
      BY CalmExcuses, <3>1 DEF Steady, Submits, OneByOne
    <3>3. Snapshot(p)
      BY DEF KInv, SnapshotOK
    <3>4. \A r \in Submits(req[p].user) : Excused(r) => Excused(r)'
      BY CalmExcuses DEF Steady, Submits
    <3> QED
      BY <3>1, <3>2, <3>3, <3>4 DEF Snapshot, Codes, HasAnswer
  <2> QED
    BY <2>1 DEF Snapshot
<1>5. ASSUME NEW p \in Requests PROVE Count(p)'
  <2>1. CASE pc'[p] = "counting"
    <3>1. pc[p] = "counting" /\ mem'[p] = mem[p] /\ UNCHANGED <<req, questionnaire, written>>
      BY <2>1 DEF Steady, Calm
    <3>2. OneByOne(req[p].user)' => OneByOne(req[p].user)
      BY CalmExcuses, <3>1 DEF Steady, OneByOne
    <3>3. Count(p)
      BY DEF KInv, CountOK
    <3> QED
      BY <3>1, <3>2, <3>3 DEF Count
  <2> QED
    BY <2>1 DEF Count
<1>6. ASSUME NEW u \in Users PROVE Flag(u)'
  <2>1. Submits(u)' = Submits(u) /\ (OneByOne(u)' => OneByOne(u))
        /\ UNCHANGED <<req, questionnaire>> /\ Flag(u)
    BY CalmExcuses DEF Steady, Calm, KInv, FlagOK
  <2>2. ASSUME NEW r \in Submits(u), pc[r] # "done" \/ told[r] # 200
        PROVE  pc'[r] # "done" \/ told'[r] # 200
    BY <2>2, WrittenTypes DEF Steady, Calm, Submits
  <2> QED
    BY <2>1, <2>2 DEF Flag, Codes
<1> QED
  BY <1>1, <1>2, <1>3, <1>4, <1>5, <1>6 DEF KInv, SnapshotOK, CountOK, FlagOK

(* What the other operations do is steady for the questionnaires.           *)
LEMMA MovesCalmly ==
  ASSUME Typed, NEW r \in Requests, Alone(r), UNCHANGED written,
         Running(r)' => told'[r] \in {told[r], 500},
         pc'[r] \in {"writing", "counting"} => pc'[r] = pc[r] /\ mem'[r] = mem[r],
         pc[r] = "counting" =>
            pc'[r] \in {"counting", "lost"} \/ (pc'[r] = "done" /\ told'[r] # 200)
  PROVE  Calm
BY DEF Calm, Alone, Running

NoSubmit == Labels \ {"new", "queued", "done", "lost", "writing", "counting"}

LEMMA FinishCalm ==
  ASSUME Typed, NEW r \in Requests, NEW outcome, NEW ok \in Statuses, NEW result,
         Finish(r, outcome, ok, result), pc[r] \notin {"done", "lost", "counting"},
         before' = before, UNCHANGED written
  PROVE  Calm
<1>1. Alone(r) /\ pc'[r] = "done"
  BY Finishes
<1> QED
  BY <1>1, MovesCalmly DEF Running

LEMMA AnswerCalm ==
  ASSUME Typed, NEW r \in Requests, NEW outcome \in Outcomes, Answer(r, outcome),
         req[r].op \in AccountOps, pc[r] \notin {"done", "lost", "counting"},
         before' = before, UNCHANGED written
  PROVE  Calm
<1>1. Alone(r) /\ pc'[r] = "done"
  BY Answered
<1> QED
  BY <1>1, MovesCalmly DEF Running

LEMMA GoOnCalm ==
  ASSUME Typed, NEW r \in Requests, NEW label \in NoSubmit, NEW value, GoOn(r, label, value),
         pc[r] \notin {"done", "lost", "counting"},
         before' = before, UNCHANGED written
  PROVE  Calm
<1>1. Alone(r) /\ pc'[r] = label /\ told' = told
  BY GoesOn DEF NoSubmit
<1> QED
  BY <1>1, MovesCalmly DEF NoSubmit

LEMMA AccountSteady ==
  ASSUME AInv, NEW r \in Requests, before' = before,
         \/ RefuseEmpty(r)
         \/ register(r) \/ RegisterFails(r) \/ editUser(r)
         \/ deleteUser(r) \/ DestroyNext(r) \/ DestroyUser(r)
         \/ validate(r) \/ Outdate(r) \/ CreateSession(r) \/ refresh(r)
         \/ getUserStats(r) \/ FindProfile(r) \/ UpdateProfile(r) \/ UpdateProfileUser(r)
         \/ AccountFails(r)
  PROVE  Steady
<1>1. Typed /\ StageOK(r)
  BY DEF AInv, Typed, StagesOK
<1>2. /\ req[r].op \in AccountOps /\ UNCHANGED <<questionnaire, written>>
      /\ pc[r] \notin {"done", "lost", "writing", "counting"}
  BY <1>1 DEF StageOK, AccountOps, QuestionnaireOps, Running, Taken, Empty, questionnaireVars,
     RefuseEmpty, register, RegisterFails, editUser, deleteUser, DestroyNext, DestroyUser,
     validate, Outdate, CreateSession, refresh, getUserStats, FindProfile, UpdateProfile,
     UpdateProfileUser, AccountFails
<1>3. \/ \E outcome \in Outcomes : Answer(r, outcome)
      \/ \E label \in NoSubmit : \E value : GoOn(r, label, value)
  <2>1. {"registering", "deleting", "opening", "session", "updating", "finding"} \subseteq NoSubmit
        /\ Outcomes = {Success, 400, 401, 404, 500}
    BY DEF NoSubmit, Labels, Outcomes
  <2>2. CASE RefuseEmpty(r) \/ RegisterFails(r) \/ AccountFails(r) \/ editUser(r)
             \/ refresh(r) \/ getUserStats(r) \/ FindProfile(r) \/ CreateSession(r) \/ DestroyUser(r)
    BY <2>1, <2>2 DEF RefuseEmpty, RegisterFails, AccountFails, editUser, refresh, getUserStats,
       FindProfile, CreateSession, DestroyUser
  <2>3. CASE register(r) \/ deleteUser(r) \/ DestroyNext(r) \/ validate(r) \/ Outdate(r)
             \/ UpdateProfile(r) \/ UpdateProfileUser(r)
    BY <2>1, <2>3 DEF register, deleteUser, DestroyNext, validate, Outdate, UpdateProfile,
       UpdateProfileUser
  <2> QED
    BY <2>2, <2>3
<1> QED
  BY <1>1, <1>2, <1>3, AnswerCalm, GoOnCalm DEF Steady

LEMMA TransportSteady ==
  ASSUME AInv, NEW r \in Requests, authenticate(r) \/ GiveUp(r) \/ Expire(r),
         UNCHANGED <<questionnaire, written>>, before' = before
  PROVE  Steady
<1>1. /\ \/ pc[r] = "new" /\ pc' = [pc EXCEPT ![r] = "done"] /\ Tell(r, 401)
         \/ Running(r) /\ pc' = pc /\ Tell(r, 500)
         \/ pc[r] = "queued" /\ pc' = [pc EXCEPT ![r] = "lost"] /\ told' = told
      /\ UNCHANGED <<req, mem, crashes>>
  <2>1. TekeroError(Nothing) = 500
    BY NothingIsNoStatus DEF TekeroError
  <2> QED
    BY <2>1 DEF authenticate, GiveUp, Expire
<1>2. DOMAIN pc = Requests /\ told \in [Requests -> Statuses \union {NoAnswer}]
  BY DEF AInv, Typed, TypeOK, RpcTypeOK
<1>3. CASE pc[r] = "new" /\ pc' = [pc EXCEPT ![r] = "done"] /\ Tell(r, 401)
  BY <1>1, <1>2, <1>3 DEF Steady, Calm, Running, Tell
<1>4. CASE Running(r) /\ pc' = pc /\ Tell(r, 500)
  <2>1. \A q \in Requests : told'[q] = told[q] \/ (q = r /\ told'[q] = 500)
    BY <1>2, <1>4 DEF Tell
  <2> QED
    BY <1>1, <1>4, <2>1 DEF Steady, Calm, Running
<1>5. CASE pc[r] = "queued" /\ pc' = [pc EXCEPT ![r] = "lost"] /\ told' = told
  BY <1>1, <1>2, <1>5 DEF Steady, Calm, Running
<1> QED
  BY <1>1, <1>3, <1>4, <1>5

LEMMA AskSteady ==
  ASSUME AInv, NEW r \in Requests, Ask(r)
  PROVE  Steady
<1>1. /\ pc[r] = "new" /\ UNCHANGED <<req, mem, told, questionnaire, written>>
      /\ pc' = [pc EXCEPT ![r] = "queued"]
      /\ before' = [before EXCEPT ![r] = {q \in Requests : Ended(q)}]
  BY DEF Ask, Send, accountVars, questionnaireVars
<1>2. DOMAIN pc = Requests /\ DOMAIN before = Requests
  BY DEF AInv, Typed, TypeOK, RpcTypeOK
<1> QED
  BY <1>1, <1>2 DEF Steady, Calm, Running

LEMMA CrashSteady ==
  ASSUME AInv, Crash, UNCHANGED <<accountVars, questionnaireVars, before>>
  PROVE  Steady
<1>1. UNCHANGED <<req, mem, questionnaire, written, before>>
  BY DEF Crash, accountVars, questionnaireVars
<1>2. ASSUME NEW q \in Requests
      PROVE  /\ pc'[q] \in {pc[q], "lost"} /\ told'[q] \in {told[q], 500}
             /\ pc[q] \in {"new", "done", "lost"} => pc'[q] = pc[q] /\ told'[q] = told[q]
  BY <1>2 DEF Crash, Running
<1> QED
  BY <1>1, <1>2 DEF Steady, Calm, Running

LEMMA ReadsSteady ==
  ASSUME KInv, NEW r \in Requests, before' = before,
         getQuestionnaire(r) \/ submitQuestion(r) \/ QuestionnaireFails(r)
  PROVE  Steady
<1>1. Typed /\ StageOK(r) /\ UNCHANGED <<questionnaire, written>>
      /\ pc[r] \notin {"new", "done", "lost"}
      /\ 200 \in Statuses /\ DOMAIN told = Requests
  BY DEF KInv, AInv, Typed, TypeOK, RpcTypeOK, StagesOK, getQuestionnaire, submitQuestion,
         QuestionnaireFails, Taken, Running, Statuses
<1>2. CASE pc[r] # "counting" /\ \E outcome, result : QuestionnaireController(r, outcome, result)
  BY <1>1, <1>2, FinishCalm DEF Steady, QuestionnaireController, api_questionnaire
<1>3. CASE pc[r] = "counting" /\ QuestionnaireFails(r)
  <2>1. PICK outcome : outcome = 500 /\ Finish(r, outcome, 200, Nothing)
    BY <1>3 DEF QuestionnaireFails, QuestionnaireController, api_questionnaire
  <2>2. Alone(r) /\ pc'[r] = "done"
    <3>1. Typed /\ pc[r] \notin {"done", "lost"} /\ 200 \in Statuses /\ Finish(r, outcome, 200, Nothing)
      BY <1>1, <2>1
    <3> QED
      BY <3>1, Finishes
  <2>3. told[r] \in {NoAnswer, 500}
    BY <1>3 DEF KInv, UntoldOK, Running
  <2>4. told'[r] = 500
    BY <1>1, <2>1, <2>3 DEF Finish, Tell, TekeroError, Statuses, NoAnswer, Success
  <2> QED
    BY <1>1, <2>2, <2>4, MovesCalmly DEF Running, Steady
<1>4. CASE submitQuestion(r) /\ GoOn(r, "answering", Nothing)
  <2>1. "answering" \in NoSubmit
    BY DEF NoSubmit, Labels
  <2>2. pc[r] \notin {"done", "lost", "counting"}
    BY <1>4 DEF submitQuestion, Taken
  <2> QED
    BY <1>1, <1>4, <2>1, <2>2, GoOnCalm DEF Steady
<1>5. getQuestionnaire(r) \/ submitQuestion(r) => pc[r] = "queued"
  BY DEF getQuestionnaire, submitQuestion, Taken
<1> QED
  BY <1>2, <1>3, <1>4, <1>5 DEF getQuestionnaire, submitQuestion, QuestionnaireFails

-----------------------------------------------------------------------------
(* A new row, and a registration that gives a second one.                   *)
LEMMA NobodysPast ==
  ASSUME KInv, NEW r \in Requests, Running(r)
  PROVE  \A q \in Requests : r \notin before[q]
BY WrittenTypes DEF Running

LEMMA NewRowKept ==
  ASSUME KInv, Calm, AInv', NEW u \in Users, NEW row \in Rows,
         questionnaire' = [questionnaire EXCEPT ![u] = row],
         row.completed = FALSE, row.responses # Nothing => DOMAIN row.responses = {},
         Submits(u) # {} => row.responses # Nothing,
         \A r \in Submits(u) : Reregistered(r)'
  PROVE  KInv'
<1>1. /\ row # Nothing
      /\ questionnaire \in [Users -> Rows \union {Nothing}]
  BY RowTypes DEF KInv, AInv, Typed, TypeOK, QuestionnaireTypeOK
<1>2. /\ questionnaire'[u] = row /\ \A v \in Users : v # u => questionnaire'[v] = questionnaire[v]
      /\ UNCHANGED <<req, written>>
  BY <1>1 DEF Calm
<1>3. /\ Submits(u)' = Submits(u)
      /\ OneByOne(u)' => Submits(u) = {}
  BY <1>2 DEF Submits, OneByOne
<1>4. \A r \in Submits(u) : Excused(r)'
  BY DEF Excused
<1>5. \A r \in written : r \in Requests /\ req[r].user \in Users
                       /\ (r \in Submits(u) <=> req[r].user = u) /\ (Excused(r) => Excused(r)')
  BY WrittenTypes, CalmExcuses DEF Submits
<1>6. UntoldOK'
  BY WrittenTypes DEF KInv, UntoldOK, Calm, Running
<1>7. WrittenOK'
  BY <1>1, <1>2, <1>5, WrittenTypes DEF KInv, WrittenOK, Calm
<1>8. KeptOK'
  BY <1>2, <1>4, <1>5 DEF KInv, KeptOK, HasAnswer
<1>9. ASSUME NEW p \in Requests PROVE Snapshot(p)'
  <2>1. CASE pc'[p] = "writing"
    <3>1. pc[p] = "writing" /\ mem'[p] = mem[p] /\ before'[p] = before[p] /\ req' = req
      BY <2>1 DEF Calm
    <3>2. Submits(req[p].user)' = Submits(req[p].user)
          /\ (OneByOne(req[p].user)' => OneByOne(req[p].user))
      BY CalmExcuses, <3>1 DEF Submits, OneByOne
    <3>3. Snapshot(p)
      BY DEF KInv, SnapshotOK
    <3>4. \A r \in Submits(req[p].user) : Excused(r) => Excused(r)'
      BY CalmExcuses DEF Submits
    <3> QED
      BY <3>1, <3>2, <3>3, <3>4 DEF Snapshot, Codes, HasAnswer
  <2> QED
    BY <2>1 DEF Snapshot
<1>10. ASSUME NEW p \in Requests PROVE Count(p)'
  <2>1. CASE pc'[p] = "counting"
    <3>1. pc[p] = "counting" /\ mem'[p] = mem[p] /\ UNCHANGED <<req, written>>
      BY <2>1 DEF Calm
    <3>2. OneByOne(req[p].user)' => OneByOne(req[p].user)
      BY CalmExcuses, <3>1 DEF OneByOne
    <3>3. Count(p)
      BY DEF KInv, CountOK
    <3>4. CASE req[p].user = u
      BY <1>3, <3>1, <3>3, <3>4 DEF Count, Submits, OneByOne
    <3>5. CASE req[p].user # u
      BY <1>2, <3>1, <3>2, <3>3, <3>5, WrittenTypes DEF Count
    <3> QED
      BY <3>4, <3>5
  <2> QED
    BY <2>1 DEF Count
<1>11. ASSUME NEW v \in Users PROVE Flag(v)'
  <2>1. Submits(v)' = Submits(v) /\ (OneByOne(v)' => OneByOne(v)) /\ Flag(v)
    BY CalmExcuses DEF KInv, FlagOK
  <2>2. CASE v = u
    BY <1>2, <1>3, <2>1, <2>2 DEF Flag, Codes
  <2>3. CASE v # u
    <3>1. ASSUME NEW r \in Submits(v), pc[r] # "done" \/ told[r] # 200
          PROVE  pc'[r] # "done" \/ told'[r] # 200
      BY <3>1, WrittenTypes DEF Calm, Submits
    <3> QED
      BY <1>2, <2>1, <2>3, <3>1 DEF Flag, Codes
  <2> QED
    BY <2>2, <2>3
<1> QED
  BY <1>6, <1>7, <1>8, <1>9, <1>10, <1>11 DEF KInv, SnapshotOK, CountOK, FlagOK

LEMMA CreateUserKept ==
  ASSUME KInv, NEW r \in Requests, createUser(r), before' = before, AInv'
  PROVE  KInv'
<1>1. /\ Typed /\ UNCHANGED <<session, written>>
      /\ pc[r] = "queued" /\ req[r].op = "createUser" /\ req[r].user \in Users
  BY Asked DEF KInv, AInv, Typed, createUser, Taken
<1>2. PICK outcome \in {Success, 500} :
        /\ Answer(r, outcome)
        /\ \/ UNCHANGED questionnaire
           \/ /\ "user" \notin account[req[r].user]
              /\ questionnaire' = [questionnaire EXCEPT ![req[r].user] = Blank(Nothing)]
  BY DEF createUser
<1>3. outcome \in Outcomes /\ req[r].op \in AccountOps /\ pc[r] \notin {"done", "lost", "counting"}
  BY <1>1 DEF Outcomes, AccountOps
<1>4. Calm
  BY <1>1, <1>2, <1>3, AnswerCalm
<1>5. CASE UNCHANGED questionnaire
  BY <1>4, <1>5, SteadyKept DEF Steady
<1>6. CASE /\ "user" \notin account[req[r].user]
           /\ questionnaire' = [questionnaire EXCEPT ![req[r].user] = Blank(Nothing)]
  <2>1. questionnaire[req[r].user] = Nothing
    BY <1>1, <1>6 DEF Typed, TypeOK
  <2>2. \A p \in written : req[p].user # req[r].user
    BY <2>1 DEF KInv, WrittenOK
  <2>3. PICK row \in Rows : /\ row = Blank(Nothing)
                            /\ questionnaire' = [questionnaire EXCEPT ![req[r].user] = row]
    BY <1>6, RowTypes
  <2>4. row.completed = FALSE /\ row.responses = Nothing
    BY <2>3 DEF Blank
  <2>5. PICK u \in Users : u = req[r].user
    BY <1>1
  <2>6. Submits(u) = {}
    BY <2>2, <2>5 DEF Submits
  <2> QED
    BY <1>4, <2>3, <2>4, <2>5, <2>6, NewRowKept
<1> QED
  BY <1>2, <1>5, <1>6

LEMMA CommitRegisterKept ==
  ASSUME KInv, NEW r \in Requests, CommitRegister(r), before' = before, AInv'
  PROVE  KInv'
<1>1. /\ Typed /\ UNCHANGED <<session, written>>
      /\ pc[r] = "registering" /\ req[r].op = "register" /\ req[r].user \in Users
      /\ Answer(r, Success)
  BY Asked DEF KInv, AInv, Typed, StagesOK, StageOK, CommitRegister
<1>2. Calm /\ Alone(r) /\ pc'[r] = "done" /\ mem'[r] = Success
  <2>1. Success \in Outcomes /\ req[r].op \in AccountOps /\ pc[r] \notin {"done", "lost", "counting"}
    BY <1>1 DEF Outcomes, AccountOps
  <2> QED
    BY <1>1, <2>1, AnswerCalm, Answered
<1>3. CASE questionnaire' = questionnaire
  BY <1>2, <1>3, SteadyKept DEF Steady
<1>4. CASE questionnaire' = [questionnaire EXCEPT ![req[r].user] = Blank(<<>>)]
  <2>1. PICK row \in Rows : /\ row = Blank(<<>>)
                            /\ questionnaire' = [questionnaire EXCEPT ![req[r].user] = row]
    BY <1>4, RowTypes
  <2>2. row.completed = FALSE /\ row.responses = <<>>
    BY <2>1 DEF Blank
  <2>3. DOMAIN row.responses = {} /\ row.responses # Nothing
    <3>1. DOMAIN <<>> = {}
      OBVIOUS
    <3>2. <<>> # Nothing
      BY RowTypes
    <3> QED
      BY <2>2, <3>1, <3>2
  <2>4. PICK u \in Users : u = req[r].user
    BY <1>1
  <2>5. \A p \in Submits(u) : Reregistered(p)'
    <3>1. \A p \in Requests : r \notin before[p]
      BY <1>1, NobodysPast DEF Running
    <3>2. req' = req /\ written \subseteq Requests
      BY <1>2, WrittenTypes DEF Alone
    <3> QED
      BY <1>1, <1>2, <2>4, <3>1, <3>2 DEF Reregistered, Of, Submits
  <2> QED
    BY <1>2, <2>1, <2>2, <2>3, <2>4, <2>5, NewRowKept
<1>5. questionnaire = [questionnaire EXCEPT ![req[r].user] = questionnaire[req[r].user]]
  BY <1>1 DEF Typed, TypeOK, QuestionnaireTypeOK
<1> QED
  BY <1>3, <1>4, <1>5 DEF CommitRegister

-----------------------------------------------------------------------------
(* A submit reads, writes and counts.                                       *)
LEMMA ReadAnswersKept ==
  ASSUME KInv, NEW p \in Requests, ReadAnswers(p), before' = before, AInv'
  PROVE  KInv'
<1>1. /\ Typed /\ pc[p] = "answering" /\ UNCHANGED <<questionnaire, written, before>>
      /\ 200 \in Statuses /\ req[p].user \in Users
  BY Asked DEF KInv, AInv, Typed, ReadAnswers, Statuses
<1>2. CASE \E outcome : QuestionnaireController(p, outcome, Nothing)
  <2>1. PICK outcome : Finish(p, outcome, 200, Nothing)
    BY <1>2 DEF QuestionnaireController, api_questionnaire
  <2>2. Steady
    <3>1. pc[p] \notin {"done", "lost", "counting"}
      BY <1>1
    <3> QED
      BY <1>1, <2>1, <3>1, FinishCalm DEF Steady
  <2> QED
    BY <2>2, SteadyKept
<1>3. CASE /\ GoOn(p, "writing", questionnaire[req[p].user].responses)
           /\ questionnaire[req[p].user] # Nothing
           /\ questionnaire[req[p].user].responses # Nothing
  <2>1. /\ Alone(p) /\ pc'[p] = "writing" /\ mem'[p] = questionnaire[req[p].user].responses
        /\ told' = told
    BY <1>1, <1>3, GoesOn
  <2>2. UNCHANGED <<req, questionnaire, written, before, told>>
    BY <1>1, <2>1 DEF Alone
  <2>3. \A q \in Requests : q # p => pc'[q] = pc[q] /\ mem'[q] = mem[q]
    BY <2>1 DEF Alone
  <2>4. \A r \in written : r \in Requests /\ r # p /\ pc'[r] = pc[r] /\ (pc[r] = "done" => mem'[r] = mem[r])
    BY <1>1, <2>3, WrittenTypes
  <2>5. \A r \in written : Reregistered(r)' <=> Reregistered(r)
    BY <1>1, <2>1, <2>2, <2>3 DEF Reregistered, Of
  <2>6. \A r \in written : Excused(r)' <=> Excused(r)
    BY <2>2, <2>5 DEF Excused, Overlap
  <2>7. \A u : Submits(u)' = Submits(u)
    BY <2>2 DEF Submits
  <2>8. \A u : OneByOne(u)' <=> OneByOne(u)
    BY <2>2, <2>5, <2>7 DEF OneByOne, Overlap, Submits
  <2>9. UntoldOK'
    BY <1>1, <2>2, <2>3 DEF KInv, UntoldOK, Running
  <2>10. WrittenOK' /\ KeptOK'
    BY <2>2, <2>4, <2>6 DEF KInv, WrittenOK, KeptOK, HasAnswer
  <2>11. ASSUME NEW q \in Requests PROVE Snapshot(q)'
    <3>1. CASE q # p
      BY <2>2, <2>3, <2>6, <2>7, <2>8, <3>1 DEF KInv, SnapshotOK, Snapshot, HasAnswer, Codes, Submits
    <3>2. CASE q = p
      <4>1. \A r \in Submits(req[p].user) : HasAnswer(mem'[p], r) \/ Excused(r)
        BY <2>1 DEF KInv, KeptOK, HasAnswer, Submits
      <4>2. OneByOne(req[p].user) => DOMAIN mem'[p] = Codes(Submits(req[p].user))
        BY <1>1, <1>3, <2>1 DEF KInv, FlagOK, Flag
      <4> QED
        BY <2>2, <2>6, <2>7, <2>8, <3>2, <4>1, <4>2 DEF Snapshot, HasAnswer, Codes, Submits
    <3> QED
      BY <3>1, <3>2
  <2>12. ASSUME NEW q \in Requests PROVE Count(q)'
    BY <2>1, <2>2, <2>3, <2>8 DEF KInv, CountOK, Count
  <2>13. ASSUME NEW u \in Users PROVE Flag(u)'
    BY <2>2, <2>4, <2>7, <2>8 DEF KInv, FlagOK, Flag, Codes, Submits
  <2> QED
    BY <2>9, <2>10, <2>11, <2>12, <2>13 DEF KInv, SnapshotOK, CountOK, FlagOK
<1> QED
  BY <1>2, <1>3 DEF ReadAnswers

(* From here on everybody who had not ended when p was sent, and has        *)
(* written, ran at the same time as p.                                      *)
LEMMA WriteAnswersKept ==
  ASSUME KInv, NEW p \in Requests, WriteAnswers(p), before' = before, AInv'
  PROVE  KInv'
<1>1. /\ Typed /\ StageOK(p) /\ pc[p] = "writing" /\ written' = written \union {p}
      /\ GoOn(p, "counting", Cardinality(DOMAIN mem[p]))
      /\ req[p].user \in Users /\ p \notin written
      /\ \A q \in Requests : p \notin before[q]
  <2>1. p \notin written /\ \A q \in Requests : p \notin before[q]
    BY WrittenTypes DEF WriteAnswers
  <2> QED
    BY <2>1, Asked DEF KInv, AInv, Typed, StagesOK, WriteAnswers
<1>2. /\ Alone(p) /\ pc'[p] = "counting" /\ mem'[p] = Cardinality(DOMAIN mem[p]) /\ told' = told
      /\ UNCHANGED <<req, before>>
      /\ \A q \in Requests : q # p => pc'[q] = pc[q] /\ mem'[q] = mem[q]
  <2>1. Alone(p) /\ pc'[p] = "counting" /\ mem'[p] = Cardinality(DOMAIN mem[p]) /\ told' = told
    BY <1>1, GoesOn
  <2> QED
    BY <2>1 DEF Alone
<1>3. /\ mem[p] \in Responses /\ req[p].op = "submitQuestion" /\ req[p].shortcode \in Active
      /\ req[p].answer \in Answers /\ questionnaire[req[p].user] # Nothing
      /\ questionnaire[req[p].user] \in Rows
  BY <1>1 DEF StageOK, Typed, TypeOK, QuestionnaireTypeOK
<1>4. PICK row \in Rows : /\ questionnaire' = [questionnaire EXCEPT ![req[p].user] = row]
                          /\ row.responses = Merged(p)
                          /\ row.completed = questionnaire[req[p].user].completed
  <2> DEFINE new == [questionnaire[req[p].user] EXCEPT !.responses = Merged(p),
                       !.started = @ \/ DOMAIN mem[p] = {}]
  <2>1. Merged(p) \in Responses
    BY <1>3, MergedType
  <2>2. new \in Rows /\ new.responses = Merged(p) /\ new.completed = questionnaire[req[p].user].completed
    BY <1>3, <2>1 DEF Rows
  <2>3. questionnaire' = [questionnaire EXCEPT ![req[p].user] = new]
    BY DEF WriteAnswers
  <2> HIDE DEF new
  <2> QED
    BY <2>2, <2>3
<1>5. /\ Merged(p) \in Responses /\ Merged(p) # Nothing
      /\ DOMAIN Merged(p) = DOMAIN mem[p] \union {req[p].shortcode}
      /\ HasAnswer(Merged(p), p)
      /\ \A r : HasAnswer(mem[p], r) /\ req[r].shortcode # req[p].shortcode => HasAnswer(Merged(p), r)
  <2>1. Merged(p) \in Responses /\ Merged(p) # Nothing
    BY <1>3, MergedType, NothingIsNoRow
  <2> QED
    BY <2>1 DEF Merged, HasAnswer
<1>6. /\ questionnaire'[req[p].user] = row /\ row # Nothing
      /\ \A u \in Users : u # req[p].user => questionnaire'[u] = questionnaire[u]
  BY <1>1, <1>4, RowTypes DEF Typed, TypeOK, QuestionnaireTypeOK
<1>7. \A r \in written : r \in Requests /\ r # p /\ pc'[r] = pc[r] /\ req[r].user \in Users
  BY <1>1, <1>2, WrittenTypes
<1>8. \A r \in Requests : Reregistered(r)' <=> Reregistered(r)
  BY <1>1, <1>2 DEF Reregistered, Of
<1>9. \A r \in written : Excused(r) => Excused(r)'
  BY <1>1, <1>2, <1>7, <1>8 DEF Excused, Overlap
<1>10. \A r \in written : req[r].user = req[p].user =>
         r \in before[p] \/ Excused(r)'
  BY <1>1, <1>2, <1>7 DEF Excused, Overlap
<1>11. /\ \A u \in Users : u # req[p].user => Submits(u)' = Submits(u)
       /\ \A u \in Users : u = req[p].user => Submits(u)' = Submits(u) \union {p}
  BY <1>1, <1>2 DEF Submits
<1>12. ASSUME NEW u \in Users, OneByOne(u)' PROVE OneByOne(u)
  <2>1. Submits(u) \subseteq Submits(u)'
    BY <1>11
  <2>2. Submits(u) \subseteq Requests
    BY <1>7 DEF Submits
  <2> QED
    BY <1>2, <1>8, <1>12, <2>1, <2>2 DEF OneByOne, Overlap
<1>13. ASSUME NEW u \in Users, u = req[p].user, OneByOne(u)'
       PROVE  /\ DOMAIN mem[p] = Codes(Submits(u)) /\ OneByOne(u)
              /\ req[p].shortcode \notin DOMAIN mem[p]
  <2>1. Submits(u)' = Submits(u) \union {p} /\ p \notin Submits(u)
    BY <1>1, <1>11, <1>13 DEF Submits
  <2>2. \A r \in Submits(u) : r \in before[p] /\ req[r].shortcode # req[p].shortcode
    BY <1>1, <1>2, <1>7, <1>13, <2>1 DEF OneByOne, Overlap, Submits
  <2>3. DOMAIN mem[p] = Codes(Submits(u)) /\ OneByOne(u)
    BY <1>1, <1>12, <1>13, <2>2 DEF KInv, SnapshotOK, Snapshot
  <2> QED
    BY <2>2, <2>3 DEF Codes
<1>14. UntoldOK'
  BY <1>1, <1>2 DEF KInv, UntoldOK, Running
<1>15. WrittenOK'
  <2>1. ASSUME NEW r \in written'
        PROVE  /\ req[r].op = "submitQuestion" /\ req[r].shortcode \in Active /\ req[r].answer \in Answers
               /\ questionnaire'[req[r].user] # Nothing
               /\ questionnaire'[req[r].user].responses # Nothing
               /\ pc'[r] \in {"counting", "done", "lost"}
    <3>1. CASE r = p
      BY <1>2, <1>3, <1>4, <1>5, <1>6, <3>1
    <3>2. CASE r \in written
      BY <1>4, <1>5, <1>6, <1>7, <3>2 DEF KInv, WrittenOK
    <3> QED
      BY <1>1, <3>1, <3>2
  <2> QED
    BY <1>2, <2>1 DEF WrittenOK
<1>16. KeptOK'
  <2>1. ASSUME NEW r \in written'
        PROVE  HasAnswer(questionnaire'[req[r].user].responses, r) \/ Excused(r)'
    <3>1. CASE r = p
      BY <1>4, <1>5, <1>6, <3>1
    <3>2. CASE r \in written /\ req[r].user # req[p].user
      BY <1>6, <1>7, <1>9, <3>2 DEF KInv, KeptOK
    <3>3. CASE r \in written /\ req[r].user = req[p].user
      <4>1. CASE Excused(r)'
        BY <4>1
      <4>2. CASE r \in before[p] /\ ~ Excused(r)'
        <5>1. HasAnswer(mem[p], r)
          BY <1>1, <1>9, <3>3, <4>2 DEF KInv, SnapshotOK, Snapshot, Submits
        <5>2. req[r].shortcode # req[p].shortcode
          BY <1>1, <1>2, <1>7, <3>3, <4>2 DEF Excused
        <5> QED
          BY <1>4, <1>5, <1>6, <3>3, <5>1, <5>2
      <4> QED
        BY <1>10, <3>3, <4>1, <4>2
    <3> QED
      BY <1>1, <3>1, <3>2, <3>3
  <2> QED
    BY <1>2, <2>1 DEF KeptOK, HasAnswer
<1>17. ASSUME NEW q \in Requests PROVE Snapshot(q)'
  <2>1. CASE pc'[q] = "writing"
    <3>1. q # p /\ pc[q] = "writing" /\ mem'[q] = mem[q] /\ req[q].user \in Users
      BY <1>2, <2>1, WrittenTypes
    <3>2. Snapshot(q)
      BY DEF KInv, SnapshotOK
    <3>3. ASSUME NEW r \in Submits(req[q].user)' \intersect before[q]
          PROVE  HasAnswer(mem[q], r) \/ Excused(r)'
      <4>1. r # p /\ r \in written /\ req[r].user = req[q].user
        BY <1>1, <1>2, <3>3 DEF Submits
      <4> QED
        BY <1>9, <3>1, <3>2, <3>3, <4>1 DEF Snapshot, Submits
    <3>4. ASSUME NEW u \in Users, u = req[q].user, OneByOne(u)', Submits(u)' \subseteq before[q]
          PROVE  DOMAIN mem[q] = Codes(Submits(u)')
      <4>1. u # req[p].user
        BY <1>1, <1>11, <3>4
      <4>2. Submits(u)' = Submits(u) /\ OneByOne(u)
        BY <1>11, <1>12, <3>4, <4>1
      <4> QED
        BY <3>1, <3>2, <3>4, <4>2 DEF Snapshot
    <3>5. \A u : Codes(Submits(u))' = Codes(Submits(u)')
      BY <1>2 DEF Codes
    <3> QED
      BY <1>2, <3>1, <3>3, <3>4, <3>5 DEF Snapshot, HasAnswer
  <2> QED
    BY <2>1 DEF Snapshot
<1>18. ASSUME NEW q \in Requests PROVE Count(q)'
  <2>1. PICK u \in Users : u = req[q].user
    BY WrittenTypes
  <2>2. SUFFICES ASSUME pc'[q] = "counting"
                 PROVE  /\ q \in written' /\ mem'[q] \in Nat
                        /\ OneByOne(u)' => Cardinality(DOMAIN questionnaire'[u].responses) = mem'[q] + 1
    BY <1>2, <2>1 DEF Count
  <2>3. CASE q = p
    <3>1. Cardinality(DOMAIN mem[p]) \in Nat
      <4>1. DOMAIN mem[p] \subseteq Active
        BY <1>3 DEF Responses
      <4>2. IsFiniteSet(DOMAIN mem[p])
        BY <4>1, QuestionsAssumption, FS_Subset
      <4> QED
        BY <4>2, FS_CardinalityType
    <3>2. ASSUME OneByOne(u)'
          PROVE  Cardinality(DOMAIN Merged(p)) = Cardinality(DOMAIN mem[p]) + 1
      <4>1. DOMAIN mem[p] \subseteq Active /\ req[p].shortcode \notin DOMAIN mem[p]
        BY <1>3, <1>13, <2>1, <2>3, <3>2 DEF Responses
      <4>2. IsFiniteSet(DOMAIN mem[p])
        BY <4>1, QuestionsAssumption, FS_Subset
      <4> QED
        BY <1>5, <4>1, <4>2, FS_AddElement
    <3> QED
      BY <1>1, <1>2, <1>4, <1>6, <2>1, <2>3, <3>1, <3>2
  <2>4. CASE q # p
    <3>1. pc[q] = "counting" /\ mem'[q] = mem[q]
      BY <1>2, <2>2, <2>4
    <3>2. /\ q \in written /\ q \notin before[p] /\ mem[q] \in Nat
          /\ OneByOne(u) => Cardinality(DOMAIN questionnaire[u].responses) = mem[q] + 1
      BY <2>1, <3>1, WrittenTypes DEF KInv, CountOK, Count
    <3>3. ASSUME OneByOne(u)', u = req[p].user PROVE FALSE
      <4>1. q \in Submits(u)' /\ p \in Submits(u)'
        BY <1>11, <2>1, <3>2, <3>3 DEF Submits
      <4> QED
        BY <1>1, <1>2, <2>4, <3>2, <3>3, <4>1 DEF OneByOne, Overlap
    <3> QED
      BY <1>1, <1>6, <1>12, <3>1, <3>2, <3>3
  <2> QED
    BY <2>3, <2>4
<1>19. ASSUME NEW u \in Users PROVE Flag(u)'
  <2>1. CASE u # req[p].user
    <3>1. Submits(u)' = Submits(u) /\ (OneByOne(u)' => OneByOne(u)) /\ Flag(u)
      BY <1>11, <1>12, <2>1 DEF KInv, FlagOK
    <3> QED
      BY <1>2, <1>6, <1>7, <2>1, <3>1 DEF Flag, Codes, Submits
  <2>2. CASE u = req[p].user /\ OneByOne(u)'
    <3>1. /\ DOMAIN mem[p] = Codes(Submits(u)) /\ OneByOne(u)
          /\ Submits(u)' = Submits(u) \union {p}
      BY <1>11, <1>12, <1>13, <2>2
    <3>2. Codes(Submits(u))' = DOMAIN Merged(p)
      BY <1>2, <1>5, <3>1 DEF Codes
    <3>3. questionnaire[u].completed =>
            questionnaire[u].responses # Nothing /\ Active \subseteq DOMAIN questionnaire[u].responses
      BY <1>3, <2>2, <3>1 DEF KInv, FlagOK, Flag
    <3>4. questionnaire[u].responses # Nothing => DOMAIN questionnaire[u].responses = DOMAIN mem[p]
      BY <1>3, <2>2, <3>1 DEF KInv, FlagOK, Flag
    <3>5. row.completed => Active \subseteq DOMAIN Merged(p)
      BY <1>4, <1>5, <2>2, <3>3, <3>4
    <3> QED
      BY <1>2, <1>4, <1>5, <1>6, <2>2, <3>1, <3>2, <3>5 DEF Flag
  <2> QED
    BY <2>1, <2>2 DEF Flag
<1> QED
  BY <1>14, <1>15, <1>16, <1>17, <1>18, <1>19 DEF KInv, SnapshotOK, CountOK, FlagOK

LEMMA CompleteKept ==
  ASSUME KInv, NEW p \in Requests, Complete(p), before' = before, AInv'
  PROVE  KInv'
<1>1. /\ Typed /\ pc[p] = "counting" /\ written' = written /\ 200 \in Statuses
      /\ Finish(p, Success, 200, Nothing)
      /\ p \in written /\ mem[p] \in Nat
  BY DEF KInv, AInv, Typed, CountOK, Count, Complete, QuestionnaireController, api_questionnaire,
         Statuses
<1>2. PICK u \in Users : u = req[p].user
  BY WrittenTypes
<1>3. /\ questionnaire \in [Users -> Rows \union {Nothing}]
      /\ questionnaire[u] \in Rows /\ questionnaire[u] # Nothing
      /\ questionnaire[u].responses # Nothing
  <2>1. questionnaire \in [Users -> Rows \union {Nothing}]
    BY <1>1 DEF Typed, TypeOK, QuestionnaireTypeOK
  <2> QED
    BY <1>1, <1>2, <2>1 DEF KInv, WrittenOK
<1>4. PICK row \in Rows :
        /\ questionnaire' = [questionnaire EXCEPT ![u] = row]
        /\ row.responses = questionnaire[u].responses
        /\ row.completed = (questionnaire[u].completed \/ AllAnswered(mem[p]))
  <2> DEFINE done == [questionnaire[u] EXCEPT !.completed = TRUE]
  <2>1. /\ done \in Rows /\ done.responses = questionnaire[u].responses /\ done.completed = TRUE
        /\ questionnaire[u].completed \in BOOLEAN
    BY <1>3 DEF Rows
  <2>2. questionnaire' = IF AllAnswered(mem[p]) THEN [questionnaire EXCEPT ![u] = done] ELSE questionnaire
    BY <1>2 DEF Complete
  <2>3. questionnaire = [questionnaire EXCEPT ![u] = questionnaire[u]]
    BY <1>3
  <2> HIDE DEF done
  <2>4. CASE AllAnswered(mem[p])
    <3>1. done.completed = (questionnaire[u].completed \/ AllAnswered(mem[p]))
      BY <2>1, <2>4
    <3> QED
      BY <2>1, <2>2, <2>4, <3>1
  <2>5. CASE ~ AllAnswered(mem[p])
    <3>1. questionnaire[u].completed = (questionnaire[u].completed \/ AllAnswered(mem[p]))
      BY <2>1, <2>5
    <3> QED
      BY <1>3, <2>2, <2>3, <2>5, <3>1
  <2> QED
    BY <2>4, <2>5
<1>5. /\ questionnaire'[u] = row /\ row # Nothing
      /\ \A v \in Users : v # u => questionnaire'[v] = questionnaire[v]
  BY <1>3, <1>4, RowTypes
<1>6. Alone(p) /\ pc'[p] = "done"
  <2>1. pc[p] \notin {"done", "lost"}
    BY <1>1
  <2> QED
    BY <1>1, <2>1, Finishes
<1>7. /\ UNCHANGED <<req, before>>
      /\ \A q \in Requests : q # p => pc'[q] = pc[q] /\ mem'[q] = mem[q] /\ told'[q] = told[q]
      /\ req[p].op = "submitQuestion"
  BY <1>1, <1>6 DEF Alone, KInv, WrittenOK
<1>8. \A r \in written : r \in Requests /\ req[r].user \in Users
  BY WrittenTypes
<1>9. \A r \in Requests : Reregistered(r)' <=> Reregistered(r)
  BY <1>1, <1>6, <1>7 DEF Reregistered, Of
<1>10. \A r \in written : Excused(r)' <=> Excused(r)
  BY <1>1, <1>7, <1>8, <1>9 DEF Excused, Overlap
<1>11. \A v \in Users : /\ Submits(v)' = Submits(v)
                        /\ OneByOne(v)' <=> OneByOne(v)
                        /\ Codes(Submits(v))' = Codes(Submits(v))
  <2>1. \A v \in Users : Submits(v)' = Submits(v) /\ Submits(v) \subseteq Requests
    BY <1>1, <1>7, <1>8 DEF Submits
  <2> QED
    BY <1>7, <1>9, <2>1 DEF OneByOne, Overlap, Codes
<1>12. UntoldOK'
  BY <1>6, <1>7 DEF KInv, UntoldOK, Running
<1>13. WrittenOK'
  BY <1>1, <1>3, <1>4, <1>5, <1>6, <1>7, <1>8 DEF KInv, WrittenOK
<1>14. KeptOK'
  BY <1>1, <1>4, <1>5, <1>7, <1>8, <1>10 DEF KInv, KeptOK, HasAnswer
<1>15. ASSUME NEW q \in Requests PROVE Snapshot(q)'
  <2>1. PICK v \in Users : v = req[q].user
    BY WrittenTypes
  <2>2. CASE pc'[q] = "writing"
    <3>1. pc[q] = "writing" /\ mem'[q] = mem[q]
      BY <1>6, <1>7, <2>2
    <3> QED
      BY <1>7, <1>10, <1>11, <2>1, <3>1 DEF KInv, SnapshotOK, Snapshot, HasAnswer, Submits
  <2> QED
    BY <2>2 DEF Snapshot
<1>16. ASSUME NEW q \in Requests PROVE Count(q)'
  <2>1. PICK v \in Users : v = req[q].user
    BY WrittenTypes
  <2>2. CASE pc'[q] = "counting"
    <3>1. pc[q] = "counting" /\ mem'[q] = mem[q]
      BY <1>6, <1>7, <2>2
    <3>2. questionnaire'[v].responses = questionnaire[v].responses
      BY <1>4, <1>5
    <3> QED
      BY <1>1, <1>7, <1>11, <2>1, <3>1, <3>2 DEF KInv, CountOK, Count
  <2> QED
    BY <2>2 DEF Count
<1>17. ASSUME NEW v \in Users PROVE Flag(v)'
  <2>1. CASE v # u
    <3>1. Flag(v) /\ questionnaire'[v] = questionnaire[v]
      BY <1>5, <2>1 DEF KInv, FlagOK
    <3>2. \A r \in Submits(v) : pc'[r] = pc[r] /\ told'[r] = told[r]
      BY <1>2, <1>7, <1>8, <2>1 DEF Submits
    <3> QED
      BY <1>11, <3>1, <3>2 DEF Flag
  <2>2. CASE v = u /\ OneByOne(u)
    <3>1. /\ DOMAIN row.responses = Codes(Submits(u))
          /\ questionnaire[u].completed => Active \subseteq DOMAIN row.responses
          /\ Cardinality(DOMAIN row.responses) = mem[p] + 1
      BY <1>1, <1>2, <1>3, <1>4, <2>2 DEF KInv, FlagOK, Flag, CountOK, Count
    <3>2. DOMAIN row.responses \subseteq Active
      BY <1>4, <1>3, RowTypes DEF Responses
    <3>3. Active \subseteq DOMAIN row.responses <=> AllAnswered(mem[p])
      <4>1. IsFiniteSet(Active)
        BY QuestionsAssumption
      <4>2. /\ Cardinality(DOMAIN row.responses) \in Nat /\ Cardinality(Active) \in Nat
            /\ Cardinality(DOMAIN row.responses) = Cardinality(Active) => DOMAIN row.responses = Active
        BY <3>2, <4>1, FS_Subset, FS_CardinalityType
      <4> QED
        BY <3>1, <3>2, <4>2 DEF AllAnswered
    <3> QED
      BY <1>3, <1>4, <1>5, <1>11, <2>2, <3>1, <3>3 DEF Flag
  <2> QED
    BY <1>11, <2>1, <2>2 DEF Flag
<1> QED
  BY <1>12, <1>13, <1>14, <1>15, <1>16, <1>17 DEF KInv, SnapshotOK, CountOK, FlagOK

-----------------------------------------------------------------------------
LEMMA InitKInv == Init => KInv
<1> SUFFICES ASSUME Init PROVE KInv
  OBVIOUS
<1>1. AInv
  BY InitAInv
<1>2. written = {} /\ \A r \in Requests : pc[r] = "new"
  BY DEF Init, RpcInit
<1>3. UntoldOK /\ WrittenOK /\ KeptOK /\ SnapshotOK /\ CountOK
  BY <1>2 DEF UntoldOK, Running, WrittenOK, KeptOK, SnapshotOK, Snapshot, CountOK, Count
<1>4. ASSUME NEW u \in Users PROVE Flag(u)
  <2>1. Submits(u) = {} /\ Codes({}) = {}
    BY <1>2 DEF Submits, Codes
  <2>2. questionnaire[u] # Nothing => questionnaire[u] = Blank(<<>>)
    BY DEF Init
  <2>3. Blank(<<>>).completed = FALSE /\ Blank(<<>>).responses = <<>> /\ DOMAIN <<>> = {}
    BY DEF Blank
  <2> QED
    BY <2>1, <2>2, <2>3 DEF Flag
<1> QED
  BY <1>1, <1>3, <1>4 DEF KInv, FlagOK

LEMMA NextKInv == KInv /\ [Next]_vars => KInv'
<1> SUFFICES ASSUME KInv, [Next]_vars PROVE KInv'
  OBVIOUS
<1>1. AInv /\ AInv'
  BY NextAInv DEF KInv
<1>2. ASSUME NEW r \in Requests, Step(r), before' = before PROVE KInv'
  <2>1. CASE QuestionnaireNext(r)
    BY <1>1, <1>2, <2>1, ReadsSteady, SteadyKept, ReadAnswersKept, WriteAnswersKept, CompleteKept
       DEF QuestionnaireNext
  <2>2. CASE (authenticate(r) \/ GiveUp(r) \/ Expire(r)) /\ UNCHANGED <<accountVars, questionnaireVars>>
    BY <1>1, <1>2, <2>2, TransportSteady, SteadyKept DEF questionnaireVars
  <2>3. CASE createUser(r) \/ CommitRegister(r)
    BY <1>1, <1>2, <2>3, CreateUserKept, CommitRegisterKept
  <2> QED
    BY <1>1, <1>2, <2>1, <2>2, <2>3, AccountSteady, SteadyKept DEF Step
<1>3. ASSUME NEW r \in Requests, Ask(r) PROVE KInv'
  BY <1>1, <1>3, AskSteady, SteadyKept
<1>4. CASE Crash /\ UNCHANGED <<accountVars, questionnaireVars, before>>
  BY <1>1, <1>4, CrashSteady, SteadyKept
<1>5. CASE UNCHANGED vars
  <2>1. Steady
    BY <1>5 DEF vars, rpcVars, accountVars, questionnaireVars, Steady, Calm, Running
  <2> QED
    BY <1>1, <2>1, SteadyKept
<1> QED
  BY <1>2, <1>3, <1>4, <1>5 DEF Next

LEMMA QuestionnaireInvariance == Spec => []KInv
BY InitKInv, NextKInv, PTL DEF Spec

(* What a submit has written stays, whatever else is submitted, deleted or  *)
(* crashes, unless another submit ran at the same time, the question was    *)
(* answered again or the user was registered again                          *)
(* (submitQuestionByShortcode).                                             *)
THEOREM AnswersStayKept == Spec => []AnswersKept
<1>1. KInv => AnswersKept
  BY DEF KInv, KeptOK, AnswersKept, HasAnswer, Excused
<1> QED
  BY QuestionnaireInvariance, <1>1, PTL

(* For submits that came one by one and were confirmed, the flag says       *)
(* exactly whether all active questions have been answered: the number of   *)
(* answers that were read and one more is the number of answers there are   *)
(* (submitQuestionByShortcode).                                             *)
THEOREM CompletionIsTrue == Spec => []CompletedIsTrue
<1>1. ASSUME KInv PROVE CompletedIsTrue
  <2>1. \A u : written \intersect Of("submitQuestion", u) = Submits(u)
    BY <1>1, WrittenTypes DEF KInv, WrittenOK, Submits, Of
  <2>2. ASSUME NEW u \in Users, questionnaire[u] # Nothing, Submits(u) # {},
               \A r \in Submits(u) : pc[r] = "done" /\ told[r] = 200, OneByOne(u)
        PROVE  questionnaire[u].completed <=> Active \subseteq DOMAIN questionnaire[u].responses
    <3>1. Flag(u) /\ questionnaire[u].completed \in BOOLEAN
      BY <1>1, <2>2 DEF KInv, FlagOK, AInv, Typed, TypeOK, QuestionnaireTypeOK, Rows
    <3> QED
      BY <2>2, <3>1 DEF Flag
  <2>3. ASSUME NEW u \in Users
        PROVE  \/ OneByOne(u)
               \/ \E q, r \in Submits(u) :
                    q # r /\ (Overlap(q, r) \/ req[q].shortcode = req[r].shortcode)
               \/ \E r \in Submits(u) : Reregistered(r)
    BY DEF OneByOne
  <2> QED
    BY <2>1, <2>2, <2>3 DEF CompletedIsTrue
<1> QED
  BY QuestionnaireInvariance, <1>1, PTL
=============================================================================
