------------------------------- MODULE Accounts -------------------------------
(***************************************************************************)
(* The accounts of users: the users service creates, registers, edits and   *)
(* deletes them, the auth module opens and refreshes their sessions, the    *)
(* profiles and user stats services read and edit a part of them, and the   *)
(* questionnaire service the rest.                                          *)
(*                                                                          *)
(* An account is a row of each of several tables. Of the rows, what is      *)
(* there counts, and of a users row whether a password can match it and     *)
(* whether it still has the email address by which its user logs in. The    *)
(* foreign keys of the tables keep a users row that another row refers to.  *)
(* No body changes the id of a row, or gives a user the address of another. *)
(***************************************************************************)
EXTENDS Questionnaire

CONSTANTS OldUsers  \* users with a complete account at the start

ASSUME OldUsersAssumption == OldUsers \subseteq Users

VARIABLES account, \* the rows of each user, with Marks on his users row
          session, \* the session row of each login
          before   \* history: the requests that had ended when a request was sent

accountVars == <<account, session>>
questionnaireVars == <<questionnaire, written>>
vars == <<rpcVars, questionnaireVars, accountVars, before>>

(* The tables whose rows make an account, without sessions, questionnaires. *)
Tables   == {"user", "stats", "profile", "settings"}
Sessions == {"none", "ACTIVE", "OUTDATED"}

(* A password can match the users row; its email has been changed.          *)
Marks == {"password", "renamed"}

AccountOps == {"createUser", "register", "editUser", "deleteUser", "login", "refresh",
               "getUserStats", "getUserProfile", "updateUserProfile"}

(* A token that is refreshed belongs to the user who refreshes it.          *)
ASSUME AskedAssumption == \A f \in Scenarios : \A r \in Requests :
  /\ f[r].op \in AccountOps \union QuestionnaireOps
  /\ f[r].user \in Users
  /\ f[r].op = "refresh" => f[r].of \in Requests /\ f[f[r].of].user = f[r].user
  /\ f[r].op = "submitQuestion" => f[r].answer \in Answers \union Misfits
  /\ f[r].op = "editUser" => f[r].fields \subseteq {"name", "password", "email"}
  /\ f[r].op = "updateUserProfile" => f[r].fields = Nothing \/ f[r].fields \subseteq {"profile", "user"}

Init ==
  /\ RpcInit
  /\ account = [u \in Users |-> IF u \in OldUsers THEN Tables \union {"password"} ELSE {}]
  /\ questionnaire = [u \in Users |-> IF u \in OldUsers THEN Blank(<<>>) ELSE Nothing]
  /\ written = {}
  /\ session = [r \in Requests |-> "none"]
  /\ before = [r \in Requests |-> {}]

TypeOK ==
  /\ RpcTypeOK /\ QuestionnaireTypeOK
  /\ account \in [Users -> SUBSET (Tables \union Marks)]
  /\ session \in [Requests -> Sessions]
  /\ before \in [Requests -> SUBSET Requests]
  /\ \A u \in Users :
       account[u] # {} \/ questionnaire[u] # Nothing => "user" \in account[u]
  /\ \A r \in Requests : session[r] # "none" => "user" \in account[req[r].user]

Ended(r)  == pc[r] \in {"done", "lost"}
Of(op, u) == {r \in Requests : req[r].op = op /\ req[r].user = u}

SessionsOf(u) == {r \in Requests : req[r].user = u /\ session[r] # "none"}

(* What the handlers of the api controllers, of AuthController and, for     *)
(* register, of the service tell of a success.                              *)
api_users(op) == CASE op = "createUser"              -> 201
                   [] op \in {"deleteUser", "editUser"} -> 202
                   [] op = "register"                -> 200
AuthController(op) == IF op = "login" THEN 201 ELSE 200
api_profiles(op)   == 200
api_stats(op)      == 200

Answer(r, outcome) ==
  LET op == req[r].op IN
  Finish(r, outcome,
    CASE op \in {"createUser", "deleteUser", "editUser", "register"} -> api_users(op)
      [] op \in {"login", "refresh"}                     -> AuthController(op)
      [] op \in {"getUserProfile", "updateUserProfile"}  -> api_profiles(op)
      [] op = "getUserStats"                             -> api_stats(op),
    outcome)

-----------------------------------------------------------------------------
(* Mutants of the operators below.                                          *)

\* The tables have no foreign keys.
CommitRegisterMutant(r) == LET u == req[r].user IN
  /\ pc[r] = "registering"
  /\ account' = [account EXCEPT ![u] = @ \union (Tables \ {"user"})]
  /\ questionnaire' = [questionnaire EXCEPT ![u] = Blank(<<>>)]
  /\ Answer(r, Success)
  /\ UNCHANGED <<session, written>>

\* The transaction is open to the statements of others.
createUserMutant(r) == LET u == req[r].user IN
  /\ Taken(r, "createUser")
  /\ account' = [account EXCEPT ![u] = @ \union {"user"}]
  /\ Answer(r, IF "user" \in account[u] THEN 500 ELSE Success)
  /\ UNCHANGED <<session, questionnaireVars>>

\* Registration answers when it has created the users row.
registerMutant(r) == LET u == req[r].user IN
  /\ Taken(r, "register")
  /\ account' = [account EXCEPT ![u] = @ \union {"user"}]
  /\ Answer(r, Success)
  /\ UNCHANGED <<session, questionnaireVars>>

\* The session is created first, then its predecessors are outdated.
OutdateMutant(r) ==
  /\ pc[r] = "opening"
  /\ GoOn(r, "session", Nothing)
  /\ UNCHANGED <<accountVars, questionnaireVars>>

-----------------------------------------------------------------------------
(* What refers to the users row, as the foreign keys see it.                *)
Referred(u) ==
  \/ account[u] \intersect {"stats", "profile", "settings"} # {}
  \/ questionnaire[u] # Nothing
  \/ SessionsOf(u) # {}

(* A request is sent; a token to refresh comes from a login that succeeded, *)
(* and an empty payload for the profile goes no further.                    *)
Empty(r) == req[r].op = "updateUserProfile" /\ req[r].fields = Nothing

Ask(r) ==
  /\ ~ Empty(r)
  /\ req[r].op = "refresh" => told[req[r].of] = 201
  /\ Send(r)
  /\ before' = [before EXCEPT ![r] = {q \in Requests : Ended(q)}]
  /\ UNCHANGED <<accountVars, questionnaireVars>>

RefuseEmpty(r) ==
  /\ pc[r] = "new" /\ Empty(r)
  /\ Answer(r, 400)
  /\ UNCHANGED <<accountVars, questionnaireVars>>

(* createUser: one transaction, with the null responses of a new            *)
(* questionnaire. Whether the validators and the database take its rows is  *)
(* left open: the api gives them no id and no responses.                    *)
createUser(r) == LET u == req[r].user IN
  /\ Taken(r, "createUser")
  /\ \/ /\ "user" \notin account[u]
        /\ account' = [account EXCEPT ![u] = Tables \union {"password"}]
        /\ questionnaire' = [questionnaire EXCEPT ![u] = Blank(Nothing)]
        /\ Answer(r, Success)
     \/ UNCHANGED <<account, questionnaire>> /\ Answer(r, 500)
  /\ UNCHANGED <<session, written>>

(* register: the users row is created outside the transaction.              *)
register(r) == LET u == req[r].user IN
  /\ Taken(r, "register")
  /\ IF "user" \in account[u]
     THEN UNCHANGED account /\ Answer(r, 400)
     ELSE account' = [account EXCEPT ![u] = {"user"}] /\ GoOn(r, "registering", Nothing)
  /\ UNCHANGED <<session, questionnaireVars>>

(* The rows in the transaction refer to the users row; they and the commit  *)
(* are one step, nobody sees them before. A user may come to have a second  *)
(* row, if he was deleted and registered again meanwhile (user_id is not    *)
(* unique): which of the two the statements find is left open.              *)
CommitRegister(r) == LET u == req[r].user IN
  /\ pc[r] = "registering" /\ "user" \in account[u]
  /\ account' = [account EXCEPT ![u] = @ \union Tables]
  /\ \E row \in {questionnaire[u], Blank(<<>>)} \ {Nothing} :
       questionnaire' = [questionnaire EXCEPT ![u] = row]
  /\ Answer(r, Success)
  /\ UNCHANGED <<session, written>>

RegisterFails(r) ==
  /\ Taken(r, "register") \/ pc[r] = "registering"
  /\ Answer(r, 400)
  /\ UNCHANGED <<accountVars, questionnaireVars>>

(* editUser writes the fields of the body as they are. A password is not    *)
(* hashed, and nothing matches it from then on; an email is a new one.      *)
(* Without fields no row is updated. Whatever it throws becomes a 500.      *)
editUser(r) == LET u == req[r].user  fields == req[r].fields IN
  /\ Taken(r, "editUser")
  /\ IF "user" \in account[u] /\ fields # {}
     THEN /\ account' = [account EXCEPT ![u] = (@ \ (fields \cap {"password"}))
                            \union IF "email" \in fields THEN {"renamed"} ELSE {}]
          /\ Answer(r, Success)
     ELSE UNCHANGED account /\ Answer(r, 500)
  /\ UNCHANGED <<session, questionnaireVars>>

(* deleteUser: its statements do not run in its transaction. Table by       *)
(* table, each deletion is there for everybody as soon as it is done.       *)
DeleteOrder == <<"stats", "profile", "settings", "sessions", "user">>

deleteUser(r) ==
  /\ Taken(r, "deleteUser")
  /\ GoOn(r, "deleting", 1)
  /\ UNCHANGED <<accountVars, questionnaireVars>>

DestroyNext(r) == LET u == req[r].user  table == DeleteOrder[mem[r]] IN
  /\ pc[r] = "deleting" /\ table # "user"
  /\ account' = [account EXCEPT ![u] = @ \ {table}]
  /\ session' = IF table = "sessions"
                THEN [q \in Requests |-> IF req[q].user = u THEN "none" ELSE session[q]] ELSE session
  /\ GoOn(r, "deleting", mem[r] + 1)
  /\ UNCHANGED questionnaireVars

(* The users row itself, which nothing may refer to; nobody has deleted its *)
(* questionnaire. The commit may fail after it.                             *)
DestroyUser(r) == LET u == req[r].user IN
  /\ pc[r] = "deleting" /\ DeleteOrder[mem[r]] = "user"
  /\ IF Referred(u)
     THEN UNCHANGED account /\ Answer(r, 500)
     ELSE account' = [account EXCEPT ![u] = {}] /\ \E e \in {Success, 500} : Answer(r, e)
  /\ UNCHANGED <<session, questionnaireVars>>

-----------------------------------------------------------------------------
(* AuthLocalStrategy.validate, validateUserCredentials: the row is found by *)
(* the email that its user registered with.                                 *)
validate(r) == LET u == req[r].user IN
  /\ Taken(r, "login")
  /\ IF "user" \notin account[u] \/ "renamed" \in account[u] THEN Answer(r, 404)
     ELSE IF req[r].right /\ "password" \in account[u] THEN GoOn(r, "opening", Nothing)
     ELSE Answer(r, 401)
  /\ UNCHANGED <<accountVars, questionnaireVars>>

(* openUserSession: all sessions of the user are outdated ...               *)
Outdate(r) ==
  /\ pc[r] = "opening"
  /\ session' = [q \in Requests |->
       IF req[q].user = req[r].user /\ session[q] = "ACTIVE" THEN "OUTDATED" ELSE session[q]]
  /\ GoOn(r, "session", Nothing)
  /\ UNCHANGED <<account, questionnaireVars>>

(* ... and then a new one is created, which refers to the users row. The    *)
(* cookies may not reach the client.                                        *)
CreateSession(r) ==
  /\ pc[r] = "session" /\ "user" \in account[req[r].user]
  /\ session' = [session EXCEPT ![r] = "ACTIVE"]
  /\ \E e \in {Success, 500} : Answer(r, e)
  /\ UNCHANGED <<account, questionnaireVars>>

(* refresh: the session of the token must be active, and its time not over. *)
refresh(r) ==
  /\ Taken(r, "refresh")
  /\ Answer(r, IF session[req[r].of] = "ACTIVE" THEN Success ELSE 500)
  /\ UNCHANGED <<accountVars, questionnaireVars>>

-----------------------------------------------------------------------------
getUserStats(r) ==
  /\ Taken(r, "getUserStats")
  /\ Answer(r, IF "stats" \in account[req[r].user] THEN Success ELSE 404)
  /\ UNCHANGED <<accountVars, questionnaireVars>>

(* A profile and the user row that belongs to it.                           *)
FindProfile(r) ==
  /\ Taken(r, "getUserProfile") \/ pc[r] = "finding"
  /\ Answer(r, IF "profile" \in account[req[r].user] THEN Success ELSE 404)
  /\ UNCHANGED <<accountVars, questionnaireVars>>

(* updateUserProfile updates the profile and then the user, where they are  *)
(* and the payload has a value for one of their fields. If no row has been  *)
(* updated the user is told that there is none.                             *)
UpdateProfile(r) ==
  /\ Taken(r, "updateUserProfile")
  /\ GoOn(r, "updating", "profile" \in req[r].fields \cap account[req[r].user])
  /\ UNCHANGED <<accountVars, questionnaireVars>>

UpdateProfileUser(r) ==
  /\ pc[r] = "updating"
  /\ IF mem[r] \/ "user" \in req[r].fields \cap account[req[r].user]
     THEN GoOn(r, "finding", Nothing)
     ELSE Answer(r, 404)
  /\ UNCHANGED <<accountVars, questionnaireVars>>

(* A statement fails; or the token of a refresh has expired.                *)
AccountFails(r) ==
  /\ Running(r) /\ req[r].op \in AccountOps \ {"register"}
  /\ Answer(r, 500)
  /\ UNCHANGED <<accountVars, questionnaireVars>>

-----------------------------------------------------------------------------
Step(r) ==
  \/ RefuseEmpty(r)
  \/ createUser(r) \/ register(r) \/ CommitRegister(r) \/ RegisterFails(r) \/ editUser(r)
  \/ deleteUser(r) \/ DestroyNext(r) \/ DestroyUser(r)
  \/ validate(r) \/ Outdate(r) \/ CreateSession(r) \/ refresh(r)
  \/ getUserStats(r) \/ FindProfile(r) \/ UpdateProfile(r) \/ UpdateProfileUser(r)
  \/ AccountFails(r)
  \/ QuestionnaireNext(r) /\ UNCHANGED accountVars
  \/ (authenticate(r) \/ GiveUp(r) \/ Expire(r)) /\ UNCHANGED <<accountVars, questionnaireVars>>

Next ==
  \/ \E r \in Requests : Ask(r)
  \/ (\E r \in Requests : Step(r)) /\ UNCHANGED before
  \/ Crash /\ UNCHANGED <<accountVars, questionnaireVars, before>>

Spec == Init /\ [][Next]_vars

-----------------------------------------------------------------------------
Overlap(q, r) == q \notin before[r] /\ r \notin before[q]

(* Edits that give a user another email.                                    *)
Renames(u) == {r \in Of("editUser", u) : "email" \in req[r].fields}

(* Once a registration has been confirmed, a later request of that user is  *)
(* told "not found" only if the user has been deleted, or half deleted, or, *)
(* if it is a login, if his email has been changed (register, which writes  *)
(* to five tables).                                                         *)
RegisteredIsFound == \A r \in Requests : LET u == req[r].user IN
  (req[r].op \in {"login", "getUserStats", "getUserProfile"} /\ told[r] = 404) =>
    \A q \in Of("register", u) \intersect before[r] : told[q] = 200 =>
      \E d \in Of("deleteUser", u) \union IF req[r].op = "login" THEN Renames(u) ELSE {} :
        pc[d] \notin {"new", "queued"}

(* Of an account that is not whole, a registration or a deletion is under   *)
(* way, has died with its process or has failed; the transaction of         *)
(* createUser leaves none (createUser, register, deleteUser).               *)
HalfUserHasCause == \A u \in Users :
  account[u] # {} /\ ~ (Tables \subseteq account[u] /\ questionnaire[u] # Nothing) =>
    \E r \in Of("register", u) \union Of("deleteUser", u) :
      Running(r) \/ pc[r] = "lost" \/ (pc[r] = "done" /\ mem[r] # Success)

(* Nothing is left of a user whose deletion has been confirmed, unless he   *)
(* was created or registered again: then his users row is there as well,    *)
(* although a registration may run between the statements of the deletion   *)
(* and the deletion between those of the registration (deleteUser,          *)
(* register).                                                               *)
DeletedIsGone == \A d \in Requests : (req[d].op = "deleteUser" /\ told[d] = 202) =>
  LET u == req[d].user IN
  \/ account[u] = {} /\ questionnaire[u] = Nothing /\ SessionsOf(u) = {}
  \/ "user" \in account[u] /\ (Of("register", u) \union Of("createUser", u)) \ before[d] # {}

(* Of two active sessions of a user, the logins ran at the same time; after *)
(* a later login has ended, the token of an earlier one is not refreshed    *)
(* (openUserSession, refresh).                                              *)
SessionsSuperseded ==
  /\ \A q, r \in Requests :
       (q # r /\ req[q].user = req[r].user /\ session[q] = "ACTIVE" /\ session[r] = "ACTIVE") =>
         Overlap(q, r)
  /\ \A r \in Requests : (req[r].op = "refresh" /\ told[r] = 200) =>
       \A q \in Of("login", req[r].user) \intersect before[r] :
         req[r].of \in before[q] => told[q] # 201

(* A registration that had not ended when r was sent has given the user     *)
(* another questionnaire.                                                   *)
Reregistered(r) == \E q \in Of("register", req[r].user) :
  q \notin before[r] /\ pc[q] = "done" /\ mem[q] = Success

(* An answer that has been written stays, unless another one to the same    *)
(* question followed, a submit of the same user ran at the same time, or    *)
(* the user was registered at that time or later                            *)
(* (submitQuestionByShortcode, which writes back all answers it has read).  *)
AnswersKept == \A r \in written :
  LET row == questionnaire[req[r].user] IN
  \/ req[r].shortcode \in DOMAIN row.responses /\ row.responses[req[r].shortcode] = req[r].answer
  \/ \E q \in written \ {r} :
       /\ req[q].user = req[r].user /\ q \notin before[r]
       /\ req[q].shortcode = req[r].shortcode \/ Overlap(q, r)
  \/ Reregistered(r)

(* The questionnaire is marked as completed exactly if all active questions *)
(* have been answered, unless a submit is under way, has died or reported   *)
(* an error after its write, two ran at the same time, two answered the     *)
(* same question, or the user was registered again                          *)
(* (submitQuestionByShortcode, which counts answers).                       *)
CompletedIsTrue == \A u \in Users :
  LET submits == written \intersect Of("submitQuestion", u) IN
  (questionnaire[u] # Nothing /\ submits # {}) =>
    \/ questionnaire[u].completed <=> Active \subseteq DOMAIN questionnaire[u].responses
    \/ \E r \in submits : pc[r] # "done" \/ told[r] # 200
    \/ \E q, r \in submits :
         q # r /\ (Overlap(q, r) \/ req[q].shortcode = req[r].shortcode)
    \/ \E r \in submits : Reregistered(r)
=============================================================================
