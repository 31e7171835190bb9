------------------------------ MODULE MCAccounts ------------------------------
(* A small instance of Accounts: u1 has an account, u2 has none yet. Three   *)
(* requests of the same user, of one of several kinds: of a new user, of one *)
(* who logs in, and of one who fills in the questionnaire.                   *)
EXTENDS Accounts

CONSTANTS u1, u2, r1, r2, r3, q1, q2, q3, q4, a1, a2, bad

Reads(u) == {[op |-> "getUserStats", user |-> u], [op |-> "getUserProfile", user |-> u]}
Update(u) == {[op |-> "updateUserProfile", user |-> u, fields |-> f] : f \in {Nothing, {}, {"profile"}, {"user"}}}
Edit(u)   == {[op |-> "editUser", user |-> u, fields |-> f] : f \in {{}, {"name"}, {"password"}, {"email"}}}
Login(u)  == {[op |-> "login", user |-> u, right |-> p] : p \in BOOLEAN}
Good(u)   == [op |-> "login", user |-> u, right |-> TRUE]
Delete(u) == [op |-> "deleteUser", user |-> u]

Submit(q, a) == [op |-> "submitQuestion", user |-> u1, shortcode |-> q, answer |-> a]

Any(f, S, T) == {[r \in Requests |-> CASE r = r1 -> f [] r = r2 -> g [] r = r3 -> h] : g \in S, h \in T}

MCScenarios == UNION {
  (* a registration, something that gets in its way, something that looks *)
  Any([op |-> "register", user |-> u2],
      {Delete(u2), [op |-> "register", user |-> u2], [op |-> "createUser", user |-> u2]} \union Edit(u2),
      Reads(u2) \union Update(u2) \union
        {Good(u2), [op |-> "submitQuestion", user |-> u2, shortcode |-> q1, answer |-> a1],
         [op |-> "getQuestionnaire", user |-> u2]}),
  Any([op |-> "createUser", user |-> u2],
      {Delete(u2)} \union Edit(u2),
      {Good(u2), [op |-> "submitQuestion", user |-> u2, shortcode |-> q1, answer |-> a1],
       [op |-> "getQuestionnaire", user |-> u2]}),
  (* a session, its successor, and what disturbs them *)
  Any(Good(u1), Login(u1) \union {Delete(u1)} \union Edit(u1),
      {[op |-> "refresh", user |-> u1, of |-> r1], Good(u1)}),
  (* answers to one question or to two, and another or a look at them *)
  Any(Submit(q1, a1), {Submit(q1, a2), Submit(q2, a1)},
      {Submit(q1, a1), Submit(q2, a1), Submit(q3, a1), Submit(q4, a1), Submit(q1, bad),
       [op |-> "getQuestionnaire", user |-> u1]})}
=============================================================================
