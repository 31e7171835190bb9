---------------------------- MODULE Questionnaire ----------------------------
(***************************************************************************)
(* The questionnaire service (questionnaire.service.ts): a user answers the *)
(* questions one by one; the row keeps all answers in one JSON object,      *)
(* which every submit reads, extends and writes back, and a flag that says  *)
(* that all active questions have been answered.                            *)
(***************************************************************************)
EXTENDS Rpc

CONSTANTS Users,
          Active,    \* shortcodes of the active questions
          Inactive,  \* of the inactive ones
          Answers,   \* answers of the type a question asks for
          Misfits,   \* answers of another type
          Falsy      \* answers that are false as a condition: 0, false, ''

ASSUME QuestionsAssumption ==
  /\ Active \cap Inactive = {} /\ Answers \cap Misfits = {} /\ Falsy \subseteq Answers
  /\ IsFiniteSet(Active)

(* responses: a function from the shortcodes answered to the answers; the   *)
(* column may also be null.                                                 *)
Responses == UNION {[S -> Answers] : S \in SUBSET Active}
Rows == [started : BOOLEAN, completed : BOOLEAN, responses : Responses \union {Nothing}]

ASSUME NothingIsNoRow == Nothing \notin Rows /\ Nothing \notin Responses

VARIABLES questionnaire, \* the row of each user, Nothing where there is none
          written        \* history: the submits that have written their answer

QuestionnaireOps == {"getQuestionnaire", "submitQuestion"}

Blank(responses) == [started |-> FALSE, completed |-> FALSE, responses |-> responses]

QuestionnaireTypeOK ==
  /\ questionnaire \in [Users -> Rows \union {Nothing}]
  /\ written \subseteq Requests

(* The handlers of the api controller, and of the service's.                *)
api_questionnaire(r, outcome, result) == Finish(r, outcome, 200, result)
QuestionnaireController(r, outcome, result) == api_questionnaire(r, outcome, result)

-----------------------------------------------------------------------------
(* Mutants of the operators below.                                          *)

\* The answers that were read are spread last.
MergedMutant(r) ==
  [q \in DOMAIN mem[r] \union {req[r].shortcode} |->
     IF q \in DOMAIN mem[r] THEN mem[r][q] ELSE req[r].answer]

\* The number of questions is that of all questions but one.
AllAnsweredMutant(answered) == answered = Cardinality(Active)

-----------------------------------------------------------------------------
(* Questions that count as answered: their answer is true as a condition.   *)
AnsweredIn(responses) == {q \in DOMAIN responses : responses[q] \notin Falsy}

(* getQuestionnaire: the row and all questions, inactive ones too. A row    *)
(* that is started has answers.                                             *)
getQuestionnaire(r) == LET row == questionnaire[req[r].user] IN
  /\ Taken(r, "getQuestionnaire")
  /\ CASE row = Nothing -> QuestionnaireController(r, 404, Nothing)
       [] row # Nothing /\ ~ row.started ->
            QuestionnaireController(r, Success, [started |-> FALSE, completed |-> FALSE])
       [] OTHER ->
            QuestionnaireController(r, Success,
              [started |-> TRUE, completed |-> Active \union Inactive \subseteq AnsweredIn(row.responses)])
  /\ UNCHANGED <<questionnaire, written>>

(* submitQuestionByShortcode looks the question up.                         *)
submitQuestion(r) ==
  /\ Taken(r, "submitQuestion")
  /\ CASE req[r].shortcode \notin Active \union Inactive -> QuestionnaireController(r, 404, Nothing)
       [] req[r].shortcode \in Inactive \/ (req[r].shortcode \in Active /\ req[r].answer \in Misfits) ->
            QuestionnaireController(r, 400, Nothing)
       [] OTHER -> GoOn(r, "answering", Nothing)
  /\ UNCHANGED <<questionnaire, written>>

(* The row with the answers so far; null ones throw when they are counted.  *)
ReadAnswers(r) == LET row == questionnaire[req[r].user] IN
  /\ pc[r] = "answering"
  /\ CASE row = Nothing -> QuestionnaireController(r, 404, Nothing)
       [] row # Nothing /\ row.responses = Nothing -> QuestionnaireController(r, 500, Nothing)
       [] OTHER -> GoOn(r, "writing", row.responses)
  /\ UNCHANGED <<questionnaire, written>>

(* The answers that were read and the new one; the column accepts them.     *)
Merged(r) ==
  [q \in DOMAIN mem[r] \union {req[r].shortcode} |->
     IF q = req[r].shortcode THEN req[r].answer ELSE mem[r][q]]

WriteAnswers(r) == LET row == questionnaire[req[r].user] IN
  /\ pc[r] = "writing"
  /\ questionnaire' = [questionnaire EXCEPT ![req[r].user] =
       [row EXCEPT !.responses = Merged(r), !.started = @ \/ DOMAIN mem[r] = {}]]
  /\ written' = written \union {r}
  /\ GoOn(r, "counting", Cardinality(DOMAIN mem[r]))

AllAnswered(answered) == answered + 1 = Cardinality(Active)

(* The answers that were read and one more are as many as the active        *)
(* questions: the flag is set. Nothing takes it back.                       *)
Complete(r) ==
  /\ pc[r] = "counting"
  /\ questionnaire' = IF AllAnswered(mem[r])
                      THEN [questionnaire EXCEPT ![req[r].user].completed = TRUE] ELSE questionnaire
  /\ QuestionnaireController(r, Success, Nothing)
  /\ UNCHANGED written

QuestionnaireFails(r) ==
  /\ Running(r) /\ req[r].op \in QuestionnaireOps
  /\ QuestionnaireController(r, IF pc[r] = "answering" THEN 404 ELSE 500, Nothing)
  /\ UNCHANGED <<questionnaire, written>>

QuestionnaireNext(r) ==
  \/ getQuestionnaire(r) \/ submitQuestion(r) \/ ReadAnswers(r) \/ WriteAnswers(r) \/ Complete(r)
  \/ QuestionnaireFails(r)
=============================================================================
