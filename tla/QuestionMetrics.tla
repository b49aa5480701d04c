--------------------------- MODULE QuestionMetrics ---------------------------
(***************************************************************************)
(* GET /feedbacks/questions, also part of every diagnosis package:          *)
(* computeScopedQuestionMetrics.  Five queries one after the other, while   *)
(* customers fill forms and the manager edits questions.  An answer keeps   *)
(* the wording the customer saw; each wording of a question is an entry of  *)
(* its own, and only one entry hosts the subquestions.                      *)
(*                                                                         *)
(* A metric is the set of answers it was computed from; means, intervals    *)
(* and weights are Statistics, and the order by mean is left out.  Texts    *)
(* stand for trimmed texts.  The scope is that of FeedbackViews.            *)
(*                                                                         *)
(* An operator F_Bug is F with a plausible bug.  No specification uses it:  *)
(* put in the place of F, it shows that the properties notice.              *)
(***************************************************************************)
EXTENDS Naturals, FiniteSets

CONSTANTS
  Questions, Subquestions,
  ParentOf,    \* the question of each subquestion; no id is both
  Texts,
  Forms,       \* submissions of the form
  MaxEdits,    \* bound: edits of a question or subquestion
  NoConfig     \* an id the config query did not return

ASSUME QuestionsAssumption ==
  /\ IsFiniteSet(Questions) /\ IsFiniteSet(Forms)
  /\ Questions \cap Subquestions = {} /\ ParentOf \in [Subquestions -> Questions]
  /\ Texts # {}

VARIABLES
  config,      \* [text, active] of every question and subquestion
  edits,
  seen,        \* wordings a customer got: a function of the ids of the form
  form,        \* "none", "questions", "filled", "saved"
  ask,         \* the request: the query it is about to make
  feedbackIds, answerRows, subAnswerRows,
  currentQ,
  metrics,
  past         \* history: what was saved when the request began

configVars == <<config, edits>>
formVars == <<seen, form>>
readVars == <<ask, feedbackIds, answerRows, subAnswerRows, currentQ, metrics, past>>
metricVars == <<configVars, formVars, readVars>>

NoQuestions == [q \in {} |-> NoConfig]

QuestionsInit ==
  /\ config \in [Questions \cup Subquestions ->
                   {[text |-> CHOOSE t \in Texts : TRUE, active |-> a] : a \in BOOLEAN}]
  /\ edits = 0
  /\ seen = [f \in Forms |-> NoQuestions] /\ form = [f \in Forms |-> "none"]
  /\ ask = "feedback" /\ feedbackIds = {} /\ answerRows = {} /\ subAnswerRows = {}
  /\ currentQ = NoQuestions /\ metrics = {} /\ past = {}

SavedForms == {f \in Forms : form[f] = "saved"}

-----------------------------------------------------------------------------
(* The others.  Questions are edited and switched off, never deleted.        *)

Edit(x) ==
  /\ edits < MaxEdits /\ edits' = edits + 1
  /\ \E t \in Texts, a \in BOOLEAN : config' = [config EXCEPT ![x] = [text |-> t, active |-> a]]
  /\ UNCHANGED <<formVars, readVars>>

Wording(ids) == [x \in ids |-> config[x].text]

\* fetchActiveQuestionsForScope: the questions, then the subquestions of those.
ReadQuestions(f) ==
  /\ form[f] = "none" /\ form' = [form EXCEPT ![f] = "questions"]
  /\ seen' = [seen EXCEPT ![f] = Wording({q \in Questions : config[q].active})]
  /\ UNCHANGED <<configVars, readVars>>

ReadSubquestions(f) ==
  /\ form[f] = "questions" /\ form' = [form EXCEPT ![f] = "filled"]
  /\ LET subs == {s \in Subquestions : ParentOf[s] \in DOMAIN seen[f] /\ config[s].active}
     IN  seen' = [seen EXCEPT ![f] = [x \in DOMAIN seen[f] \cup subs |->
                    IF x \in subs THEN config[x].text ELSE seen[f][x]]]
  /\ UNCHANGED <<configVars, readVars>>

\* persistQrFeedback: the feedback and all its answers in one transaction.
SaveAnswers(f) ==
  /\ form[f] = "filled" /\ form' = [form EXCEPT ![f] = "saved"]
  /\ UNCHANGED <<seen, configVars, readVars>>

-----------------------------------------------------------------------------
(* The request.                                                              *)

AnswersOf(fs, ids) ==
  {r \in fs \X ids \X Texts : r[2] \in DOMAIN seen[r[1]] /\ r[3] = seen[r[1]][r[2]]}

ReadFeedbacks ==
  /\ ask = "feedback"
  /\ feedbackIds' = SavedForms /\ past' = SavedForms
  /\ ask' = IF SavedForms = {} THEN "answered" ELSE "answers"
  /\ UNCHANGED <<configVars, formVars, answerRows, subAnswerRows, currentQ, metrics>>

ReadAnswers ==
  /\ ask = "answers" /\ ask' = "subanswers"
  /\ answerRows' = AnswersOf(feedbackIds \cap SavedForms, Questions)
  /\ UNCHANGED <<configVars, formVars, feedbackIds, subAnswerRows, currentQ, metrics, past>>

ReadSubAnswers ==
  /\ ask = "subanswers" /\ ask' = "defs"
  /\ subAnswerRows' = AnswersOf(feedbackIds \cap SavedForms, Subquestions)
  /\ UNCHANGED <<configVars, formVars, feedbackIds, answerRows, currentQ, metrics, past>>

ReadQuestionDefs ==
  /\ ask = "defs" /\ ask' = "subdefs"
  /\ currentQ' = [q \in {r[2] : r \in answerRows} |-> config[q]]
  /\ UNCHANGED <<configVars, formVars, feedbackIds, answerRows, subAnswerRows, metrics, past>>

\* addAnswerToAgg: one aggregate for an id and a wording.
Aggregates(rows) ==
  {[id |-> r[2], text |-> r[3], from |-> {o \in rows : o[2] = r[2] /\ o[3] = r[3]}] : r \in rows}

questionMetricStatus(cfg, text) ==
  IF cfg.text # text THEN "past" ELSE IF cfg.active THEN "current" ELSE "deactivated"

\* The question was read before the subquestion; NoConfig when nobody answered it.
subMetricStatus(parent, cfg, text) ==
  IF cfg.text # text THEN "past"
  ELSE IF parent # NoConfig /\ parent.active /\ cfg.active THEN "current" ELSE "deactivated"

SubsOf(q) ==
  {[sub |-> a.id, text |-> a.text, from |-> a.from,
    status |-> subMetricStatus(IF q \in DOMAIN currentQ THEN currentQ[q] ELSE NoConfig,
                               config[a.id], a.text)] :
     a \in {b \in Aggregates(subAnswerRows) : ParentOf[b.id] = q}}

\* The wording in the config, or else the first that was aggregated: rows come
\* in any order.
Hosts_OnlyCurrentWording(q, aggs) == {a \in aggs : a.text = currentQ[q].text}
Hosts(q, aggs) ==
  LET live == {a \in aggs : a.text = currentQ[q].text} IN IF live # {} THEN live ELSE aggs

\* The subquestions' config arrives, and the answer is computed.
ReadSubquestionDefs ==
  /\ ask = "subdefs" /\ ask' = "answered"
  /\ LET aggs == Aggregates(answerRows)
         of(q) == {a \in aggs : a.id = q}
     IN  \E host \in SUBSET aggs :
           /\ \A q \in DOMAIN currentQ :
                LET mine == host \cap Hosts(q, of(q)) IN
                /\ host \cap of(q) = mine
                /\ Cardinality(mine) = IF Hosts(q, of(q)) = {} THEN 0 ELSE 1
           /\ metrics' = {[question |-> a.id, text |-> a.text, from |-> a.from,
                           status |-> questionMetricStatus(currentQ[a.id], a.text),
                           subquestions |-> IF a \in host THEN SubsOf(a.id) ELSE {}] : a \in aggs}
  /\ UNCHANGED <<configVars, formVars, feedbackIds, answerRows, subAnswerRows, currentQ, past>>

MetricsFail ==
  /\ ask \notin {"answered", "failed"} /\ ask' = "failed"
  /\ UNCHANGED <<configVars, formVars, feedbackIds, answerRows, subAnswerRows, currentQ,
                 metrics, past>>

QuestionsNext ==
  \/ /\ ask \notin {"answered", "failed"}   \* nothing after the answer changes it
     /\ \/ \E x \in Questions \cup Subquestions : Edit(x)
        \/ \E f \in Forms : ReadQuestions(f) \/ ReadSubquestions(f) \/ SaveAnswers(f)
  \/ ReadFeedbacks \/ ReadAnswers \/ ReadSubAnswers \/ ReadQuestionDefs \/ ReadSubquestionDefs
  \/ MetricsFail

QuestionsSpec == QuestionsInit /\ [][QuestionsNext]_metricVars

-----------------------------------------------------------------------------
\* Where an answer of a form is counted: an entry, or a subquestion under one.
Places(f, x) ==
  {e \in metrics : <<f, x, seen[f][x]>> \in e.from}
  \cup {p \in metrics \X UNION {e.subquestions : e \in metrics} :
          p[2] \in p[1].subquestions /\ <<f, x, seen[f][x]>> \in p[2].from}

(* Every answer of every feedback saved before the request is counted once,  *)
(* under its own question, and nobody else's, whatever was edited or sent    *)
(* meanwhile.  A question has one wording at most that is not past, and that *)
(* one shows the subquestions.                                               *)
MetricsCoverTheAnswers ==
  ask = "answered" =>
    /\ \A f \in past : \A x \in DOMAIN seen[f] : Cardinality(Places(f, x)) = 1
    /\ \A e \in metrics : /\ \A r \in e.from : r[1] \in past
                          /\ \A s \in e.subquestions : /\ ParentOf[s.sub] = e.question
                                                       /\ \A r \in s.from : r[1] \in past
    /\ \A e, o \in metrics : e.question = o.question /\ e.status # "past" /\ e # o =>
                               o.status = "past" /\ o.subquestions = {}
=============================================================================
