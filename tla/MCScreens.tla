----------------------------- MODULE MCScreens -----------------------------
(* Instances of FeedbackViews, FeedbackList and AnalysisSelection for TLC,    *)
(* over one table, and of QuestionMetrics: each behaviour has one reader.  A  *)
(* case is a request with the feedbacks that matter to it.                    *)
EXTENDS FeedbackViews, FeedbackList, QuestionMetrics, AnalysisSelection, TLC

CONSTANTS
  Other, geral, product, service, stray, chair, haircut, far, d1, d2,
  q1, q2, s1

VARIABLE reader

\* Two companies; the point of the second item is created during the requests.
MCOwner == [x \in Points \cup Items |-> IF x \in {stray, far} THEN Other ELSE Company]
MCItemOf == [p \in Points |-> CASE p = geral -> Null [] p = product -> chair
                                [] p = service -> haircut [] p = stray -> far]
MCKindOf == [i \in Items |-> IF i = haircut THEN "SERVICE" ELSE "PRODUCT"]

MCParentOf == [s \in {s1} |-> q1]

Request(kind, scope, item, start, end, bucket, tz, last) ==
  [kind |-> kind, scope |-> scope, item |-> item, start |-> start, end |-> end,
   bucket |-> bucket, tz |-> tz, last |-> last]

Row(point, channel, comment, device) ==
  [point |-> point, channel |-> channel, comment |-> comment, device |-> device]

\* Every scope over feedbacks at every point.
Scopes == {<<Null, Null>>, <<"COMPANY", Null>>, <<"COMPANY", chair>>, <<"PRODUCT", Null>>,
           <<"PRODUCT", chair>>, <<"SERVICE", chair>>, <<"SERVICE", haircut>>, <<Null, chair>>,
           <<"DEPARTMENT", Null>>, <<"SERVICE", Null>>}

ScopeContents ==
  {[f \in 1 .. 3 |-> CASE f = 1 -> Row(p, "QR", c, Null)
                       [] f = 2 -> Row(q, IF q = geral THEN Null ELSE "NFC", "long", Null)
                       [] OTHER -> Row(geral, "TEST", "short", Null)] :
     p \in {product, stray}, q \in {geral, service}, c \in {"none", "short"}}

All == Points \cup Items
Known == All \ {service}

ScopeCases ==
  {[request |-> Request("stats", s[1], s[2], Null, Null, Null, 0, FirstTick), content |-> c, made |-> Known] :
     s \in Scopes, c \in ScopeContents}
  \cup
  {[request |-> Request("analysis", s[1], s[2], Null, Null, Null, 0, FirstTick), content |-> c,
    made |-> Known \ {haircut}] : s \in {<<"SERVICE", Null>>, <<"SERVICE", haircut>>}, c \in ScopeContents}

\* Three comments of the whole company, for the counts that wait for the AI.
CommentCases ==
  {[request |-> Request(k, Null, Null, Null, Null, Null, 0, FirstTick), made |-> All,
    content |-> [f \in 1 .. 3 |-> Row(geral, "LINK", IF f = 3 THEN "short" ELSE "long", Null)]] :
     k \in {"stats", "package"}}

\* The calendar: periods that begin or end inside the run, or not at all, or backwards.
Times ==
  {Request("timeline", Null, Null, s, e, b, tz, FirstTick + 5) :
     s \in {Null, FirstTick - 6, FirstTick + 2}, e \in {Null, FirstTick + 4},
     b \in {"day", "week", "month"}, tz \in {-1, 2}}
  \cup {Request("heatmap", Null, Null, s, Null, Null, tz, FirstTick + 5) :
          s \in {Null, FirstTick + 2}, tz \in {0, 3}}
  \cup {Request("timeline", Null, Null, FirstTick + 4, FirstTick + 4, "day", 0, FirstTick),
        Request("timeline", Null, Null, Null, Null, "year", 0, FirstTick),
        Request("heatmap", Null, Null, Null, Null, Null, 9, FirstTick)}

TimeCases ==
  {[request |-> r, made |-> All, content |-> [f \in 1 .. 2 |-> Row(geral, "QR", "none", Null)]] : r \in Times}

\* Two devices, or none, at the point of the company and at that of an item.
CustomerCases ==
  {[request |-> Request("customers", s, Null, period[1], period[2], Null, 0, FirstTick + 1), made |-> All,
    content |-> [f \in 1 .. 3 |-> CASE f = 1 -> Row(geral, IF d = Null THEN "TEST" ELSE "QR", "none", d1)
                                    [] f = 2 -> Row(p, "QR", "none", d1)
                                    [] OTHER -> Row(product, "QR", "none", d)]] :
     s \in {Null, "PRODUCT"}, period \in {<<Null, Null>>, <<FirstTick + 1, FirstTick + 2>>},
     p \in {geral, product}, d \in {d1, d2, Null}}

MCCases == ScopeCases \cup CommentCases \cup TimeCases \cup CustomerCases

MCWalks ==
  {[filter |-> [category |-> w[1], named |-> w[2]], made |-> Known,
    content |-> [f \in 1 .. 3 |-> CASE f = 1 -> Row(p, "TEST", "none", Null)
                                    [] f = 2 -> Row(service, "QR", "none", Null)
                                    [] OTHER -> Row(geral, "QR", "long", Null)]] :
     w \in {<<Null, Null>>, <<"COMPANY", Null>>, <<"COMPANY", {chair}>>, <<"PRODUCT", Null>>,
            <<"SERVICE", {chair, haircut}>>, <<Null, {haircut}>>, <<Null, {far}>>},
     p \in {geral, product, stray}}

\* Comments at the company, at one item, or of the owner; what others analyse
\* and what arrives late.
MCSelections ==
  {[job |-> [scope |-> s[1], item |-> s[2], limit |-> n], made |-> Known,
    content |-> [f \in 1 .. 3 |-> CASE f = 1 -> Row(p, "QR", "long", Null)
                                    [] f = 2 -> Row(product, "LINK", "short", Null)
                                    [] OTHER -> Row(IF p = geral THEN stray ELSE product, "QR", "long", Null)]] :
     s \in Scopes, n \in {Null, 1}, p \in {geral, product}}

\* The readers that do not run stay as they were created.
ViewsIdle == /\ request = Null /\ outcome = "idle" /\ todo = <<>> /\ ids = Null /\ found = {}
             /\ got = Null /\ before = Null
ListIdle == /\ filter = Null /\ step = "idle" /\ page = 1 /\ total = 0 /\ listIds = Null
            /\ listItems = {} /\ answer = {} /\ news = {} /\ shown = {} /\ atStart = {}
TableIdle == /\ content = <<>> /\ life = <<>> /\ created = <<>> /\ analyzed = {}
             /\ made = {} /\ clock = FirstTick
QuestionsIdle == /\ config = Null /\ edits = 0 /\ seen = Null /\ form = Null /\ ask = "feedback"
                 /\ feedbackIds = {} /\ answerRows = {} /\ subAnswerRows = {} /\ currentQ = Null
                 /\ metrics = {} /\ past = {}
SelectionIdle == job = Null /\ at = "new" /\ selected = {} /\ batches = {} /\ asked = Null

Init == \/ reader = "views" /\ ViewsInit /\ ListIdle /\ QuestionsIdle /\ SelectionIdle
        \/ reader = "list" /\ ListInit /\ ViewsIdle /\ QuestionsIdle /\ SelectionIdle
        \/ reader = "questions" /\ QuestionsInit /\ TableIdle /\ ViewsIdle /\ ListIdle /\ SelectionIdle
        \/ reader = "selection" /\ SelectionInit /\ ViewsIdle /\ ListIdle /\ QuestionsIdle
Next == /\ UNCHANGED reader
        /\ \/ reader = "views" /\ ViewsNext /\ UNCHANGED <<listVars, metricVars, selectionVars>>
           \/ reader = "list" /\ ListNext /\ UNCHANGED <<viewVars, metricVars, selectionVars>>
           \/ reader = "questions" /\ QuestionsNext /\ UNCHANGED <<tableVars, viewVars, listVars, selectionVars>>
           \/ reader = "selection" /\ SelectionNext /\ UNCHANGED <<viewVars, listVars, metricVars>>
Spec == Init /\ [][Next]_<<reader, tableVars, viewVars, listVars, metricVars, selectionVars>>
=============================================================================
