--------------------------- MODULE FeedbackViews ---------------------------
(***************************************************************************)
(* One request of a screen: GET /feedbacks/stats, /analysis, /timeline,     *)
(* /heatmap, /customers, and the metrics a diagnosis package takes          *)
(* ("package").  The scope becomes a list of collection points, and then    *)
(* each number comes from a query of its own, while feedback is submitted,  *)
(* committed and analysed.                                                  *)
(*                                                                         *)
(* A query is the set of rows it selected.  Stars and confidence intervals  *)
(* are Statistics.  The writers stop when the request has its answer        *)
(* (a bound: nothing after it can change it).                               *)
(*                                                                         *)
(* An operator F_Bug is F with a plausible bug.  No specification uses it:  *)
(* put in the place of F, it shows that the properties notice.              *)
(***************************************************************************)
EXTENDS FeedbackTable, FiniteSetsExt

CONSTANTS
  Cases,              \* the requests, each with the contents of the feedbacks
  Sunday, MonthStarts, \* the calendar: a day that is Sunday, the first days of months
  TIMELINE_MAX_POINTS

Zones == -4 .. 4

ASSUME CasesAssumption ==
  \A c \in Cases : /\ CanStart(c) /\ c.request.item \in Items \cup {Null}
                  /\ c.request.scope \in Kinds \cup {"COMPANY", Null}
                  /\ {c.request.start, c.request.end} \subseteq Int \cup {Null}

VARIABLES
  request,  \* [kind, scope, item, start, end, bucket, tz, last]
  outcome,  \* "idle", "reading", "answered", "refused", "failed"
  todo,     \* the queries that are left
  ids,      \* collectionPointIds: Null is no filter
  found,    \* items of the kind, between the two queries of the scope
  got,      \* what the queries returned
  before    \* history: what was saved and analysed when the request began

viewVars == <<request, outcome, todo, ids, found, got, before>>

NoNumbers == [ratings |-> {}, analysis |-> {}, comments |-> {}, channels |-> {}, count |-> {},
            rows |-> {}, today |-> 0, visits |-> {}, devices |-> {}, again |-> {}]

ViewsInit ==
  /\ \E c \in Cases : request = c.request /\ TableInit(c)
  /\ outcome = "idle" /\ todo = <<>> /\ ids = Null /\ found = {}
  /\ got = NoNumbers /\ before = [saved |-> {}, analyzed |-> {}]

-----------------------------------------------------------------------------
(* The calendar: getUTCDay, date_trunc, bucketStart and nextBucket.          *)

LocalDate(t, tz) == (t + tz) \div 4
Band(t, tz) == (t + tz) % 4
Weekday(d) == (d - Sunday) % 7

bucketStart(d, bucket) ==
  CASE bucket = "month" -> Max({m \in MonthStarts : m <= d})
    [] bucket = "week"  -> d - ((Weekday(d) + 6) % 7)
    [] OTHER            -> d

nextBucket(d, bucket) ==
  CASE bucket = "month" -> Min({m \in MonthStarts : m > d})
    [] bucket = "week"  -> d + 7
    [] OTHER            -> d + 1

\* There are months before all that a request looks at.
ASSUME CalendarAssumption ==
  /\ Sunday \in Int /\ MonthStarts \subseteq Int
  /\ \A c \in Cases, tz \in Zones : \A t \in {FirstTick, c.request.start, c.request.end} \ {Null} :
       \E m \in MonthStarts : m <= LocalDate(t - 1, tz)

\* The database's: the last Monday, the last first of a month.
DateTrunc(d, bucket) ==
  CASE bucket = "month" -> Max({m \in MonthStarts : m <= d})
    [] bucket = "week"  -> CHOOSE m \in (d - 6) .. d : Weekday(m) = 1
    [] OTHER            -> d

StartOf(f) == DateTrunc(LocalDate(created[f], request.tz), request.bucket)

\* The dates the loop of fillTimeline reaches: as few as have the first and, with
\* each, its next unless that is past the last.
Reached(first, last, bucket) ==
  {d \in first .. last :
     \A S \in SUBSET (first .. last) :
       (/\ first \in S
        /\ \A x \in S : nextBucket(x, bucket) <= last => nextBucket(x, bucket) \in S)
       => d \in S}

\* fillTimeline: the rows of every interval, Null above the cap.
FillTimeline(rows, from, to) ==
  LET starts == Reached(bucketStart(from, request.bucket), bucketStart(to, request.bucket),
                        request.bucket)
  IN  IF Cardinality(starts) > TIMELINE_MAX_POINTS THEN Null
      ELSE [d \in starts |-> {f \in rows : StartOf(f) = d}]

\* computeScopedTimeline, once the rows and today are known.
Timeline ==
  LET to == IF request.end # Null THEN LocalDate(request.end - 1, request.tz) ELSE got.today
      from == IF request.start # Null THEN LocalDate(request.start, request.tz)
              ELSE IF got.rows # {} THEN Min({StartOf(f) : f \in got.rows}) ELSE to
  IN  FillTimeline(got.rows, from, to)

\* fillHeatmap: the 28 cells.
Heatmap ==
  [c \in (0 .. 6) \X (0 .. 3) |->
     {f \in got.rows : /\ Weekday(LocalDate(created[f], request.tz)) = c[1]
                       /\ Band(created[f], request.tz) = c[2]}]

-----------------------------------------------------------------------------
(* The request: parameters, then the points of the scope.                    *)

\* parseMetricsPeriod: the end is excluded.
BadPeriod == request.start # Null /\ request.end # Null /\ request.start >= request.end
BadTimeline == /\ request.kind \in {"timeline", "heatmap"}
               /\ \/ request.tz \notin Zones
                  \/ request.kind = "timeline" /\ request.bucket \notin {"day", "week", "month"}

StatsPlan_CommentsFirst == <<"ratings", "comments", "analysis", "channels">>
StatsPlan == <<"ratings", "analysis", "comments", "channels">>

TimelinePlan_TodayFirst == <<"today", "rows">>
TimelinePlan == <<"rows", "today">>

\* The queries of each screen in the order they run.  The two of customers run
\* side by side, and so does the count of a package with its statistics.
Plan(kind) ==
  CASE kind = "stats"     -> {StatsPlan}
    [] kind = "package"   -> {Append(StatsPlan, "count"), <<"count">> \o StatsPlan}
    [] kind = "timeline"  -> {TimelinePlan}
    [] kind = "customers" -> {<<"visits", "devices">>, <<"devices", "visits">>}
    [] OTHER              -> {<<"rows">>}

Ask ==
  /\ outcome = "idle"
  /\ before' = [saved |-> Saved, analyzed |-> analyzed]
  /\ IF BadPeriod \/ BadTimeline
       THEN outcome' = "refused" /\ UNCHANGED todo
       ELSE outcome' = "reading" /\ \E p \in Plan(request.kind) : todo' = <<"items", "points">> \o p
  /\ UNCHANGED <<request, ids, found, got, tableVars>>

Doing(query) == outcome = "reading" /\ todo # <<>> /\ Head(todo) = query
Done == todo' = Tail(todo) /\ UNCHANGED <<request, outcome, before, tableVars>>

\* resolveScopeCollectionPointIds, the cases that need no list of points.
ScopeSettled(set) ==
  /\ ids' = set /\ todo' = SubSeq(todo, 3, Len(todo))
  /\ UNCHANGED <<request, outcome, found, got, before, tableVars>>

WholeCompany == Doing("items") /\ request.scope = Null /\ request.item = Null /\ ScopeSettled(Null)

ItemOfCompany == Doing("items") /\ request.scope = "COMPANY" /\ request.item # Null /\ ScopeSettled({})

ItemOfAnotherKind ==
  /\ Doing("items") /\ request.scope \in Kinds /\ request.item # Null
  /\ request.item \notin ItemsOfKind(Company, request.scope)
  /\ ScopeSettled({})

KindWithoutItems ==
  /\ Doing("items") /\ request.scope \in Kinds /\ request.item = Null
  /\ ItemsOfKind(Company, request.scope) = {}
  /\ ScopeSettled({})

ReadItems ==
  /\ Doing("items")
  /\ \/ request.scope = "COMPANY" /\ request.item = Null /\ UNCHANGED found
     \/ /\ request.item # Null /\ UNCHANGED found
        /\ request.scope # Null => /\ request.scope \in Kinds
                                   /\ request.item \in ItemsOfKind(Company, request.scope)
     \/ /\ request.scope \in Kinds /\ request.item = Null
        /\ found' = ItemsOfKind(Company, request.scope) /\ found' # {}
  /\ Done /\ UNCHANGED <<ids, got>>

ReadPoints ==
  /\ Doing("points")
  /\ ids' = IF request.scope \in Kinds /\ request.item = Null THEN PointsOfItems(Company, found)
            ELSE PointsOfItem(Company, request.item)
  /\ Done /\ UNCHANGED <<found, got>>

-----------------------------------------------------------------------------
(* The queries.                                                              *)

Select_IgnoresEmptyScope == ScopedFeedbackWhere(Company, ids, request.start, request.end)

\* A scope without points selects nothing: every reader returns before its query.
Select == IF ids = {} THEN {} ELSE ScopedFeedbackWhere(Company, ids, request.start, request.end)

Returned(query, rows) ==
  /\ Doing(query) /\ got' = [got EXCEPT ![query] = rows]
  /\ Done /\ UNCHANGED <<ids, found>>

fetchScopedRatingAggregates == Returned("ratings", Select)
fetchScopedAnalysisAggregates == Returned("analysis", Select \cap analyzed)
fetchScopedRatingByComment == Returned("comments", Select)
fetchScopedRatingByChannel == Returned("channels", Select)
fetchScopedCommentCount == Returned("count", {f \in Select : HasComment(f)})
fetchScopedRows == Returned("rows", IF request.kind = "analysis" THEN Select \cap analyzed ELSE Select)
ReadToday == Returned("today", LocalDate(clock, request.tz))

\* The visits of a device are numbered in the whole company.
Sequence_PerScope(f) ==
  Cardinality({g \in Saved : /\ CompanyOf(g) = Company /\ NotTest(g)
                             /\ content[g].device = content[f].device
                             /\ ids # Null => content[g].point \in ids
                             /\ \/ created[g] < created[f]
                                \/ created[g] = created[f] /\ g <= f})

Sequence(f) ==
  Cardinality({g \in Saved : /\ CompanyOf(g) = Company /\ NotTest(g)
                             /\ content[g].device = content[f].device
                             /\ \/ created[g] < created[f]
                                \/ created[g] = created[f] /\ g <= f})

Visit(f) == IF content[f].device = Null THEN "unidentified"
            ELSE IF Sequence(f) > 1 THEN "returning" ELSE "first"

fetchVisits == Returned("visits", {<<f, Visit(f)>> : f \in Select})

fetchDevices ==
  /\ Doing("devices")
  /\ LET seen == {f \in Select : content[f].device # Null}
     IN  got' = [got EXCEPT !.devices = {content[f].device : f \in seen},
                            !.again = {content[f].device : f \in {g \in seen : Sequence(g) > 1}}]
  /\ Done /\ UNCHANGED <<ids, found>>

Answer ==
  /\ outcome = "reading" /\ todo = <<>>
  /\ outcome' = "answered"
  /\ UNCHANGED <<request, todo, ids, found, got, before, tableVars>>

\* Any query may fail: the answer is a 500.
Fail ==
  /\ outcome = "reading" /\ todo # <<>>
  /\ outcome' = "failed"
  /\ UNCHANGED <<request, todo, ids, found, got, before, tableVars>>

ViewsNext ==
  \/ outcome \in {"idle", "reading"} /\ Write(request.last) /\ UNCHANGED viewVars
  \/ Ask
  \/ WholeCompany \/ ItemOfCompany \/ ItemOfAnotherKind \/ KindWithoutItems
  \/ ReadItems \/ ReadPoints
  \/ fetchScopedRatingAggregates \/ fetchScopedAnalysisAggregates \/ fetchScopedRatingByComment
  \/ fetchScopedRatingByChannel \/ fetchScopedCommentCount \/ fetchScopedRows
  \/ ReadToday \/ fetchVisits \/ fetchDevices
  \/ Answer \/ Fail

ViewsSpec == ViewsInit /\ [][ViewsNext]_<<tableVars, viewVars>>

-----------------------------------------------------------------------------
(* What the answers say.                                                     *)

Answered(kind) == outcome = "answered" /\ request.kind = kind
\* The sum of the counts of the cells: a row is counted once for each cell it is in.
Total(cells) == Cardinality(UNION {{c} \X cells[c] : c \in DOMAIN cells})

\* summarizeCommentParticipation and summarizeChannels.
WithComment == Cardinality({f \in got.comments : HasComment(f)})
ChannelTotal == Total([c \in {"QR", "LINK", "NFC", Null} |->
                  {f \in got.channels : content[f].channel = c}])

Pending == Max({0, WithComment - Cardinality(got.analysis)})
PackagePending == Max({0, Cardinality(got.count) - Cardinality(got.analysis)})

\* summarizeCustomers.
VisitsOf(visit) == {v[1] : v \in {w \in got.visits : w[2] = visit}}
Identified == Cardinality(VisitsOf("first")) + Cardinality(VisitsOf("returning"))

\* What the manager means by the request: rows of the company, of customers, at
\* a point of the chosen item or kind, in the period.
Meant(f) ==
  LET item == ItemOf[content[f].point] IN
  /\ CompanyOf(f) = Company /\ NotTest(f)
  /\ InPeriod(f, request.start, request.end)
  /\ request.scope = "COMPANY" => item = Null
  /\ request.scope \in Kinds => item # Null /\ KindOf[item] = request.scope
  /\ request.item # Null => item = request.item

Meaning(set) == {f \in set : Meant(f)}

\* The numbers of an answer, with what they count.
Totals ==
  CASE request.kind \in {"stats", "package"} ->
         {Cardinality(got.ratings), Cardinality(got.comments), ChannelTotal}
    [] request.kind = "timeline"  -> IF Timeline = Null THEN {} ELSE {Total(Timeline)}
    [] request.kind = "heatmap"   -> {Total(Heatmap)}
    [] request.kind = "customers" -> {Identified + Cardinality(VisitsOf("unidentified"))}
    [] OTHER                      -> {}

AnalyzedTotals ==
  CASE request.kind \in {"stats", "package"} -> {Cardinality(got.analysis)}
    [] request.kind = "analysis"             -> {Cardinality(got.rows)}
    [] OTHER                                 -> {}

(* Every total lies between its true value when the request began and its    *)
(* true value when it ended, whatever was submitted, analysed or created     *)
(* between the resolution of the scope and the queries: no row of another    *)
(* company, scope or period, no test of the owner, and no row lost.          *)
NumbersAreBracketed ==
  outcome = "answered" =>
    /\ \A n \in Totals : Cardinality(Meaning(before.saved)) <= n /\ n <= Cardinality(Meaning(Saved))
    /\ \A n \in AnalyzedTotals :
         Cardinality(Meaning(before.analyzed)) <= n /\ n <= Cardinality(Meaning(analyzed))

(* "Pending" never hides a comment that waits for the AI: it is at least the  *)
(* comments the answer counted that have no analysis, since the analysed are *)
(* counted first.  In a package the two counts run side by side, and it may  *)
(* be short only when the AI analysed something meanwhile.                   *)
PendingNeverHidesAComment ==
  /\ Answered("stats") =>
       /\ Cardinality(got.analysis) <= WithComment
       /\ Pending >= Cardinality({f \in got.comments \ analyzed : HasComment(f)})
  /\ Answered("package") /\ analyzed = before.analyzed =>
       PackagePending >= Cardinality(got.count \ analyzed)

(* The timeline has an interval for every row it counted, also when midnight *)
(* passes between the query and the reading of today, in any time zone, and  *)
(* no interval outside the asked period.                                     *)
TimelineLosesNothing ==
  Answered("timeline") /\ Timeline # Null =>
    /\ Total(Timeline) = Cardinality(got.rows)
    /\ request.end # Null => \A d \in DOMAIN Timeline :
         d <= DateTrunc(LocalDate(request.end - 1, request.tz), request.bucket)

(* Customers: a first visit is the first in the company, not in the scope,   *)
(* and the two queries agree unless a feedback was committed meanwhile.       *)
CustomersAddUp ==
  Answered("customers") =>
    /\ \A f \in VisitsOf("first"), g \in before.saved :
         CompanyOf(g) = Company /\ NotTest(g) /\ content[g].device = content[f].device
           => created[f] <= created[g]
    /\ before.saved = Saved =>
         /\ Cardinality(VisitsOf("first")) <= Cardinality(got.devices)
         /\ Cardinality(got.devices) <= Cardinality(VisitsOf("first")) + Cardinality(got.again)
         /\ Cardinality(got.again) <= Cardinality(VisitsOf("returning"))
=============================================================================
