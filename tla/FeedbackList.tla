---------------------------- MODULE FeedbackList ----------------------------
(***************************************************************************)
(* The list of feedbacks (GET /feedbacks): a manager who walks its pages    *)
(* from the first to the last while feedback keeps arriving.  Each request  *)
(* resolves the filter, counts, and reads one page by offset, newest first; *)
(* rows of one instant come in any order, another for each query.  The tests *)
(* of the owner are listed too.                                             *)
(*                                                                         *)
(* An operator F_Bug is F with a plausible bug.  No specification uses it:  *)
(* put in the place of F, it shows that the properties notice.              *)
(***************************************************************************)
EXTENDS FeedbackTable

CONSTANTS
  Walks,        \* the filters, each with the contents of the feedbacks
  LastListTick, \* bound: the clock
  Limit         \* of a page

ASSUME WalksAssumption ==
  /\ \A w \in Walks : /\ CanStart(w) /\ w.filter.category \in Kinds \cup {"COMPANY", Null}
                      /\ w.filter.named = Null \/ w.filter.named \subseteq Items
  /\ Limit \in Nat \ {0}

VARIABLES
  filter,    \* [category, named]: a kind or COMPANY; the items the text matches, or Null
  step,      \* "idle", "items", "points", "count", "page", "enrich", "done", "failed"
  page, total,
  listIds, listItems,
  answer,    \* ids of the page
  news,      \* history: what was saved at the count; then, what came before the page
  shown,     \* history: what the manager has seen
  atStart    \* history: what was saved when the walk began

listVars == <<filter, step, page, total, listIds, listItems, answer, news, shown, atStart>>

ListInit ==
  /\ \E w \in Walks : filter = w.filter /\ TableInit(w)
  /\ step = "idle" /\ page = 1 /\ total = 0 /\ listIds = Null /\ listItems = {}
  /\ answer = {} /\ news = {} /\ shown = {} /\ atStart = {}

-----------------------------------------------------------------------------
Keep(others) == UNCHANGED <<filter, shown, atStart, others, tableVars>>

Open ==
  /\ step = "idle"
  /\ step' = "items" /\ atStart' = Saved
  /\ UNCHANGED <<filter, page, total, listIds, listItems, answer, news, shown, tableVars>>

\* resolveCategoryCollectionPointIds.
NoFilter ==
  /\ step = "items" /\ filter.category = Null /\ filter.named = Null
  /\ listIds' = Null /\ step' = "count"
  /\ Keep(<<page, total, listItems, answer, news>>)

\* No point can match: an empty page, and there is no other.
NothingToList(how) ==
  /\ how /\ listIds' = {} /\ answer' = {} /\ total' = 0 /\ step' = "done"
  /\ Keep(<<page, listItems, news>>)

Named == {i \in Items \cap made : /\ Owner[i] = Company
                                  /\ filter.category # Null => KindOf[i] = filter.category
                                  /\ filter.named # Null => i \in filter.named}

ItemsOfFilter ==
  /\ step = "items" /\ <<filter.category, filter.named>> # <<Null, Null>>
  /\ \/ NothingToList(IF filter.category = "COMPANY" THEN filter.named # Null ELSE Named = {})
     \/ /\ IF filter.category = "COMPANY" THEN filter.named = Null ELSE Named # {}
        /\ listItems' = Named /\ step' = "points"
        /\ Keep(<<page, total, listIds, answer, news>>)

PointsOfFilter ==
  /\ step = "points"
  /\ LET points == IF filter.category = "COMPANY" THEN PointsOfItem(Company, Null)
                   ELSE PointsOfItems(Company, listItems)
     IN  \/ NothingToList(points = {})
         \/ /\ points # {} /\ listIds' = points /\ step' = "count"
            /\ Keep(<<page, total, listItems, answer, news>>)

\* buildListWhere: the tests of the owner are included.
Listed(pts) == {f \in Saved : /\ CompanyOf(f) = Company
                              /\ pts \notin {Null, {}} => content[f].point \in pts}

countScopedFeedbacks_WithoutTests ==
  /\ step = "count"
  /\ total' = Cardinality({f \in Listed(listIds) : NotTest(f)}) /\ step' = "page" /\ news' = Saved
  /\ Keep(<<page, listIds, listItems, answer>>)

countScopedFeedbacks ==
  /\ step = "count"
  /\ total' = Cardinality(Listed(listIds)) /\ step' = "page" /\ news' = Saved
  /\ Keep(<<page, listIds, listItems, answer>>)

\* ORDER BY created_at DESC, and nothing that separates equal instants.
Orders(set) ==
  {q \in [1 .. Cardinality(set) -> set] :
     \A i, j \in DOMAIN q : i < j => q[i] # q[j] /\ created[q[i]] >= created[q[j]]}

fetchScopedFeedbackPage ==
  /\ step = "page"
  /\ \E q \in Orders(Listed(listIds)) :
       answer' = {q[i] : i \in {k \in DOMAIN q : (page - 1) * Limit < k /\ k <= page * Limit}}
  /\ step' = "enrich" /\ news' = Saved \ news
  /\ UNCHANGED <<filter, page, total, listIds, listItems, shown, atStart, tableVars>>

TotalPages == (total + Limit - 1) \div Limit

\* The answers of the page and the names of its items are read, the page is
\* sent, and the manager goes on while there is a next one.
SendPage ==
  /\ step = "enrich"
  /\ shown' = shown \cup answer
  /\ IF page < TotalPages THEN page' = page + 1 /\ step' = "items"
     ELSE step' = "done" /\ UNCHANGED page
  /\ UNCHANGED <<filter, total, listIds, listItems, answer, news, atStart, tableVars>>

QueryFails ==
  /\ step \in {"items", "points", "count", "page", "enrich"}
  /\ step' = "failed"
  /\ UNCHANGED <<filter, page, total, listIds, listItems, answer, news, shown, atStart, tableVars>>

ListNext ==
  \/ step \notin {"done", "failed"} /\ Write(LastListTick) /\ UNCHANGED listVars
  \/ Open \/ NoFilter \/ ItemsOfFilter \/ PointsOfFilter
  \/ countScopedFeedbacks \/ fetchScopedFeedbackPage \/ SendPage \/ QueryFails

ListSpec == ListInit /\ [][ListNext]_<<tableVars, listVars>>

-----------------------------------------------------------------------------
\* What the filter means, whatever points it became.
Wanted(f) ==
  LET item == ItemOf[content[f].point] IN
  /\ CompanyOf(f) = Company
  /\ filter.category = "COMPANY" => item = Null
  /\ filter.category \in Kinds => item # Null /\ KindOf[item] = filter.category
  /\ filter.named # Null => item \in filter.named

(* A walk of the pages shows only what the filter means, and everything that *)
(* was there when it began: what arrives meanwhile moves rows to later pages *)
(* and not out of sight.  Two rows may be missed: one with the created_at of *)
(* another, since their order is not fixed, and the last ones when feedback  *)
(* came between the count and the page of the last request, whose count      *)
(* then says that there is no next page.                                     *)
WalkShowsTheList ==
  step = "done" =>
    /\ \A f \in shown : Wanted(f)
    /\ \A f \in {g \in atStart : Wanted(g)} :
         f \in shown \/ news # {} \/ \E twin \in Saved \ {f} : created[twin] = created[f]
=============================================================================
