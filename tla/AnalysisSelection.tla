-------------------------- MODULE AnalysisSelection --------------------------
(***************************************************************************)
(* What a job of analyze_raw sends to the AI: prepareAnalyzeRawJob selects  *)
(* the comments of a scope that have no analysis, oldest first, and cuts    *)
(* them into batches of one scope and item; then each batch is one call,    *)
(* whose answer is stored only if it covers the batch.  Meanwhile feedback  *)
(* arrives, and jobs of other scopes analyse the same comments.             *)
(*                                                                         *)
(* Leases, checkpoints and retries are InsightsJob.  The two queries of a   *)
(* scope are one step here and two in FeedbackViews, whose case they are.   *)
(* Rows are sets, since only a LIMIT and the cut of a batch look at their    *)
(* order; so are batches, whose order only matters to the cursor.           *)
(*                                                                         *)
(* An operator F_Bug is F with a plausible bug.  No specification uses it:  *)
(* put in the place of F, it shows that the properties notice.              *)
(***************************************************************************)
EXTENDS FeedbackTable

CONSTANTS
  Selections,        \* the requests, each with the contents of the feedbacks
  LastSelectionTick, \* bound: the clock
  MinFeedbacks,      \* MIN_FEEDBACKS_FOR_RELEVANT_ANALYSIS
  MaxPerBatch        \* IA_MAX_FEEDBACKS_PER_BATCH

ASSUME SelectionsAssumption ==
  /\ \A s \in Selections : /\ CanStart(s) /\ s.job.item \in Items \cup {Null}
                         /\ s.job.scope \in Kinds \cup {"COMPANY", Null}
                         /\ s.job.limit \in (Nat \ {0}) \cup {Null}
  /\ MinFeedbacks \in Nat /\ MaxPerBatch \in Nat \ {0}

VARIABLES
  job,       \* [scope, item, limit]
  at,        \* "new", "pending", "count", "recheck", "batches", "done", "nothing",
             \* "refused", "failed"
  selected,  \* the comments
  batches,   \* those left: [scope, item, feedbacks]
  asked      \* history: when the job began: the comments of the scope, and what had been analysed

selectionVars == <<job, at, selected, batches, asked>>

SelectionInit ==
  /\ \E s \in Selections : job = s.job /\ TableInit(s)
  /\ at = "new" /\ selected = {} /\ batches = {}
  /\ asked = [comments |-> {}, analyzed |-> {}]

-----------------------------------------------------------------------------
ItemOfFeedback(f) == ItemOf[content[f].point]
ScopeOf(f) == IF ItemOfFeedback(f) = Null THEN "COMPANY" ELSE KindOf[ItemOfFeedback(f)]

\* resolveScopeCollectionPointIds
ScopePoints ==
  CASE job.scope = Null /\ job.item = Null -> Null
    [] job.scope = "COMPANY" /\ job.item # Null -> {}
    [] job.scope = "COMPANY" /\ job.item = Null -> PointsOfItem(Company, Null)
    [] job.scope # "COMPANY" /\ job.item # Null ->
         IF job.scope # Null /\ job.item \notin ItemsOfKind(Company, job.scope) THEN {}
         ELSE PointsOfItem(Company, job.item)
    [] OTHER -> LET items == ItemsOfKind(Company, job.scope)
                IN  IF items = {} THEN {} ELSE PointsOfItems(Company, items)

ScopeComments == IF ScopePoints = {} THEN {}
            ELSE {f \in ScopedFeedbackWhere(Company, ScopePoints, Null, Null) : HasComment(f)}

\* ORDER BY created_at, id, newest first unless only the pending are wanted.
Older(f, g) == created[f] < created[g] \/ (created[f] = created[g] /\ f < g)
Newer(f, g) == created[f] > created[g] \/ (created[f] = created[g] /\ f < g)

Before(f, rows) == {g \in rows : Older(g, f)}
Oldest(rows, limit) ==
  IF limit = Null THEN rows ELSE {f \in rows : Cardinality(Before(f, rows)) < limit}

PendingRows_LimitedFirst(limit) == Oldest(ScopeComments, limit) \ analyzed
PendingRows(limit) == Oldest(ScopeComments \ analyzed, limit)
ScopeRows(limit) == {f \in ScopeComments : Cardinality({g \in ScopeComments : Newer(g, f)}) < limit}

\* applyExecutionFilter
Passes(f) ==
  CASE job.scope = "COMPANY" -> ScopeOf(f) = "COMPANY"
    [] OTHER -> /\ job.scope # Null => ScopeOf(f) = job.scope
                /\ job.item # Null => ItemOfFeedback(f) = job.item
applyExecutionFilter(rows) == {f \in rows : Passes(f)}

\* buildScopeBatches; a feedback without item is of the company.
buildScopeBatches(rows) ==
  {[scope |-> ScopeOf(f), item |-> ItemOfFeedback(f),
    feedbacks |-> {g \in rows : ScopeOf(g) = ScopeOf(f) /\ ItemOfFeedback(g) = ItemOfFeedback(f)}] :
     f \in applyExecutionFilter(rows)}

\* chunkBatchesBySize: the oldest first.
Chunk(f, rows) == Cardinality(Before(f, rows)) \div MaxPerBatch
chunkBatchesBySize(bs) ==
  UNION {{[b EXCEPT !.feedbacks = {g \in b.feedbacks : Chunk(g, b.feedbacks) = Chunk(f, b.feedbacks)}] :
            f \in b.feedbacks} : b \in bs}

-----------------------------------------------------------------------------
BeginSelection ==
  /\ at = "new" /\ at' = "pending" /\ asked' = [comments |-> ScopeComments, analyzed |-> analyzed]
  /\ UNCHANGED <<job, selected, batches, tableVars>>

FetchPending ==
  /\ at = "pending"
  /\ selected' = applyExecutionFilter(PendingRows(job.limit))
  /\ at' = CASE selected' = {} -> "nothing"
             [] selected' # {} /\ Cardinality(selected') < MinFeedbacks -> "count"
             [] OTHER -> "recheck"
  /\ UNCHANGED <<job, batches, asked, tableVars>>

\* The minimum is asked of the scope, not of what is pending.
CountScope ==
  /\ at = "count"
  /\ at' = IF Cardinality(applyExecutionFilter(ScopeRows(MinFeedbacks))) < MinFeedbacks
             THEN "refused" ELSE "recheck"
  /\ UNCHANGED <<job, selected, batches, asked, tableVars>>

\* fetchAlreadyAnalyzedFeedbackIds, and the batches of what is left.
Recheck ==
  /\ at = "recheck"
  /\ selected' = selected \ analyzed
  /\ batches' = chunkBatchesBySize(buildScopeBatches(selected'))
  /\ at' = IF batches' = {} THEN "nothing" ELSE "batches"
  /\ UNCHANGED <<job, asked, tableVars>>

\* assertCompleteAnalyses: the ids of an answer, one by one.
Complete(answer, expected) ==
  /\ \A i \in DOMAIN answer : answer[i] \in expected /\ \A k \in 1 .. i - 1 : answer[k] # answer[i]
  /\ Cardinality(DOMAIN answer) = Cardinality(expected)

\* The answers of the AI: ids missing, repeated, unknown.
Answers(expected) == UNION {[1 .. n -> expected \cup {Null}] : n \in 0 .. Cardinality(expected) + 1}

\* What others analysed since is not sent; what is stored twice stays as it is.
RunBatch(b) ==
  /\ at = "batches"
  /\ LET sent == b.feedbacks \ analyzed
     IN  \/ sent = {} /\ batches' = batches \ {b} /\ UNCHANGED <<analyzed, at>>
         \/ \E answer \in Answers(sent) :
              IF Complete(answer, sent)
                THEN /\ analyzed' = analyzed \cup {answer[i] : i \in DOMAIN answer}
                     /\ batches' = batches \ {b} /\ UNCHANGED at
                ELSE at' = "failed" /\ UNCHANGED <<analyzed, batches>>
  /\ UNCHANGED <<job, selected, asked, content, life, created, made, clock>>

FinishSelection ==
  /\ at = "batches" /\ batches = {} /\ at' = "done"
  /\ UNCHANGED <<job, selected, batches, asked, tableVars>>

SelectionNext ==
  \/ at \in {"new", "pending", "count", "recheck", "batches"} /\ Write(LastSelectionTick)
     /\ UNCHANGED selectionVars
  \/ BeginSelection \/ FetchPending \/ CountScope \/ Recheck \/ FinishSelection
  \/ \E b \in batches : RunBatch(b)

SelectionSpec == SelectionInit /\ [][SelectionNext]_<<tableVars, selectionVars>>

-----------------------------------------------------------------------------
(* A job that ends without failing leaves no comment of its scope behind     *)
(* that was there when it began: none at all without a limit, and with one   *)
(* none that is older than a comment it selected.  There is nothing to do    *)
(* only if nothing was pending, or another job analysed comments since.  It  *)
(* refuses only a scope that had too few comments, and no comment is in two  *)
(* batches.                                                                  *)
NothingPendingIsLeft ==
  /\ at \in {"done", "nothing"} =>
       \A f \in asked.comments \ analyzed :
         job.limit # Null /\ \A g \in selected : Older(g, f)
  /\ at = "nothing" /\ analyzed = asked.analyzed => asked.comments \subseteq analyzed
  /\ at = "done" => selected \subseteq analyzed
  /\ at = "refused" => Cardinality(asked.comments) < MinFeedbacks
  /\ \A b, c \in batches : b # c => b.feedbacks \cap c.feedbacks = {}
=============================================================================
