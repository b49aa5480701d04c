----------------------------- MODULE InsightsJob -----------------------------
(***************************************************************************)
(* The body of processJob for the two job types in several steps:           *)
(* analyze_raw, and regenerate_insights, which may first analyse what is    *)
(* pending.  The checkpoint in options is the state machine: a snapshot cut *)
(* into batches, a cursor, the partial insights, the targets of the         *)
(* synthesis and its results; then the reports are published.               *)
(*                                                                         *)
(* All jobs here are of one scope of one company.  A batch is one feedback  *)
(* of the model, and the cursor is the set todo of batches that are left,   *)
(* taken in order.  Leases are those of IaJobQueue, of which Claim, Fenced  *)
(* and the ways to lose a lease are repeated with less detail.              *)
(*                                                                         *)
(* Time is only compared with the dates of analyses, so that an instant is  *)
(* the number of analyses stored so far: no two of them are stored at once, *)
(* and none at the instant at which a snapshot begins.                      *)
(*                                                                         *)
(* An operator F_Bug is F with a plausible bug.  No specification uses it:  *)
(* put in the place of F, it shows that the properties notice.              *)
(***************************************************************************)
EXTENDS Integers, FiniteSets

CONSTANTS Feedbacks,    \* ids, in the order of the batches
          Reports,      \* (scope_type, catalog_item_id)
          Jobs, Workers, NoJob,
          MinFeedbacks, \* MIN_FEEDBACKS_FOR_RELEVANT_ANALYSIS
          MaxFailures,  \* MAX_FAILURES
          MaxMishaps    \* bound: crashes, stalls, failed calls and statements

ASSUME FeedbacksAssumption == Feedbacks \subseteq Nat /\ IsFiniteSet(Feedbacks)
ASSUME BoundsAssumption ==
  /\ MinFeedbacks \in Nat \ {0} /\ MaxFailures \in Nat \ {0}
  /\ MaxMishaps \in Nat
ASSUME NoJobAssumption == NoJob \notin Jobs

VARIABLES
  reportOf, oneReport,                      \* the scope: see Init
  arrived, analyzedAt,                      \* feedback, feedback_analysis.created_at
  report,                                   \* feedback_insights_report
  status, kind, force, attempts, failures,  \* ia_analysis_job
  ck, done, total,
  pc, job, rev, mem, kept, count, size, fails, unpublished, \* a worker
  snapshot, published,                      \* history, see the properties
  mishaps

dataVars == <<arrived, analyzedAt>>
requestVars == <<kind, force, reportOf, oneReport>>
rowVars == <<status, attempts, failures, ck, done, total>>
copyVars == <<job, rev, mem, kept, count, size, fails>>
workerVars == <<pc, copyVars, unpublished>>
historyVars == <<snapshot, published>>
vars == <<dataVars, report, requestVars, rowVars, workerVars, historyVars, mishaps>>

Never == -1
Analyzed == {f \in arrived : analyzedAt[f] # Never}
Now == Cardinality(Analyzed)
Instants == 0 .. Cardinality(Feedbacks)
Steps == 0 .. Cardinality(Feedbacks) + Cardinality(Reports)
ReportsOf(fs) == {reportOf[f] : f \in fs}
Nothing == [f \in Feedbacks |-> 0]

Checkpoint(phase, batches, startedAt) ==
  [phase |-> phase, batches |-> batches, todo |-> batches, partial |-> Nothing,
   targets |-> {}, synthesized |-> {}, startedAt |-> startedAt]
NoCheckpoint == Checkpoint("none", {}, 0)

Checkpoints ==
  [phase : {"none", "analyzing", "generating", "synthesizing"},
   batches : SUBSET Feedbacks, todo : SUBSET Feedbacks, partial : [Feedbacks -> Nat],
   targets : SUBSET Reports, synthesized : SUBSET Reports, startedAt : Instants]

NoReport == [covers |-> {}, of |-> NoJob, date |-> Never]

Active(j) == status[j] \in {"queued", "running"}
Fenced_NoRevision(w) == status[job[w]] = "running"
Fenced(w) == status[job[w]] = "running" /\ attempts[job[w]] = rev[w]

TypeOK ==
  /\ reportOf \in [Feedbacks -> Reports] /\ oneReport \in BOOLEAN
  /\ arrived \subseteq Feedbacks
  /\ analyzedAt \in [Feedbacks -> {Never} \cup Instants]
  /\ report \in [Reports -> [covers : SUBSET Feedbacks, of : Jobs \cup {NoJob},
                             date : {Never} \cup Instants]]
  /\ status \in [Jobs -> {"none", "queued", "running", "completed", "failed"}]
  /\ kind \in [Jobs -> {"raw", "insights", "both"}]
  /\ force \in [Jobs -> BOOLEAN]
  /\ attempts \in [Jobs -> Nat] /\ failures \in [Jobs -> 0 .. MaxFailures]
  /\ ck \in [Jobs -> Checkpoints]
  /\ done \in [Jobs -> Steps] /\ total \in [Jobs -> Steps]
  /\ pc \in [Workers -> {"idle", "prepare", "savePrepared", "batch", "synthesize",
                         "saveStep", "requeue", "beginSynthesis", "confirm", "publish",
                         "complete", "retry", "abort"}]
  /\ job \in [Workers -> Jobs \cup {NoJob}]
  /\ rev \in [Workers -> Nat] /\ fails \in [Workers -> 0 .. MaxFailures]
  /\ mem \in [Workers -> Checkpoints] /\ kept \in [Workers -> Checkpoints]
  /\ count \in [Workers -> Steps] /\ size \in [Workers -> Steps]
  /\ unpublished \in [Workers -> SUBSET Reports]
  /\ snapshot \in [Jobs -> SUBSET Feedbacks] /\ published \in [Jobs -> SUBSET Reports]
  /\ mishaps \in 0 .. MaxMishaps

\* The scope names one report (COMPANY, or one item), or all the items of a
\* kind, each with a report of its own.
Init ==
  /\ reportOf \in [Feedbacks -> Reports] /\ oneReport \in BOOLEAN
  /\ oneReport => \A f, g \in Feedbacks : reportOf[f] = reportOf[g]
  /\ arrived = {}
  /\ analyzedAt = [f \in Feedbacks |-> Never]
  /\ report = [r \in Reports |-> NoReport]
  /\ status = [j \in Jobs |-> "none"]
  /\ kind = [j \in Jobs |-> "raw"] /\ force = [j \in Jobs |-> FALSE]
  /\ attempts = [j \in Jobs |-> 0] /\ failures = [j \in Jobs |-> 0]
  /\ ck = [j \in Jobs |-> NoCheckpoint]
  /\ done = [j \in Jobs |-> 0] /\ total = [j \in Jobs |-> 0]
  /\ pc = [w \in Workers |-> "idle"] /\ job = [w \in Workers |-> NoJob]
  /\ rev = [w \in Workers |-> 0] /\ fails = [w \in Workers |-> 0]
  /\ mem = [w \in Workers |-> NoCheckpoint] /\ kept = [w \in Workers |-> NoCheckpoint]
  /\ count = [w \in Workers |-> 0] /\ size = [w \in Workers |-> 0]
  /\ unpublished = [w \in Workers |-> {}]
  /\ snapshot = [j \in Jobs |-> {}] /\ published = [j \in Jobs |-> {}]
  /\ mishaps = 0

Mishap == mishaps < MaxMishaps /\ mishaps' = mishaps + 1

-----------------------------------------------------------------------------
(* Feedbacks arrive, jobs of other scopes analyse some of them, users ask    *)
(* for jobs (one active of a type, by the unique index).                     *)

Arrive(f) ==
  /\ f \notin arrived /\ arrived' = arrived \cup {f}
  /\ UNCHANGED <<analyzedAt, report, requestVars, rowVars, workerVars, historyVars,
                 mishaps>>

AnalyzedElsewhere(f) ==
  /\ f \in arrived /\ analyzedAt[f] = Never
  /\ analyzedAt' = [analyzedAt EXCEPT ![f] = Now + 1]
  /\ UNCHANGED <<arrived, report, requestVars, rowVars, workerVars, historyVars,
                 mishaps>>

Request(j) ==
  /\ status[j] = "none" /\ status' = [status EXCEPT ![j] = "queued"]
  /\ \E k \in {"raw", "insights", "both"} :
       /\ \A i \in Jobs : Active(i) => (kind[i] = "raw") # (k = "raw")
       /\ kind' = [kind EXCEPT ![j] = k]
  /\ \E b \in BOOLEAN : force' = [force EXCEPT ![j] = b]
  /\ UNCHANGED <<reportOf, oneReport>>
  /\ UNCHANGED <<dataVars, report, attempts, failures, ck, done, total, workerVars,
                 historyVars, mishaps>>

-----------------------------------------------------------------------------
(* Where processJob goes from a checkpoint.                                  *)

Step(j, c) ==
  CASE c.phase = "analyzing" /\ c.todo = {} /\ kind[j] = "both" -> "prepare"
    [] c.phase \in {"analyzing", "generating"} /\ c.todo # {}   -> "batch"
    [] c.phase = "synthesizing" /\ c.targets # {}               -> "synthesize"
    [] c.phase = "generating" /\ c.todo = {}                    -> "beginSynthesis"
    [] c.phase = "synthesizing" /\ c.targets = {}               -> "confirm"
    [] OTHER                                                    -> "complete"

AfterStep_Hurries(j, c) ==
  IF c.phase = "generating" THEN "beginSynthesis"
  ELSE IF Step(j, c) \in {"batch", "synthesize", "prepare"} THEN "requeue" ELSE Step(j, c)

\* After a step was saved the worker goes on only where no call is needed.
AfterStep(j, c) ==
  IF Step(j, c) \in {"batch", "synthesize", "prepare"} THEN "requeue" ELSE Step(j, c)

GoTo(w, label) == pc' = [pc EXCEPT ![w] = label]

Leave(w) ==
  /\ GoTo(w, "idle")
  /\ job' = [job EXCEPT ![w] = NoJob]
  /\ rev' = [rev EXCEPT ![w] = 0]
  /\ fails' = [fails EXCEPT ![w] = 0]
  /\ mem' = [mem EXCEPT ![w] = NoCheckpoint]
  /\ kept' = [kept EXCEPT ![w] = NoCheckpoint]
  /\ count' = [count EXCEPT ![w] = 0]
  /\ size' = [size EXCEPT ![w] = 0]
  /\ unpublished' = [unpublished EXCEPT ![w] = {}]

Claim(w, j) ==
  /\ pc[w] = "idle" /\ Active(j)
  /\ IF \E v \in Workers : pc[v] # "idle" /\ job[v] = j /\ Fenced(v)
       THEN Mishap ELSE UNCHANGED mishaps
  /\ GoTo(w, IF ck[j].phase = "none" THEN "prepare" ELSE Step(j, ck[j]))
  /\ status' = [status EXCEPT ![j] = "running"]
  /\ attempts' = [attempts EXCEPT ![j] = @ + 1]
  /\ job' = [job EXCEPT ![w] = j]
  /\ rev' = [rev EXCEPT ![w] = attempts[j] + 1]
  /\ mem' = [mem EXCEPT ![w] = ck[j]]
  /\ kept' = [kept EXCEPT ![w] = ck[j]]
  /\ count' = [count EXCEPT ![w] = done[j]]
  /\ size' = [size EXCEPT ![w] = total[j]]
  /\ fails' = [fails EXCEPT ![w] = failures[j]]
  /\ UNCHANGED <<dataVars, report, requestVars, failures, ck, done, total, unpublished,
                 historyVars>>

-----------------------------------------------------------------------------
(* Preparation.                                                              *)

\* prepareAnalyzeRawJob, or prepareInsightsJob: what to do next, and its size.
Pending == arrived \ Analyzed

\* A scope of several items is looked up by catalog_item_id IS NULL: there are
\* no such reports, so that a job of several reports is never answered from them.
Cached(j) ==
  /\ ~force[j] /\ oneReport
  /\ \A f \in Analyzed : \A g \in Analyzed : report[reportOf[f]].date >= analyzedAt[g]

Prepared(w) ==
  LET j == job[w]
      analyzing == kind[j] = "raw" \/ (kind[j] = "both" /\ mem[w].phase = "none")
  IN  IF analyzing THEN Checkpoint("analyzing", Pending, Now)
      ELSE IF Cached(j) THEN NoCheckpoint
      ELSE Checkpoint("generating", Analyzed, Now)

TooFew(w) ==
  LET j == job[w]
  IN  IF kind[j] = "raw" \/ (kind[j] = "both" /\ mem[w].phase = "none")
        THEN Pending # {} /\ Cardinality(arrived) < MinFeedbacks
        ELSE Cardinality(Analyzed) < MinFeedbacks

\* countInsightsJobSteps, or the feedbacks of the batches.
Size(c) == Cardinality(c.batches)
           + IF c.phase = "analyzing" THEN 0 ELSE Cardinality(ReportsOf(c.batches))

Prepare(w) ==
  /\ pc[w] = "prepare"
  /\ IF TooFew(w)
       THEN GoTo(w, "abort") /\ UNCHANGED <<mem, count, size>>
       ELSE /\ GoTo(w, "savePrepared")
            /\ mem' = [mem EXCEPT ![w] = Prepared(w)]
            /\ size' = [size EXCEPT ![w] = Size(Prepared(w))]
            /\ count' = [count EXCEPT ![w] = 0]
  /\ UNCHANGED <<dataVars, report, requestVars, rowVars, job, rev, kept, fails, unpublished,
                 historyVars, mishaps>>

-----------------------------------------------------------------------------
(* Saves.                                                                    *)

\* saveClaimedIaJob with what the worker holds.
Save(w, newStatus, newCk, newDone, newTotal, newFailures) ==
  /\ Fenced(w)
  /\ status' = [status EXCEPT ![job[w]] = newStatus]
  /\ ck' = [ck EXCEPT ![job[w]] = newCk]
  /\ done' = [done EXCEPT ![job[w]] = newDone]
  /\ total' = [total EXCEPT ![job[w]] = newTotal]
  /\ failures' = [failures EXCEPT ![job[w]] = newFailures]
  /\ UNCHANGED attempts

\* The acknowledgement may be lost: then the catch block runs with the copy
\* confirmed before.
Confirmed(w, label) ==
  \/ GoTo(w, label) /\ kept' = [kept EXCEPT ![w] = mem[w]] /\ UNCHANGED mishaps
  \/ GoTo(w, "abort") /\ Mishap /\ UNCHANGED kept

SavePrepared(w) ==
  /\ pc[w] = "savePrepared"
  /\ Save(w, "running", mem[w], count[w], size[w], failures[job[w]])
  /\ Confirmed(w, Step(job[w], mem[w]))
  /\ snapshot' = [snapshot EXCEPT ![job[w]] =
                    IF mem[w].phase = "generating" THEN mem[w].batches ELSE @]
  /\ UNCHANGED <<dataVars, report, requestVars, job, rev, mem, count, size, fails,
                 unpublished, published>>

SaveStep(w) ==
  /\ pc[w] = "saveStep"
  /\ Save(w, "running", mem[w], count[w], total[job[w]], 0)
  /\ Confirmed(w, AfterStep(job[w], mem[w]))
  /\ fails' = [fails EXCEPT ![w] = IF pc'[w] = "abort" THEN @ ELSE 0]
  /\ UNCHANGED <<dataVars, report, requestVars, job, rev, mem, count, size, unpublished,
                 historyVars>>

Requeue(w) ==
  /\ pc[w] = "requeue"
  /\ LET j == job[w] IN Save(w, "queued", ck[j], done[j], total[j], failures[j])
  /\ Leave(w)
  /\ UNCHANGED <<dataVars, report, requestVars, historyVars, mishaps>>

\* beginInsightsSynthesis, and back to the queue, in one save.
BeginSynthesis(w) ==
  /\ pc[w] = "beginSynthesis"
  /\ LET j == job[w]
         c == [mem[w] EXCEPT !.phase = "synthesizing",
                 !.targets = ReportsOf({f \in mem[w].batches : mem[w].partial[f] > 0})]
     IN  Save(w, "queued", c, count[w], Size(c), failures[j])
  /\ Leave(w)
  /\ UNCHANGED <<dataVars, report, requestVars, historyVars, mishaps>>

Complete(w) ==
  /\ pc[w] = "complete"
  /\ LET j == job[w]
     IN  Save(w, "completed", NoCheckpoint, done[j], total[j], failures[j])
  /\ Leave(w)
  /\ UNCHANGED <<dataVars, report, requestVars, historyVars, mishaps>>

\* The catch block writes the copy that was last confirmed.
SaveFailure(w) ==
  /\ pc[w] \in {"retry", "abort"}
  /\ LET j == job[w]
         again == pc[w] = "retry" /\ fails[w] + 1 < MaxFailures
     IN  Save(w, IF again THEN "queued" ELSE "failed", kept[w], done[j], total[j],
              fails[w] + 1)
  /\ Leave(w)
  /\ UNCHANGED <<dataVars, report, requestVars, historyVars, mishaps>>

LoseLease(w) ==
  /\ pc[w] \in {"savePrepared", "saveStep", "requeue", "beginSynthesis", "confirm",
                "complete", "retry", "abort"}
  /\ ~Fenced(w)
  /\ Leave(w)
  /\ UNCHANGED <<dataVars, report, requestVars, rowVars, historyVars, mishaps>>

-----------------------------------------------------------------------------
(* One call of the AI service per claim.                                     *)

NextBatch_Restarts(w, f) ==
  f \in mem[w].batches /\ mem[w].todo # {} /\ \A g \in mem[w].batches : f <= g
NextBatch(w, f) == f \in mem[w].todo /\ \A g \in mem[w].todo : f <= g

AnalyzeBatch_NotStored(w, f) ==
  /\ pc[w] = "batch" /\ mem[w].phase = "analyzing" /\ NextBatch(w, f)
  /\ mem' = [mem EXCEPT ![w].todo = @ \ {f}]
  /\ count' = [count EXCEPT ![w] = @ + 1]
  /\ GoTo(w, "saveStep")
  /\ UNCHANGED <<dataVars, report, requestVars, rowVars, job, rev, kept, size, fails,
                 unpublished, historyVars, mishaps>>

\* runOneBatch stores the analyses before the checkpoint knows of them; a
\* batch whose analyses are there already costs no call.
AnalyzeBatch(w, f) ==
  /\ pc[w] = "batch" /\ mem[w].phase = "analyzing" /\ NextBatch(w, f)
  /\ analyzedAt' = IF analyzedAt[f] = Never THEN [analyzedAt EXCEPT ![f] = Now + 1]
                                            ELSE analyzedAt
  /\ mem' = [mem EXCEPT ![w].todo = @ \ {f}]
  /\ count' = [count EXCEPT ![w] = @ + 1]
  /\ GoTo(w, "saveStep")
  /\ UNCHANGED <<arrived, report, requestVars, rowVars, job, rev, kept, size, fails,
                 unpublished, historyVars, mishaps>>

\* runInsightsBatch
GenerateBatch(w, f) ==
  /\ pc[w] = "batch" /\ mem[w].phase = "generating" /\ NextBatch(w, f)
  /\ mem' = [mem EXCEPT ![w].todo = @ \ {f}, ![w].partial[f] = @ + 1]
  /\ count' = [count EXCEPT ![w] = @ + 1]
  /\ GoTo(w, "saveStep")
  /\ UNCHANGED <<dataVars, report, requestVars, rowVars, job, rev, kept, size, fails,
                 unpublished, historyVars, mishaps>>

\* runInsightsSynthesis
Synthesize(w, r) ==
  /\ pc[w] = "synthesize" /\ r \in mem[w].targets
  /\ mem' = [mem EXCEPT ![w].targets = @ \ {r}, ![w].synthesized = @ \cup {r}]
  /\ count' = [count EXCEPT ![w] = @ + 1]
  /\ GoTo(w, "saveStep")
  /\ UNCHANGED <<dataVars, report, requestVars, rowVars, job, rev, kept, size, fails,
                 unpublished, historyVars, mishaps>>

\* All but the batches whose analyses are stored already.
NeedsCall(w) ==
  \/ pc[w] = "synthesize"
  \/ pc[w] = "batch" /\ \E f \in Feedbacks :
       NextBatch(w, f) /\ (mem[w].phase = "generating" \/ analyzedAt[f] = Never)

\* An error of the provider, which may be worth a retry, or any other error.
CallFails(w) ==
  /\ Mishap
  /\ \/ NeedsCall(w) /\ GoTo(w, "retry")
     \/ pc[w] \in {"prepare", "batch", "synthesize"} /\ GoTo(w, "abort")
  /\ UNCHANGED <<dataVars, report, requestVars, rowVars, copyVars, unpublished,
                 historyVars>>

\* waiting_budget, which is claimed again like a queued job.
BudgetExhausted(w) ==
  /\ Mishap
  /\ NeedsCall(w)
  /\ LET j == job[w] IN Save(w, "queued", ck[j], done[j], total[j], failures[j])
  /\ Leave(w)
  /\ UNCHANGED <<dataVars, report, requestVars, historyVars>>

-----------------------------------------------------------------------------
(* Publication.                                                              *)

\* save({}) confirms the lease; from here on nothing looks at it.
Confirm(w) ==
  /\ pc[w] = "confirm" /\ Fenced(w)
  /\ GoTo(w, "publish")
  /\ unpublished' = [unpublished EXCEPT ![w] = mem[w].synthesized]
  /\ UNCHANGED <<dataVars, report, requestVars, rowVars, copyVars, historyVars, mishaps>>

\* Upserts of upsertFeedbackInsightsReports.  An insert keeps the date of the
\* snapshot; on an update the trigger set_updated_at overwrites it.
Covers(c, r) == {f \in c.batches : c.partial[f] > 0 /\ reportOf[f] = r}
DateOf(w, r) == IF report[r] = NoReport THEN mem[w].startedAt ELSE Now

Upsert(w, rs) ==
  /\ report' = [r \in Reports |->
       IF r \in rs
         THEN [covers |-> Covers(mem[w], r), of |-> job[w], date |-> DateOf(w, r)]
         ELSE report[r]]
  /\ published' = [published EXCEPT ![job[w]] = @ \cup rs]

Publish(w, r) ==
  /\ pc[w] = "publish" /\ r \in unpublished[w]
  /\ Upsert(w, {r})
  /\ unpublished' = [unpublished EXCEPT ![w] = @ \ {r}]
  /\ GoTo(w, IF unpublished[w] = {r} THEN "complete" ELSE "publish")
  /\ UNCHANGED <<dataVars, requestVars, rowVars, copyVars, snapshot, mishaps>>

\* Upserts fail, the others go on, and the job fails.
PublishFails(w) ==
  /\ Mishap
  /\ pc[w] = "publish"
  /\ \E rs \in SUBSET unpublished[w] : rs # unpublished[w] /\ Upsert(w, rs)
  /\ GoTo(w, "abort")
  /\ UNCHANGED <<dataVars, requestVars, rowVars, copyVars, unpublished, snapshot>>

Crash(w) ==
  /\ Mishap
  /\ pc[w] # "idle"
  /\ Leave(w)
  /\ UNCHANGED <<dataVars, report, requestVars, rowVars, historyVars>>

Next ==
  \/ \E f \in Feedbacks : Arrive(f) \/ AnalyzedElsewhere(f)
  \/ \E j \in Jobs : Request(j)
  \/ \E w \in Workers, j \in Jobs : Claim(w, j)
  \/ \E w \in Workers, f \in Feedbacks : AnalyzeBatch(w, f) \/ GenerateBatch(w, f)
  \/ \E w \in Workers, r \in Reports : Synthesize(w, r) \/ Publish(w, r)
  \/ \E w \in Workers :
       \/ Prepare(w) \/ SavePrepared(w) \/ SaveStep(w) \/ Requeue(w) \/ BeginSynthesis(w)
       \/ Confirm(w) \/ Complete(w) \/ SaveFailure(w) \/ LoseLease(w)
       \/ CallFails(w) \/ BudgetExhausted(w) \/ PublishFails(w) \/ Crash(w)

Spec == Init /\ [][Next]_vars

-----------------------------------------------------------------------------
(* Properties.                                                               *)

StepsIn(c) == Cardinality(c.batches \ c.todo) + Cardinality(c.synthesized)

(* The synthesis gets the partial insights of every batch exactly once,      *)
(* although workers crash after a call and stalled workers repeat it.        *)
PartialsOnce ==
  \A j \in Jobs :
    ck[j].phase \in {"generating", "synthesizing"} =>
      \A f \in Feedbacks :
        ck[j].partial[f] = IF f \in ck[j].batches \ ck[j].todo THEN 1 ELSE 0

(* A batch is counted as analysed only when its analyses are stored, so that *)
(* the reports that follow in the same job include it; and the progress that *)
(* is shown, two columns written by four saves, is that of the checkpoint.   *)
CountedBatchesAreAnalyzed ==
  \A j \in Jobs :
    /\ ck[j].phase = "analyzing" => ck[j].batches \ ck[j].todo \subseteq Analyzed
    /\ Active(j) /\ ck[j].phase # "none" => done[j] = StepsIn(ck[j])
    /\ done[j] <= total[j] /\ (status[j] = "completed" => done[j] = total[j])

(* A published report covers a whole snapshot of its scope and item: it is   *)
(* published only after all batches, whatever was retried in between; and a  *)
(* job that ends as completed has published every report of its snapshot.    *)
ReportsAreWhole ==
  /\ \A r \in Reports :
       report[r] # NoReport =>
         /\ report[r].covers = {f \in snapshot[report[r].of] : reportOf[f] = r}
         /\ report[r].covers # {}
  /\ \A j \in Jobs : status[j] = "completed" => published[j] = ReportsOf(snapshot[j])

(* What a job has generated is never generated again: while it can go on,    *)
(* its snapshot stays, its cursor never goes back, and a failed synthesis    *)
(* resumes with the synthesis.                                               *)
GeneratedIsKept ==
  [][\A j \in Jobs :
       Active(j)' /\ ck[j].phase \in {"generating", "synthesizing"} =>
         /\ ck[j]'.batches = ck[j].batches
         /\ ck[j]'.todo \subseteq ck[j].todo
         /\ ck[j].synthesized \subseteq ck[j]'.synthesized
         /\ ck[j].phase = "synthesizing" => ck[j]'.phase = "synthesizing"]_vars

(* The operation manual on the date of a report: analyses that arrived while *)
(* a job ran are not hidden, that is, a job answered from the saved report   *)
(* finds in it every analysis there is.                                      *)
CacheHidesNothing ==
  [][\A w \in Workers :
       pc[w] = "prepare" /\ pc'[w] = "savePrepared" /\ mem'[w] = NoCheckpoint =>
         \A f \in Analyzed : f \in report[reportOf[f]].covers]_vars
=============================================================================
