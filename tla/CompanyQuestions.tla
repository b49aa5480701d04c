-------------------------- MODULE CompanyQuestions --------------------------
(***************************************************************************)
(* The three COMPANY questions of one company, and the two parties that     *)
(* write them: the manager who saves the profile (saveCollectingDataPatch,  *)
(* saveCollectingDataUpsert), and the job generate_company_questions, which *)
(* replaces the default questions by generated ones                        *)
(* (applyCompanyQuestionsIfDefault).  A save of the profile also asks for   *)
(* that job (autoGenerateCompanyQuestions).                                *)
(*                                                                         *)
(* Transactions are READ COMMITTED: a statement sees what is committed, and *)
(* waits for the row locks it needs.  The locks that matter are those of    *)
(* the collecting_data row, of the enterprise row (FOR UPDATE by apply and  *)
(* enqueue, FOR KEY SHARE by the insert of a catalog item or of a question) *)
(* and of the question rows, which are always written together and in the   *)
(* same order, so that one lock and one value stand for the three.  A       *)
(* company from before the default questions has no rows: then the lock is  *)
(* that of the keys in their unique index, taken by the insert.             *)
(*                                                                         *)
(* The lease of the job is that of IaJobQueue, here with a single step.     *)
(*                                                                         *)
(* An operator F_Bug is F with a plausible bug.  No specification uses it:  *)
(* put in the place of F, it shows that the properties notice.              *)
(***************************************************************************)
EXTENDS Integers, FiniteSets

CONSTANTS Sessions,     \* requests of the manager: saves, and "try again"
          Jobs,         \* jobs generate_company_questions
          Workers,
          Nobody, NoJob,
          DailyLimit,   \* IA_QUESTION_SUGGESTIONS_MAX_PER_DAY
          MaxMishaps    \* bound: crashes, stalls and errors of workers

ASSUME NobodyAssumption == Nobody \notin Sessions \cup Workers /\ NoJob \notin Jobs
ASSUME DistinctAssumption == Sessions \cap Workers = {}
ASSUME LimitAssumption == DailyLimit \in Nat \ {0} /\ MaxMishaps \in Nat

VARIABLES
  questions,                         \* the committed rows
  collecting, owner, sharers, rows,  \* who holds which lock
  status, attempts, applied,         \* columns of the jobs; applied is in options
  today, cooling,                    \* jobs of the last 24 hours; the cooldown
  spc, draft, newItem,               \* a session, and what it saves
  wpc, job, rev, outcome,            \* a worker
  edited, late,                      \* history, see the properties
  mishaps

lockVars == <<collecting, owner, sharers, rows>>
jobVars == <<status, attempts, applied>>
quotaVars == <<today, cooling>>
sessionVars == <<spc, draft, newItem>>
workerVars == <<wpc, job, rev, outcome>>
historyVars == <<edited, late>>
vars == <<questions, lockVars, jobVars, quotaVars, sessionVars, workerVars,
          historyVars, mishaps>>

None == <<"none">>                   \* no rows
Default == <<"default">>             \* the default texts
Sub == <<"subquestion">>             \* the default texts, with an active subquestion
User == <<"user">>                   \* texts of the manager
Same == <<"same">>                   \* a save that does not name the questions
Ai(j, n) == <<"ai", j, n>>
IsEdit(q) == q \in {User, Sub}
IsAi(q) == q \notin {None, Default, User, Sub}

Active(j) == status[j] \in {"queued", "running"}
Fenced(w) == status[job[w]] = "running" /\ attempts[job[w]] = rev[w]

TypeOK ==
  /\ questions \in {None, Default, Sub, User} \cup {Ai(j, n) : j \in Jobs, n \in 1 .. MaxMishaps + 1}
  /\ collecting \in Sessions \cup {Nobody}
  /\ owner \in Sessions \cup Workers \cup {Nobody}
  /\ rows \in Sessions \cup Workers \cup {Nobody}
  /\ sharers \subseteq Sessions
  /\ status \in [Jobs -> {"none", "queued", "running", "completed", "failed"}]
  /\ attempts \in [Jobs -> 0 .. MaxMishaps + 1]
  /\ applied \in [Jobs -> {"unset", "true", "false"}]
  /\ today \subseteq Jobs /\ cooling \in BOOLEAN
  /\ spc \in [Sessions -> {"new", "catalog", "questions", "key", "parent", "commit",
                           "latest", "default", "subs", "enqueue", "count", "insert",
                           "done"}]
  /\ draft \in [Sessions -> {Default, Sub, User, Same}]
  /\ newItem \in [Sessions -> BOOLEAN]
  /\ wpc \in [Workers -> {"idle", "call", "apply", "texts", "subs", "write",
                          "commit", "save", "fail"}]
  /\ job \in [Workers -> Jobs \cup {NoJob}]
  /\ rev \in [Workers -> 0 .. MaxMishaps + 1]
  /\ outcome \in [Workers -> {"unset", "true", "false"}]
  /\ edited \in BOOLEAN /\ late \subseteq Workers
  /\ mishaps \in 0 .. MaxMishaps

Init ==
  /\ questions \in {None, Default}
  /\ collecting = Nobody /\ owner = Nobody /\ sharers = {} /\ rows = Nobody
  /\ status = [j \in Jobs |-> "none"]
  /\ attempts = [j \in Jobs |-> 0]
  /\ applied = [j \in Jobs |-> "unset"]
  /\ today = {} /\ cooling = FALSE
  /\ spc = [s \in Sessions |-> "new"]
  /\ draft = [s \in Sessions |-> Same]
  /\ newItem = [s \in Sessions |-> FALSE]
  /\ wpc = [w \in Workers |-> "idle"]
  /\ job = [w \in Workers |-> NoJob]
  /\ rev = [w \in Workers |-> 0]
  /\ outcome = [w \in Workers |-> "unset"]
  /\ edited = FALSE /\ late = {}
  /\ mishaps = 0

-----------------------------------------------------------------------------
(* Locks.  Released at the end of the transaction, however it ends.          *)

Share(s) == owner = Nobody /\ sharers' = sharers \cup {s}
LockCompany_None(p) == UNCHANGED owner
LockCompany(p) == owner = Nobody /\ sharers = {} /\ owner' = p
LockRows(p) == rows \in {Nobody, p} /\ rows' = p

Without(lock, p) == IF lock = p THEN Nobody ELSE lock
Release(p) ==
  /\ collecting' = Without(collecting, p)
  /\ owner' = Without(owner, p)
  /\ rows' = Without(rows, p)
  /\ sharers' = sharers \ {p}

-----------------------------------------------------------------------------
(* A session.  First the transaction of saveCollectingDataPatch or -Upsert:  *)
(* the collecting_data row, then runSyncPlanTx.                              *)

At(s, label) == spc[s] = label
Then(s, label) == spc' = [spc EXCEPT ![s] = label]

\* The transaction of a save is over, and what it saved is out of scope.
EndSave(s) ==
  /\ Release(s)
  /\ draft' = [draft EXCEPT ![s] = Same]
  /\ newItem' = [newItem EXCEPT ![s] = FALSE]

BeginSave(s) ==
  /\ At(s, "new") /\ Then(s, "catalog")
  /\ collecting = Nobody /\ collecting' = s
  /\ \E d \in {Default, Sub, User, Same} : draft' = [draft EXCEPT ![s] = d]
  /\ \E n \in BOOLEAN : newItem' = [newItem EXCEPT ![s] = n]
  /\ UNCHANGED <<questions, owner, sharers, rows, jobVars, quotaVars, workerVars,
                 historyVars, mishaps>>

SyncCatalog_QuestionsFirst(s) ==
  /\ At(s, "catalog")
  /\ IF draft[s] # Same /\ rows # s
       THEN LockRows(s) /\ UNCHANGED <<spc, sharers>>
       ELSE /\ Then(s, "questions") /\ UNCHANGED rows
            /\ IF newItem[s] THEN Share(s) ELSE UNCHANGED sharers
  /\ UNCHANGED <<questions, collecting, owner, jobVars, quotaVars, draft, newItem,
                 workerVars, historyVars, mishaps>>

\* syncCatalogItemsTx: the foreign key of a new item locks the enterprise.
SyncCatalog(s) ==
  /\ At(s, "catalog") /\ Then(s, "questions")
  /\ IF newItem[s] THEN Share(s) ELSE UNCHANGED sharers
  /\ UNCHANGED <<questions, collecting, owner, rows, jobVars, quotaVars, draft, newItem,
                 workerVars, historyVars, mishaps>>

\* syncCompanyQuestionsTx: an UPDATE, which waits for nothing when it finds no row.
SyncQuestions(s) ==
  /\ At(s, "questions")
  /\ \/ draft[s] = Same /\ Then(s, "commit") /\ UNCHANGED rows
     \/ draft[s] # Same /\ questions # None /\ Then(s, "commit") /\ LockRows(s)
     \/ draft[s] # Same /\ questions = None /\ Then(s, "key") /\ UNCHANGED rows
  /\ UNCHANGED <<questions, collecting, owner, sharers, jobVars, quotaVars, draft,
                 newItem, workerVars, historyVars, mishaps>>

\* Then the INSERT.  It waits for whoever is inserting the same keys, and fails
\* with CollectingWriteError when they are committed.
InsertQuestions(s) ==
  /\ At(s, "key") /\ rows = Nobody
  /\ IF questions = None
       THEN Then(s, "parent") /\ rows' = s /\ UNCHANGED <<collecting, owner, sharers, draft, newItem>>
       ELSE Then(s, "done") /\ EndSave(s)
  /\ UNCHANGED <<questions, jobVars, quotaVars, workerVars, historyVars, mishaps>>

\* The keys taken, the foreign key of the new questions locks the enterprise.
ShareCompany(s) ==
  /\ At(s, "parent") /\ Then(s, "commit")
  /\ Share(s)
  /\ UNCHANGED <<questions, collecting, owner, rows, jobVars, quotaVars, draft, newItem,
                 workerVars, historyVars, mishaps>>

\* The worker is past the statement that would have shown it this edit.
HasRead(w, edit) ==
  \/ edit = User /\ wpc[w] \in {"subs", "write"}
  \/ edit = Sub /\ wpc[w] = "write"

\* A PATCH that does not touch the context does not ask for a generation.
CommitSave(s) ==
  /\ At(s, "commit") /\ (Then(s, "latest") \/ Then(s, "done"))
  /\ questions' = IF draft[s] = Same THEN questions ELSE draft[s]
  /\ EndSave(s)
  /\ edited' = (edited \/ IsEdit(draft[s]))
  /\ late' = late \cup {w \in Workers : HasRead(w, draft[s])}
  /\ UNCHANGED <<jobVars, quotaVars, workerVars, mishaps>>

\* A statement of the transaction fails: CollectingWriteError or an error 500,
\* the one PostgreSQL gives to end a deadlock included.
AbortSave(s) ==
  /\ spc[s] \in {"catalog", "questions", "key", "parent", "commit"} /\ Then(s, "done")
  /\ EndSave(s)
  /\ UNCHANGED <<questions, jobVars, quotaVars, workerVars, historyVars, mishaps>>

(* Then autoGenerateCompanyQuestions; "try again" and a new model start here. *)

Retry(s) ==
  /\ At(s, "new") /\ Then(s, "latest")
  /\ UNCHANGED <<questions, lockVars, jobVars, quotaVars, draft, newItem, workerVars,
                 historyVars, mishaps>>

\* getLatestCompanyQuestionsJobStatus
ReadLatest(s) ==
  /\ At(s, "latest")
  /\ Then(s, IF \E j \in Jobs : Active(j) \/ status[j] = "completed"
                THEN "done" ELSE "default")
  /\ UNCHANGED <<questions, lockVars, jobVars, quotaVars, draft, newItem, workerVars,
                 historyVars, mishaps>>

\* hasDefaultCompanyQuestions: the texts, and then the subquestions.  The context
\* and the model of the company, which are read next, may be missing.
ReadDefault(s) ==
  /\ At(s, "default")
  /\ \/ questions = None /\ Then(s, "enqueue")
     \/ questions \in {Default, Sub} /\ Then(s, "subs")
     \/ Then(s, "done")
  /\ UNCHANGED <<questions, lockVars, jobVars, quotaVars, draft, newItem, workerVars,
                 historyVars, mishaps>>

ReadDefaultSubs(s) ==
  /\ At(s, "subs")
  /\ \/ questions # Sub /\ Then(s, "enqueue")
     \/ Then(s, "done")
  /\ UNCHANGED <<questions, lockVars, jobVars, quotaVars, draft, newItem, workerVars,
                 historyVars, mishaps>>

(* enqueueCompanyQuestionSuggestions: one transaction under the company lock. *)

BeginEnqueue(s) ==
  /\ At(s, "enqueue") /\ Then(s, "count")
  /\ LockCompany(s)
  /\ UNCHANGED <<questions, collecting, sharers, rows, jobVars, quotaVars, draft, newItem,
                 workerVars, historyVars, mishaps>>

\* Deduplicated (or 409), rate limited (429), or free to insert.
CountJobs(s) ==
  /\ At(s, "count")
  /\ IF (\E j \in Jobs : Active(j)) \/ cooling \/ Cardinality(today) >= DailyLimit
       THEN Then(s, "done") /\ Release(s)
       ELSE Then(s, "insert") /\ UNCHANGED lockVars
  /\ UNCHANGED <<questions, jobVars, quotaVars, draft, newItem, workerVars, historyVars,
                 mishaps>>

InsertJob(s) ==
  /\ At(s, "insert") /\ Then(s, "done")
  /\ \E j \in Jobs :
       /\ status[j] = "none"
       /\ status' = [status EXCEPT ![j] = "queued"]
       /\ today' = today \cup {j}
  /\ cooling' = TRUE
  /\ Release(s)
  /\ UNCHANGED <<questions, attempts, applied, draft, newItem, workerVars, historyVars,
                 mishaps>>

-----------------------------------------------------------------------------
(* A worker with a job generate_company_questions.                           *)

GoTo(w, label) == wpc' = [wpc EXCEPT ![w] = label]
Mishap == mishaps < MaxMishaps /\ mishaps' = mishaps + 1

Leave(w) ==
  /\ GoTo(w, "idle")
  /\ job' = [job EXCEPT ![w] = NoJob]
  /\ rev' = [rev EXCEPT ![w] = 0]
  /\ outcome' = [outcome EXCEPT ![w] = "unset"]
  /\ late' = late \ {w}

\* A running job is claimed again when its worker crashed, or stalled for as
\* long as the lease.
Claim(w, j) ==
  /\ wpc[w] = "idle" /\ GoTo(w, "call")
  /\ Active(j)
  /\ IF \E v \in Workers : wpc[v] # "idle" /\ job[v] = j /\ Fenced(v)
       THEN Mishap ELSE UNCHANGED mishaps
  /\ status' = [status EXCEPT ![j] = "running"]
  /\ attempts' = [attempts EXCEPT ![j] = @ + 1]
  /\ job' = [job EXCEPT ![w] = j]
  /\ rev' = [rev EXCEPT ![w] = attempts[j] + 1]
  /\ UNCHANGED <<questions, lockVars, applied, quotaVars, sessionVars, outcome,
                 historyVars>>

\* The context, the budget and the call of the AI service.
CallAi(w) ==
  /\ wpc[w] = "call"
  /\ \/ GoTo(w, "apply") /\ UNCHANGED mishaps
     \/ GoTo(w, "fail") /\ Mishap
  /\ UNCHANGED <<questions, lockVars, jobVars, quotaVars, sessionVars, job, rev, outcome,
                 historyVars>>

(* applyCompanyQuestionsIfDefault: nothing in it asks whether the lease of    *)
(* the job is still held.                                                    *)

BeginApply(w) ==
  /\ wpc[w] = "apply" /\ GoTo(w, "texts")
  /\ LockCompany(w)
  /\ UNCHANGED <<questions, collecting, sharers, rows, jobVars, quotaVars, sessionVars,
                 job, rev, outcome, historyVars, mishaps>>

\* return false: the transaction ends without a write.
NotDefault(w) ==
  /\ GoTo(w, "save") /\ Release(w)
  /\ outcome' = [outcome EXCEPT ![w] = "false"]

ReadTexts_Any(w) ==
  /\ wpc[w] = "texts" /\ GoTo(w, "write")
  /\ UNCHANGED <<questions, lockVars, jobVars, quotaVars, sessionVars, job, rev, outcome,
                 historyVars, mishaps>>

\* hasDefaultCompanyQuestionsIn: one statement for the texts and one for the
\* subquestions, each of which sees what is committed when it runs.
ReadTexts(w) ==
  /\ wpc[w] = "texts"
  /\ \/ questions = None /\ GoTo(w, "write") /\ UNCHANGED <<lockVars, outcome>>
     \/ questions \in {Default, Sub} /\ GoTo(w, "subs") /\ UNCHANGED <<lockVars, outcome>>
     \/ questions \notin {None, Default, Sub} /\ NotDefault(w)
  /\ UNCHANGED <<questions, jobVars, quotaVars, sessionVars, job, rev, historyVars,
                 mishaps>>

\* The edited texts of a manager may have subquestions too.
ReadSubquestions(w) ==
  /\ wpc[w] = "subs"
  /\ \/ questions # Sub /\ GoTo(w, "write") /\ UNCHANGED <<lockVars, outcome>>
     \/ IsEdit(questions) /\ NotDefault(w)
  /\ UNCHANGED <<questions, jobVars, quotaVars, sessionVars, job, rev, historyVars,
                 mishaps>>

\* syncCompanyQuestionsTx.  Missing rows are inserted, and their keys are waited
\* for like rows; while the worker has the company, nobody else can commit them.
WriteQuestions(w) ==
  /\ wpc[w] = "write" /\ GoTo(w, "commit")
  /\ LockRows(w)
  /\ UNCHANGED <<questions, collecting, owner, sharers, jobVars, quotaVars, sessionVars,
                 job, rev, outcome, historyVars, mishaps>>

\* The acknowledgement of the commit may be lost.
CommitApply(w) ==
  /\ wpc[w] = "commit"
  /\ questions' = Ai(job[w], rev[w])
  /\ Release(w)
  /\ \/ GoTo(w, "save") /\ outcome' = [outcome EXCEPT ![w] = "true"] /\ UNCHANGED mishaps
     \/ GoTo(w, "fail") /\ Mishap /\ UNCHANGED outcome
  /\ UNCHANGED <<jobVars, quotaVars, sessionVars, job, rev, edited, late>>

AbortApply(w) ==
  /\ wpc[w] \in {"texts", "subs", "write", "commit"} /\ GoTo(w, "fail")
  /\ Mishap
  /\ Release(w)
  /\ UNCHANGED <<questions, jobVars, quotaVars, sessionVars, job, rev, outcome,
                 historyVars>>

\* saveClaimedIaJob with status completed and the flag in options.
SaveCompleted(w) ==
  /\ wpc[w] = "save" /\ Fenced(w)
  /\ status' = [status EXCEPT ![job[w]] = "completed"]
  /\ applied' = [applied EXCEPT ![job[w]] = outcome[w]]
  /\ Leave(w)
  /\ UNCHANGED <<questions, lockVars, attempts, quotaVars, sessionVars, edited,
                 mishaps>>

\* The catch block: again later, or failed for good.
SaveFailure(w) ==
  /\ wpc[w] = "fail" /\ Fenced(w)
  /\ \E outcomeOfFailure \in {"queued", "failed"} :
       status' = [status EXCEPT ![job[w]] = outcomeOfFailure]
  /\ Leave(w)
  /\ UNCHANGED <<questions, lockVars, attempts, applied, quotaVars, sessionVars,
                 edited, mishaps>>

LoseLease(w) ==
  /\ wpc[w] \in {"save", "fail"} /\ ~Fenced(w)
  /\ Leave(w)
  /\ UNCHANGED <<questions, lockVars, jobVars, quotaVars, sessionVars, edited,
                 mishaps>>

\* The process dies; the database rolls its transaction back.
Crash(w) ==
  /\ Mishap
  /\ wpc[w] # "idle"
  /\ Release(w)
  /\ Leave(w)
  /\ UNCHANGED <<questions, jobVars, quotaVars, sessionVars, edited>>

-----------------------------------------------------------------------------
(* provisionEnterpriseForUser for a company that exists, when its profile is  *)
(* completed or Google is linked.  It updates the enterprise, which excludes  *)
(* FOR UPDATE and not FOR KEY SHARE, then inserts the missing questions.  A   *)
(* save waits for it only for the keys, while it waits for nobody: one step.  *)
SeedDefaults ==
  /\ owner = Nobody /\ rows = Nobody
  /\ questions = None /\ questions' = Default
  /\ UNCHANGED <<lockVars, jobVars, quotaVars, sessionVars, workerVars, historyVars,
                 mishaps>>

CooldownEnds ==
  /\ cooling /\ cooling' = FALSE
  /\ UNCHANGED <<questions, lockVars, jobVars, today, sessionVars, workerVars,
                 historyVars, mishaps>>

DayPasses(j) ==
  /\ ~cooling
  /\ j \in today /\ today' = today \ {j}
  /\ UNCHANGED <<questions, lockVars, jobVars, cooling, sessionVars, workerVars,
                 historyVars, mishaps>>

SessionStep(s) ==
  \/ SyncCatalog(s) \/ SyncQuestions(s) \/ InsertQuestions(s) \/ ShareCompany(s)
  \/ CommitSave(s)
  \/ ReadLatest(s) \/ ReadDefault(s) \/ ReadDefaultSubs(s)
  \/ BeginEnqueue(s) \/ CountJobs(s) \/ InsertJob(s)

WorkerStep(w) ==
  \/ CallAi(w) \/ BeginApply(w) \/ ReadTexts(w) \/ ReadSubquestions(w)
  \/ WriteQuestions(w) \/ CommitApply(w)
  \/ SaveCompleted(w) \/ SaveFailure(w) \/ LoseLease(w)

Next ==
  \/ \E s \in Sessions : BeginSave(s) \/ AbortSave(s) \/ Retry(s) \/ SessionStep(s)
  \/ \E w \in Workers, j \in Jobs : Claim(w, j)
  \/ \E w \in Workers : WorkerStep(w) \/ AbortApply(w) \/ Crash(w)
  \/ SeedDefaults \/ CooldownEnds
  \/ \E j \in Jobs : DayPasses(j)

Spec == Init /\ [][Next]_vars

-----------------------------------------------------------------------------
(* Properties.                                                               *)

(* Generated questions are never replaced by generated ones: of two workers  *)
(* with the same job, or two jobs, only the first finds the default texts,   *)
(* although neither looks at the lease (applyCompanyQuestionsIfDefault).     *)
AiNeverReplacesAi ==
  [][IsAi(questions) /\ questions' # questions => ~IsAi(questions')]_vars

(* An edit that was committed while the AI service was being called survives *)
(* the job: generated questions replace an edit only if it was committed     *)
(* inside the transaction that applies them, after the statement that would  *)
(* have shown it.  For edited texts this is the first of the two statements  *)
(* of hasDefaultCompanyQuestionsIn, for a subquestion alone the second.      *)
EditsDuringTheCallSurvive ==
  [][IsEdit(questions) /\ IsAi(questions') =>
       \E w \in late : wpc[w] = "commit" /\ wpc'[w] # "commit"]_vars

(* However saves of the profile and retries interleave, a company has at most *)
(* one generation in progress, and in 24 hours no more of them than          *)
(* IA_QUESTION_SUGGESTIONS_MAX_PER_DAY.                                      *)
GenerationsAreLimited ==
  /\ \A i, j \in Jobs : Active(i) /\ Active(j) => i = j
  /\ Cardinality(today) <= DailyLimit

(* A save that has inserted the missing questions and waits for the company,  *)
(* and a job that has the company and waits for their keys: neither goes on   *)
(* until PostgreSQL cancels one of them (AbortSave, AbortApply).             *)
Crossed(s, w) ==
  /\ questions = None
  /\ At(s, "parent") /\ rows = s
  /\ wpc[w] = "write" /\ owner = w

(* While any session or worker is in the middle of something, one has the     *)
(* locks for its next statement, although the save and the job lock company   *)
(* and questions in transactions of their own, and inside other statements;  *)
(* only a crossed save and job can leave everybody waiting.  The insert of a  *)
(* job waits for no lock, also when the bounded set Jobs has no unused one.  *)
SomebodyGoesOn ==
  (\E s \in Sessions : spc[s] \notin {"new", "done"}) \/ (\E w \in Workers : wpc[w] # "idle")
    => \/ \E s \in Sessions : ENABLED SessionStep(s)
       \/ \E s \in Sessions : At(s, "insert")
       \/ \E w \in Workers : ENABLED WorkerStep(w)
       \/ \E s \in Sessions, w \in Workers : Crossed(s, w)

\* The holders of the locks that the next statement of a session or a worker needs.
Needs(p) ==
  IF p \in Sessions
  THEN CASE At(p, "new")                            -> {collecting}
         [] At(p, "catalog") /\ newItem[p]          -> {owner}
         [] At(p, "questions") /\ draft[p] # Same
              /\ questions # None                   -> {rows}
         [] At(p, "key")                            -> {rows}
         [] At(p, "parent")                         -> {owner}
         [] At(p, "enqueue")                        -> sharers \cup {owner}
         [] OTHER                                   -> {}
  ELSE CASE wpc[p] = "apply" -> sharers \cup {owner}
         [] wpc[p] = "write" -> {rows}
         [] OTHER            -> {}

WaitsFor(p) == Needs(p) \ {p, Nobody}

(* Sessions and workers that wait for each other in a ring, of any length,    *)
(* also while others go on, are always there because of a save that inserts   *)
(* the questions of a company that has none and the job that crosses it: in   *)
(* every other group one waits for none of the others.  A save shares the    *)
(* company before it locks the questions, and the job locks the company      *)
(* first too, but the foreign key of an inserted question comes last.        *)
RingsNeedMissingQuestions ==
  \A S \in SUBSET (Sessions \cup Workers) : S # {} =>
    \/ \E p \in S : WaitsFor(p) \cap S = {}
    \/ \E s \in S \cap Sessions, w \in S \cap Workers : Crossed(s, w)

Holds(w, j) == job[w] = j /\ Fenced(w)

(* A job stores its flag applied once, and as its last claim found it: of two *)
(* workers with one job, the one that stalled never says another thing after  *)
(* the other, although both call applyCompanyQuestionsIfDefault.             *)
AppliedIsTheHolders ==
  [][\A j \in Jobs : applied'[j] # applied[j] =>
       applied[j] = "unset" /\ \E w \in Workers : Holds(w, j) /\ outcome[w] = applied'[j]]_vars

(* The abstract promise of the queue, for a job that is done in one step: it  *)
(* ends once and with its flag, and nobody moves it whose claim is not the    *)
(* last one.  The owner is read off the revisions.                           *)
ownerOf == [j \in Jobs |-> IF \E w \in Workers : Holds(w, j)
                             THEN CHOOSE w \in Workers : Holds(w, j)
                             ELSE Nobody]
phaseOf == [j \in Jobs |-> IF status[j] = "none" THEN "absent"
                           ELSE IF Active(j) THEN "open" ELSE "closed"]
doneOf == [j \in Jobs |-> IF applied[j] = "unset" THEN 0 ELSE 1]
Lease == INSTANCE JobLease WITH phase <- phaseOf, owner <- ownerOf, done <- doneOf
ImplementsLease == Lease!LeaseSpec

(* The comment of applyCompanyQuestionsIfDefault: the lock on the company    *)
(* keeps the job from overwriting an edit.                                   *)
NeverOverwritesAnEdit == [][IsEdit(questions) => ~IsAi(questions')]_vars

(* The API document on applied: false when the company had already edited    *)
(* the questions.                                                            *)
AppliedFalseMeansEdited == \A j \in Jobs : applied[j] = "false" => edited
=============================================================================
