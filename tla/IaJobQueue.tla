----------------------------- MODULE IaJobQueue -----------------------------
(***************************************************************************)
(* The queue of AI jobs: the table ia_analysis_job, the requests that       *)
(* insert into it (enqueueIaJob), and the runs of drainJobs that claim a    *)
(* row, call the AI service once, and write the row back under a lease.     *)
(*                                                                         *)
(* One statement of the database is one action.  What a worker holds in     *)
(* memory between two statements is a copy of the row (job, rev, mem,       *)
(* fails), so everything may happen between them: another worker, a         *)
(* heartbeat, a crash, a deletion of the company.                           *)
(*                                                                         *)
(* Time is the set due: the jobs with next_run_at <= now().  A step of the  *)
(* work (a batch, a synthesis, the single call of the two simple job types) *)
(* counts one in done; InsightsJob refines what a step is.                  *)
(*                                                                         *)
(* An operator F_Bug is F with a plausible bug.  No specification uses it:  *)
(* put in the place of F, it shows that the properties notice.              *)
(***************************************************************************)
EXTENDS Integers

CONSTANTS Jobs,          \* the ids that inserts may draw
          Workers,       \* runs of drainJobs alive at the same time
          Requests,      \* calls of enqueueIaJob
          Keys,          \* (enterprise, job_type, scope_type, catalog_item_id)
          Enterprises,
          EnterpriseOf,  \* the enterprise of a key
          Nobody, NoJob, NoKey,
          StepsOf,       \* steps a job of the key needs
          OneCallKeys,   \* generate_company_questions, generate_scope_diagnosis
          QuestionKeys,  \* generate_company_questions
          MaxFailures,   \* MAX_FAILURES, 3 in the code
          MaxThrottled,  \* QUESTIONS_RATE_LIMIT_MAX_FAILURES, 5 in the code
          MaxMishaps     \* bound: crashes, stalls, failed heartbeats, refused budgets

ASSUME StepsAssumption ==
  /\ StepsOf \in [Keys -> Nat]
  /\ OneCallKeys \in SUBSET {k \in Keys : StepsOf[k] = 1}
  /\ QuestionKeys \subseteq OneCallKeys
ASSUME MaxFailuresAssumption ==
  /\ MaxFailures \in Nat \ {0}
  /\ MaxThrottled \in Nat
  /\ MaxFailures <= MaxThrottled
ASSUME MaxMishapsAssumption == MaxMishaps \in Nat
ASSUME AbsentAssumption ==
  Nobody \notin Workers /\ NoJob \notin Jobs /\ NoKey \notin Keys
ASSUME EnterpriseOfAssumption == EnterpriseOf \in [Keys -> Enterprises]

VARIABLES
  \* columns of ia_analysis_job
  status, key, attempts, done, failures, due,
  \* enterprises whose account was deleted
  gone,
  \* a run of drainJobs: where it is, and its ClaimedIaJob
  pc, job, rev, mem, fails, leaseError,
  \* a call of enqueueIaJob
  rpc, rkey,
  mishaps

rowVars == <<status, key, attempts, done, failures, due>>
workerVars == <<pc, job, rev, mem, fails, leaseError>>
requestVars == <<rpc, rkey>>
vars == <<rowVars, gone, workerVars, requestVars, mishaps>>

ActiveStatuses == {"queued", "running", "waiting_budget"}
Statuses == ActiveStatuses \cup {"none", "completed", "failed", "deleted"}
WorkerPcs == {"idle", "step", "checkpoint", "settle", "park",
              "retry", "throttled", "abort"}
RequestPcs == {"new", "insert", "reread", "done", "error"}

Active(j) == status[j] \in ActiveStatuses
ActiveOf_QueuedOnly(k) == {j \in Jobs : status[j] = "queued" /\ key[j] = k}
ActiveOf(k) == {j \in Jobs : Active(j) /\ key[j] = k}
JobsOf(e) == {j \in Jobs : key[j] \in Keys /\ EnterpriseOf[key[j]] = e}

Fenced_NoRevision(w) == status[job[w]] = "running"
\* WHERE id = job.id AND status = 'running' AND attempts = job.attempts
Fenced(w) == status[job[w]] = "running" /\ attempts[job[w]] = rev[w]
Holds(w, j) == pc[w] # "idle" /\ job[w] = j /\ Fenced(w)

TypeOK ==
  /\ status \in [Jobs -> Statuses]
  /\ key \in [Jobs -> Keys \cup {NoKey}]
  /\ attempts \in [Jobs -> Nat]
  /\ done \in [Jobs -> Nat]
  /\ failures \in [Jobs -> 0 .. MaxThrottled]
  /\ due \subseteq Jobs
  /\ gone \subseteq Enterprises
  /\ pc \in [Workers -> WorkerPcs]
  /\ job \in [Workers -> Jobs \cup {NoJob}]
  /\ rev \in [Workers -> Nat]
  /\ mem \in [Workers -> Nat]
  /\ fails \in [Workers -> 0 .. MaxThrottled]
  /\ leaseError \in [Workers -> BOOLEAN]
  /\ rpc \in [Requests -> RequestPcs]
  /\ rkey \in [Requests -> Keys \cup {NoKey}]
  /\ mishaps \in 0 .. MaxMishaps

Init ==
  /\ status = [j \in Jobs |-> "none"]
  /\ key = [j \in Jobs |-> NoKey]
  /\ attempts = [j \in Jobs |-> 0]
  /\ done = [j \in Jobs |-> 0]
  /\ failures = [j \in Jobs |-> 0]
  /\ due = {}
  /\ gone = {}
  /\ pc = [w \in Workers |-> "idle"]
  /\ job = [w \in Workers |-> NoJob]
  /\ rev = [w \in Workers |-> 0]
  /\ mem = [w \in Workers |-> 0]
  /\ fails = [w \in Workers |-> 0]
  /\ leaseError = [w \in Workers |-> FALSE]
  /\ rpc = [r \in Requests |-> "new"]
  /\ rkey = [r \in Requests |-> NoKey]
  /\ mishaps = 0

-----------------------------------------------------------------------------
(* enqueueIaJob: select, insert, and on a unique violation select again.     *)

Reply(r, label) == rpc' = [rpc EXCEPT ![r] = label]

SelectActive(r, k) ==
  /\ rpc[r] = "new"
  /\ rkey' = [rkey EXCEPT ![r] = k]
  /\ Reply(r, IF ActiveOf(k) = {} THEN "insert" ELSE "done")
  /\ UNCHANGED <<rowVars, gone, workerVars, mishaps>>

Insert(r) ==
  /\ rpc[r] = "insert"
  /\ EnterpriseOf[rkey[r]] \notin gone
  /\ ActiveOf(rkey[r]) = {}
  /\ \E j \in Jobs :
       /\ status[j] = "none"
       /\ status' = [status EXCEPT ![j] = "queued"]
       /\ key' = [key EXCEPT ![j] = rkey[r]]
       /\ due' = due \cup {j}
  /\ Reply(r, "done")
  /\ UNCHANGED <<attempts, done, failures, gone, workerVars, rkey, mishaps>>

\* uq_ia_analysis_job_active, or the foreign key of a deleted enterprise.
InsertViolates(r) ==
  /\ rpc[r] = "insert"
  /\ \/ /\ EnterpriseOf[rkey[r]] \in gone
        /\ Reply(r, "error")
     \/ /\ EnterpriseOf[rkey[r]] \notin gone
        /\ ActiveOf(rkey[r]) # {}
        /\ Reply(r, "reread")
  /\ UNCHANGED <<rowVars, gone, workerVars, rkey, mishaps>>

\* The job that won the race may be over by now: then the error is thrown.
Reread(r) ==
  /\ rpc[r] = "reread"
  /\ Reply(r, IF ActiveOf(rkey[r]) = {} THEN "error" ELSE "done")
  /\ UNCHANGED <<rowVars, gone, workerVars, rkey, mishaps>>

-----------------------------------------------------------------------------
(* A run of drainJobs.                                                       *)

\* claimNextIaJob.  A job whose last step was saved but whose end was not
\* goes straight to settle: its cursor is already past the last batch.
Claim(w, j) ==
  /\ pc[w] = "idle"
  /\ Active(j) /\ j \in due
  /\ status' = [status EXCEPT ![j] = "running"]
  /\ attempts' = [attempts EXCEPT ![j] = @ + 1]
  /\ due' = due \ {j}
  /\ pc' = [pc EXCEPT ![w] = IF done[j] = StepsOf[key[j]] THEN "settle" ELSE "step"]
  /\ job' = [job EXCEPT ![w] = j]
  /\ rev' = [rev EXCEPT ![w] = attempts[j] + 1]
  /\ mem' = [mem EXCEPT ![w] = done[j]]
  /\ fails' = [fails EXCEPT ![w] = failures[j]]
  /\ UNCHANGED <<key, done, failures, gone, leaseError, requestVars, mishaps>>

GoTo(w, label) == pc' = [pc EXCEPT ![w] = label]

\* processJob returns or dies: its variables are gone.
Leave(w) ==
  /\ pc' = [pc EXCEPT ![w] = "idle"]
  /\ job' = [job EXCEPT ![w] = NoJob]
  /\ rev' = [rev EXCEPT ![w] = 0]
  /\ mem' = [mem EXCEPT ![w] = 0]
  /\ fails' = [fails EXCEPT ![w] = 0]
  /\ leaseError' = [leaseError EXCEPT ![w] = FALSE]

Mishap == mishaps < MaxMishaps /\ mishaps' = mishaps + 1

\* The one call of the step is answered.  The two job types that are one call
\* store it together with the end of the job.
StepSucceeds(w) ==
  /\ pc[w] = "step"
  /\ mem' = [mem EXCEPT ![w] = @ + 1]
  /\ GoTo(w, IF key[job[w]] \in OneCallKeys THEN "settle" ELSE "checkpoint")
  /\ UNCHANGED <<rowVars, gone, job, rev, fails, leaseError, requestVars, mishaps>>

\* A code of RETRYABLE (ia_provider_rate_limited of a question job apart), or
\* any other error.
StepFails(w) ==
  /\ pc[w] = "step"
  /\ \/ GoTo(w, "retry") \/ GoTo(w, "abort")
     \/ key[job[w]] \in QuestionKeys /\ GoTo(w, "throttled")
  /\ UNCHANGED <<rowVars, gone, job, rev, mem, fails, leaseError, requestVars, mishaps>>

BudgetExhausted(w) ==
  /\ Mishap
  /\ pc[w] = "step"
  /\ GoTo(w, "park")
  /\ UNCHANGED <<rowVars, gone, job, rev, mem, fails, leaseError, requestVars>>

\* saveClaimedIaJob found the row: new status, progress, failures, next_run_at.
Save(w, newStatus, newDone, newFailures, newDue) ==
  /\ ~leaseError[w] /\ Fenced(w)
  /\ status' = [status EXCEPT ![job[w]] = newStatus]
  /\ done' = [done EXCEPT ![job[w]] = newDone]
  /\ failures' = [failures EXCEPT ![job[w]] = newFailures]
  /\ due' = newDue
  /\ UNCHANGED <<key, attempts>>

\* The acknowledgement may be lost after the row was written: then the catch
\* block runs with the copy of before.
Checkpoint(w) ==
  /\ pc[w] = "checkpoint"
  /\ Save(w, "running", mem[w], 0, due \ {job[w]})
  /\ \/ GoTo(w, "settle") /\ fails' = [fails EXCEPT ![w] = 0]
     \/ GoTo(w, "abort") /\ UNCHANGED fails
  /\ UNCHANGED <<gone, job, rev, mem, leaseError, requestVars, mishaps>>

Returns(w) ==
  \/ Leave(w)
  \/ GoTo(w, "abort") /\ UNCHANGED <<job, rev, mem, fails, leaseError>>

Settle(w) ==
  /\ pc[w] = "settle"
  /\ LET j == job[w]
     IN  IF mem[w] = StepsOf[key[j]]
           THEN Save(w, "completed", mem[w], failures[j], due \ {j})
           ELSE Save(w, "queued", mem[w], failures[j], due \cup {j})
  /\ Returns(w)
  /\ UNCHANGED <<gone, requestVars, mishaps>>

Park(w) ==
  /\ pc[w] = "park"
  /\ LET j == job[w]
     IN  Save(w, "waiting_budget", done[j], failures[j], due \ {j})
  /\ Returns(w)
  /\ UNCHANGED <<gone, requestVars, mishaps>>

\* The statement fails at the database, or the publication before it does.
SaveRefused(w) ==
  /\ pc[w] \in {"checkpoint", "settle", "park"} /\ ~leaseError[w]
  /\ GoTo(w, "abort")
  /\ UNCHANGED <<rowVars, gone, job, rev, mem, fails, leaseError, requestVars, mishaps>>

\* How often a step may fail with the error at hand before the job does.
FailureLimit(label) == IF label = "throttled" THEN MaxThrottled ELSE MaxFailures

\* The catch block: again later, or failed for good.
SaveFailure(w) ==
  /\ pc[w] \in {"retry", "throttled", "abort"}
  /\ LET again == /\ pc[w] # "abort"
                  /\ fails[w] + 1 < FailureLimit(pc[w])
     IN  Save(w, IF again THEN "queued" ELSE "failed", done[job[w]],
              fails[w] + 1, due \ {job[w]})
  /\ Leave(w)
  /\ UNCHANGED <<gone, requestVars, mishaps>>

\* The lease is gone: no row matched a save, or a heartbeat said so before.
GiveUp(w) ==
  /\ pc[w] \notin {"idle", "step"}
  /\ leaseError[w] \/ ~Fenced(w)
  /\ Leave(w)
  /\ UNCHANGED <<rowVars, gone, requestVars, mishaps>>

\* Every 30 seconds while the worker runs.
Heartbeat(w) ==
  /\ pc[w] # "idle"
  /\ IF Fenced(w)
       THEN due' = due \ {job[w]} /\ UNCHANGED leaseError
       ELSE leaseError' = [leaseError EXCEPT ![w] = TRUE] /\ UNCHANGED due
  /\ UNCHANGED <<status, key, attempts, done, failures, gone, pc, job, rev, mem,
                 fails, requestVars, mishaps>>

-----------------------------------------------------------------------------
(* What the environment does.                                                *)

\* A heartbeat that could not reach the database counts as a lost lease.
HeartbeatFails(w) ==
  /\ Mishap
  /\ pc[w] # "idle" /\ ~leaseError[w]
  /\ leaseError' = [leaseError EXCEPT ![w] = TRUE]
  /\ UNCHANGED <<rowVars, gone, pc, job, rev, mem, fails, requestVars>>

\* The process dies, or the function reaches its maximum duration.
Crash(w) ==
  /\ Mishap
  /\ pc[w] # "idle"
  /\ Leave(w)
  /\ UNCHANGED <<rowVars, gone, requestVars>>

TimePasses_NoReclaim(j) ==
  /\ status[j] \in {"queued", "waiting_budget"} /\ j \notin due
  /\ due' = due \cup {j}
  /\ UNCHANGED <<status, key, attempts, done, failures, gone, workerVars, requestVars, mishaps>>

\* next_run_at passes.  For a running row that takes an owner that is gone,
\* or one that stalls for the ten minutes of the lease.
TimePasses(j) ==
  /\ Active(j) /\ j \notin due
  /\ due' = due \cup {j}
  /\ IF \E w \in Workers : Holds(w, j) THEN Mishap ELSE UNCHANGED mishaps
  /\ UNCHANGED <<status, key, attempts, done, failures, gone, workerVars, requestVars>>

\* advanceWaitingIaJobs: the company changed its model.
AdvanceWaiting(e) ==
  /\ due' = due \cup {j \in JobsOf(e) : status[j] \in {"queued", "waiting_budget"}}
  /\ UNCHANGED <<status, key, attempts, done, failures, gone, workerVars,
                 requestVars, mishaps>>

DeleteEnterprise_NoCascade(e) ==
  /\ e \notin gone /\ gone' = gone \cup {e}
  /\ UNCHANGED <<rowVars, workerVars, requestVars, mishaps>>

\* The account is deleted; ON DELETE CASCADE takes the jobs.
DeleteEnterprise(e) ==
  /\ e \notin gone
  /\ gone' = gone \cup {e}
  /\ status' = [j \in Jobs |-> IF j \in JobsOf(e) THEN "deleted" ELSE status[j]]
  /\ due' = due \ JobsOf(e)
  /\ UNCHANGED <<key, attempts, done, failures, workerVars, requestVars, mishaps>>

Progress(w) ==
  \/ StepSucceeds(w) \/ StepFails(w) \/ Checkpoint(w) \/ Settle(w) \/ Park(w)
  \/ SaveFailure(w) \/ GiveUp(w)

Next ==
  \/ \E r \in Requests : Insert(r) \/ InsertViolates(r) \/ Reread(r)
  \/ \E r \in Requests, k \in Keys : SelectActive(r, k)
  \/ \E w \in Workers, j \in Jobs : Claim(w, j)
  \/ \E w \in Workers :
       \/ Progress(w) \/ BudgetExhausted(w) \/ SaveRefused(w)
       \/ Heartbeat(w) \/ HeartbeatFails(w) \/ Crash(w)
  \/ \E j \in Jobs : TimePasses(j)
  \/ \E e \in Enterprises : AdvanceWaiting(e) \/ DeleteEnterprise(e)

Spec == Init /\ [][Next]_vars

(* Workers keep coming (each request, each poll, the local loop, the cron),  *)
(* a worker that does not crash finishes its step, and time passes.          *)
Fairness ==
  /\ \A j \in Jobs : WF_vars(\E w \in Workers : Claim(w, j)) /\ WF_vars(TimePasses(j))
  /\ \A w \in Workers : WF_vars(Progress(w))

FairSpec == Spec /\ Fairness

-----------------------------------------------------------------------------
(* Properties.                                                               *)

(* At most one job in progress per (enterprise, type, scope, item): a double *)
(* click, a retried request and a worker that lost its lease never leave two.*)
OneActivePerKey ==
  \A i, j \in Jobs : Active(i) /\ Active(j) /\ key[i] = key[j] => i = j

(* At most one worker can still write a job: the fence of saveClaimedIaJob   *)
(* lets only the latest claim through, whatever stalled workers do later.    *)
SingleWriter ==
  \A w1, w2 \in Workers, j \in Jobs : Holds(w1, j) /\ Holds(w2, j) => w1 = w2

(* The worker that may still write works on the row as it is: no save can    *)
(* undo progress that another worker stored after the copy was taken.        *)
OwnerIsCurrent ==
  \A w \in Workers :
    pc[w] # "idle" /\ Fenced(w) =>
      /\ pc[w] \in {"step", "park"} => mem[w] = done[job[w]]
      /\ pc[w] = "checkpoint" => mem[w] = done[job[w]] + 1
      /\ pc[w] = "settle" =>
           \/ mem[w] = done[job[w]]
           \/ key[job[w]] \in OneCallKeys /\ mem[w] = done[job[w]] + 1
      /\ pc[w] \in {"retry", "throttled", "abort"} => mem[w] \in {done[job[w]], done[job[w]] + 1}

(* A job is completed only with all its steps stored, and while it can still *)
(* be retried its current step has failed fewer times than its type allows.  *)
CompletedMeansDone ==
  \A j \in Jobs :
    /\ status[j] = "completed" => done[j] = StepsOf[key[j]]
    /\ Active(j) => failures[j] < IF key[j] \in QuestionKeys THEN MaxThrottled ELSE MaxFailures

(* A company that deleted its account leaves no job behind: neither a request *)
(* that was half way through enqueueIaJob nor a worker that still runs one of  *)
(* its jobs puts one back in the queue.                                      *)
DeletedCompanyHasNoJobs ==
  \A e \in gone : \A j \in JobsOf(e) : status[j] = "deleted"

(* A job that ended stays ended: a late save of an old worker never revives  *)
(* it, and its stored progress never changes again.                          *)
EndedStaysEnded ==
  [][\A j \in Jobs :
       status[j] \in {"completed", "failed", "deleted"} =>
         /\ status'[j] \in {status[j], "deleted"}
         /\ done'[j] = done[j]]_vars

(* Every job that is requested ends, although workers crash, stall and lose  *)
(* their lease, as long as they do so finitely often.                        *)
EveryJobEnds == \A j \in Jobs : Active(j) ~> ~Active(j)

(* The abstract promise, with the owner read off the revision numbers.       *)
ownerOf == [j \in Jobs |-> IF \E w \in Workers : Holds(w, j)
                             THEN CHOOSE w \in Workers : Holds(w, j)
                             ELSE Nobody]
phaseOf == [j \in Jobs |-> IF status[j] = "none" THEN "absent"
                           ELSE IF Active(j) THEN "open" ELSE "closed"]
Lease == INSTANCE JobLease WITH phase <- phaseOf, owner <- ownerOf
ImplementsLease == Lease!LeaseSpec
=============================================================================
