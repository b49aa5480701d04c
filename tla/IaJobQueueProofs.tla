-------------------------- MODULE IaJobQueueProofs --------------------------
(***************************************************************************)
(* What IaJobQueue promises, for any number of jobs, workers, requests,     *)
(* companies and steps.                                                     *)
(*                                                                         *)
(* The inductive invariant IInv has three parts beside the types: what the  *)
(* table holds (TableInv), what each worker's copy of a row has to do with  *)
(* the row (WorkerInv), and what a request remembers (RequestInv).  The two  *)
(* facts that make it inductive and that no run checks by itself: a worker  *)
(* never holds a revision above the row's, and two workers on the same job  *)
(* never hold the same revision.  One lemma per action shows that it keeps  *)
(* IInv; the theorems then follow from Inductive.                           *)
(***************************************************************************)
EXTENDS IaJobQueue, TLAPS

\* Rows that exist have a key, and never more steps than their job needs.
RowInv ==
  \A j \in Jobs :
    /\ (status[j] = "none") <=> (key[j] = NoKey)
    /\ status[j] = "none" => done[j] = 0 /\ failures[j] = 0
    /\ status[j] # "none" => done[j] <= StepsOf[key[j]]

\* What a worker remembers of its row is not newer than the row.
ClaimInv ==
  \A w \in Workers :
    pc[w] # "idle" =>
      /\ job[w] \in Jobs
      /\ status[job[w]] # "none"
      /\ rev[w] <= attempts[job[w]]
      /\ fails[w] < IF key[job[w]] \in QuestionKeys THEN MaxThrottled ELSE MaxFailures
      /\ pc[w] = "throttled" => key[job[w]] \in QuestionKeys
      /\ mem[w] <= StepsOf[key[job[w]]]
      /\ pc[w] = "step" => mem[w] < StepsOf[key[job[w]]]

\* attempts counts the claims of a row: no two claims got the same number.
RevisionsDiffer ==
  \A v, w \in Workers :
    pc[v] # "idle" /\ pc[w] # "idle" /\ job[v] = job[w] /\ rev[v] = rev[w] => v = w

RequestInv ==
  \A r \in Requests : rpc[r] \in {"insert", "reread"} => rkey[r] \in Keys

TableInv ==
  RowInv /\ OneActivePerKey /\ CompletedMeansDone /\ DeletedCompanyHasNoJobs
WorkerInv ==
  ClaimInv /\ RevisionsDiffer /\ OwnerIsCurrent

IInv == TypeOK /\ RequestInv /\ TableInv /\ WorkerInv

\* The first select of a request changes no row.
LEMMA SelectActiveKeeps ==
  ASSUME IInv, NEW r \in Requests, NEW k \in Keys, SelectActive(r, k)
  PROVE  IInv'
<1>1. TypeOK'
  BY DEF IInv, TypeOK, RequestPcs, SelectActive, Reply, rowVars, workerVars
<1>2. RequestInv'
  BY DEF IInv, RequestInv, SelectActive, Reply, TypeOK
<1>3. TableInv'
  BY DEF IInv, TableInv, RowInv, OneActivePerKey, CompletedMeansDone,
         DeletedCompanyHasNoJobs, Active, JobsOf, SelectActive, rowVars
<1>4. WorkerInv'
  BY AbsentAssumption
  DEF IInv, WorkerInv, ClaimInv, RevisionsDiffer, OwnerIsCurrent, Fenced,
      SelectActive, Reply, rowVars, workerVars
<1> QED BY <1>1, <1>2, <1>3, <1>4 DEF IInv

\* The insert adds the only job in progress of its key, with nothing done.
LEMMA InsertKeeps ==
  ASSUME IInv, NEW r \in Requests, Insert(r)
  PROVE  IInv'
<1>1. TypeOK'
  BY DEF IInv, TypeOK, Statuses, ActiveStatuses, RequestPcs, Insert, Reply, workerVars
<1>2. RequestInv'
  BY DEF IInv, RequestInv, Insert, Reply, workerVars
<1>3. TableInv'
  BY StepsAssumption, AbsentAssumption, MaxFailuresAssumption
  DEF IInv, TableInv, RowInv, OneActivePerKey, CompletedMeansDone,
      DeletedCompanyHasNoJobs, Active, JobsOf, Insert, TypeOK, RequestInv, ActiveOf
<1>4. WorkerInv'
  BY StepsAssumption, AbsentAssumption, MaxFailuresAssumption
  DEF IInv, WorkerInv, ClaimInv, RevisionsDiffer, OwnerIsCurrent, Fenced, Insert,
      Reply, workerVars, TypeOK, CompletedMeansDone, Active, ActiveStatuses
<1> QED BY <1>1, <1>2, <1>3, <1>4 DEF IInv

\* A refused insert changes no row.
LEMMA InsertViolatesKeeps ==
  ASSUME IInv, NEW r \in Requests, InsertViolates(r)
  PROVE  IInv'
<1>1. TypeOK'
  BY DEF IInv, TypeOK, RequestPcs, InsertViolates, Reply, rowVars, workerVars
<1>2. RequestInv'
  BY DEF IInv, RequestInv, InsertViolates, Reply, TypeOK
<1>3. TableInv'
  BY DEF IInv, TableInv, RowInv, OneActivePerKey, CompletedMeansDone,
         DeletedCompanyHasNoJobs, Active, JobsOf, InsertViolates, rowVars
<1>4. WorkerInv'
  BY AbsentAssumption
  DEF IInv, WorkerInv, ClaimInv, RevisionsDiffer, OwnerIsCurrent, Fenced,
      InsertViolates, Reply, rowVars, workerVars
<1> QED BY <1>1, <1>2, <1>3, <1>4 DEF IInv

\* Neither does the second select.
LEMMA RereadKeeps ==
  ASSUME IInv, NEW r \in Requests, Reread(r)
  PROVE  IInv'
<1>1. TypeOK'
  BY DEF IInv, TypeOK, RequestPcs, Reread, Reply, rowVars, workerVars
<1>2. RequestInv'
  BY DEF IInv, RequestInv, Reread, Reply
<1>3. TableInv'
  BY DEF IInv, TableInv, RowInv, OneActivePerKey, CompletedMeansDone,
         DeletedCompanyHasNoJobs, Active, JobsOf, Reread, rowVars
<1>4. WorkerInv'
  BY AbsentAssumption
  DEF IInv, WorkerInv, ClaimInv, RevisionsDiffer, OwnerIsCurrent, Fenced, Reread,
      Reply, rowVars, workerVars
<1> QED BY <1>1, <1>2, <1>3, <1>4 DEF IInv

\* A claim makes a new revision, with a current copy of the row.
LEMMA ClaimKeeps ==
  ASSUME IInv, NEW w \in Workers, NEW j \in Jobs, Claim(w, j)
  PROVE  IInv'
<1>1. TypeOK'
  BY DEF IInv, TypeOK, Statuses, ActiveStatuses, WorkerPcs, Claim, requestVars
<1>2. RequestInv'
  BY DEF IInv, RequestInv, Claim, requestVars
<1>3. TableInv'
  BY DEF IInv, TableInv, RowInv, OneActivePerKey, CompletedMeansDone,
         DeletedCompanyHasNoJobs, Active, ActiveStatuses, JobsOf, Claim
<1>4. WorkerInv'
  <2>1. ClaimInv'
    <3>1. /\ done[j] \in Nat /\ StepsOf[key[j]] \in Nat
          /\ done[j] <= StepsOf[key[j]]
          /\ failures[j] < IF key[j] \in QuestionKeys THEN MaxThrottled ELSE MaxFailures
      BY StepsAssumption
      DEF IInv, TypeOK, TableInv, RowInv, CompletedMeansDone, Claim, Active,
          ActiveStatuses
    <3> QED
      BY <3>1 DEF IInv, TypeOK, WorkerInv, ClaimInv, Claim, Active, ActiveStatuses
  <2>2. RevisionsDiffer'
    BY DEF IInv, WorkerInv, ClaimInv, RevisionsDiffer, OwnerIsCurrent, Claim, TypeOK
  <2>3. OwnerIsCurrent'
    BY DEF IInv, WorkerInv, ClaimInv, OwnerIsCurrent, Fenced, Claim, TypeOK
  <2> QED BY <2>1, <2>2, <2>3 DEF WorkerInv
<1> QED BY <1>1, <1>2, <1>3, <1>4 DEF IInv

\* A step that succeeds is in memory only.
LEMMA StepSucceedsKeeps ==
  ASSUME IInv, NEW w \in Workers, StepSucceeds(w)
  PROVE  IInv'
<1>1. TypeOK'
  BY DEF IInv, TypeOK, WorkerPcs, StepSucceeds, GoTo, rowVars, requestVars
<1>2. RequestInv'
  BY DEF IInv, RequestInv, StepSucceeds, requestVars
<1>3. TableInv'
  BY DEF IInv, TableInv, RowInv, OneActivePerKey, CompletedMeansDone,
         DeletedCompanyHasNoJobs, Active, JobsOf, StepSucceeds, rowVars
<1>4. WorkerInv'
  BY StepsAssumption
  DEF IInv, WorkerInv, ClaimInv, RevisionsDiffer, OwnerIsCurrent, Fenced,
      StepSucceeds, GoTo, rowVars, requestVars, TypeOK, TableInv, RowInv
<1> QED BY <1>1, <1>2, <1>3, <1>4 DEF IInv

\* A step that fails leaves memory and row as they were.
LEMMA StepFailsKeeps ==
  ASSUME IInv, NEW w \in Workers, StepFails(w)
  PROVE  IInv'
<1>1. TypeOK'
  BY DEF IInv, TypeOK, WorkerPcs, StepFails, GoTo, rowVars, requestVars
<1>2. RequestInv'
  BY DEF IInv, RequestInv, StepFails, requestVars
<1>3. TableInv'
  BY DEF IInv, TableInv, RowInv, OneActivePerKey, CompletedMeansDone,
         DeletedCompanyHasNoJobs, Active, JobsOf, StepFails, rowVars
<1>4. WorkerInv'
  BY DEF IInv, WorkerInv, ClaimInv, RevisionsDiffer, OwnerIsCurrent, Fenced,
         StepFails, GoTo, rowVars, requestVars, TypeOK, TableInv
<1> QED BY <1>1, <1>2, <1>3, <1>4 DEF IInv

\* So does a refused budget.
LEMMA BudgetExhaustedKeeps ==
  ASSUME IInv, NEW w \in Workers, BudgetExhausted(w)
  PROVE  IInv'
<1>1. TypeOK'
  BY MaxMishapsAssumption
  DEF IInv, TypeOK, WorkerPcs, BudgetExhausted, GoTo, Mishap, rowVars, requestVars
<1>2. RequestInv'
  BY DEF IInv, RequestInv, BudgetExhausted, rowVars, requestVars
<1>3. TableInv'
  BY DEF IInv, TableInv, RowInv, OneActivePerKey, CompletedMeansDone,
         DeletedCompanyHasNoJobs, Active, JobsOf, BudgetExhausted, rowVars
<1>4. WorkerInv'
  BY DEF IInv, WorkerInv, ClaimInv, RevisionsDiffer, OwnerIsCurrent, Fenced,
         BudgetExhausted, GoTo, rowVars, TableInv
<1> QED BY <1>1, <1>2, <1>3, <1>4 DEF IInv

\* A checkpoint stores one step more, acknowledged or not.
LEMMA CheckpointKeeps ==
  ASSUME IInv, NEW w \in Workers, Checkpoint(w)
  PROVE  IInv'
<1>1. TypeOK'
  BY MaxFailuresAssumption
  DEF IInv, TypeOK, Statuses, ActiveStatuses, WorkerPcs, WorkerInv, ClaimInv,
      Checkpoint, Save, GoTo, requestVars
<1>2. RequestInv'
  BY DEF IInv, RequestInv, Checkpoint, Save, GoTo, requestVars
<1>3. TableInv'
  BY MaxFailuresAssumption
  DEF IInv, TableInv, RowInv, OneActivePerKey, CompletedMeansDone,
      DeletedCompanyHasNoJobs, Active, JobsOf, Checkpoint, Save, WorkerInv, ClaimInv,
      Fenced
<1>4. WorkerInv'
  BY StepsAssumption, MaxFailuresAssumption
  DEF IInv, WorkerInv, ClaimInv, RevisionsDiffer, OwnerIsCurrent, Fenced, Checkpoint,
      Save, GoTo, requestVars, TypeOK, Active, ActiveStatuses
<1> QED BY <1>1, <1>2, <1>3, <1>4 DEF IInv

\* A job that settles has all its steps stored, or goes back to the queue.
LEMMA SettleKeeps ==
  ASSUME IInv, NEW w \in Workers, Settle(w)
  PROVE  IInv'
<1>1. CASE Leave(w)
  <2>1. TypeOK'
    BY <1>1, MaxFailuresAssumption
    DEF IInv, TypeOK, Statuses, ActiveStatuses, WorkerPcs, WorkerInv, ClaimInv,
        Settle, Save, Leave, requestVars
  <2>2. RequestInv'
    BY <1>1 DEF IInv, RequestInv, Settle, Save, Leave, requestVars
  <2>3. TableInv'
    BY <1>1
    DEF IInv, TableInv, RowInv, OneActivePerKey, CompletedMeansDone,
        DeletedCompanyHasNoJobs, Active, ActiveStatuses, JobsOf, Settle, Save,
        requestVars, TypeOK, WorkerInv, ClaimInv, Fenced
  <2>4. WorkerInv'
    BY <1>1, StepsAssumption, AbsentAssumption
    DEF IInv, WorkerInv, ClaimInv, RevisionsDiffer, OwnerIsCurrent, Fenced, Settle,
        Save, Leave, requestVars, TypeOK, RowInv, CompletedMeansDone, Active,
        ActiveStatuses
  <2> QED BY <2>1, <2>2, <2>3, <2>4 DEF IInv
<1>2. CASE GoTo(w, "abort") /\ UNCHANGED <<job, rev, mem, fails, leaseError>>
  <2>1. TypeOK'
    BY <1>2
    DEF IInv, TypeOK, Statuses, ActiveStatuses, WorkerPcs, WorkerInv, ClaimInv,
        Settle, Save, GoTo, requestVars
  <2>2. RequestInv'
    BY <1>2 DEF IInv, RequestInv, Settle, Save, GoTo, requestVars
  <2>3. TableInv'
    BY <1>2
    DEF IInv, TableInv, RowInv, OneActivePerKey, CompletedMeansDone,
        DeletedCompanyHasNoJobs, Active, ActiveStatuses, JobsOf, Settle, Save, GoTo,
        TypeOK, WorkerInv, ClaimInv, Fenced
  <2>4. WorkerInv'
    BY <1>2, StepsAssumption
    DEF IInv, WorkerInv, ClaimInv, RevisionsDiffer, OwnerIsCurrent, Fenced, Settle,
        Save, GoTo, requestVars, TypeOK, TableInv, CompletedMeansDone, Active,
        ActiveStatuses
  <2> QED BY <2>1, <2>2, <2>3, <2>4 DEF IInv
<1> QED BY <1>1, <1>2 DEF Settle, Returns

\* Parking a job changes its status only.
LEMMA ParkKeeps ==
  ASSUME IInv, NEW w \in Workers, Park(w)
  PROVE  IInv'
<1>1. CASE Leave(w)
  <2>1. TypeOK'
    BY <1>1, MaxFailuresAssumption
    DEF IInv, TypeOK, Statuses, ActiveStatuses, WorkerPcs, WorkerInv, ClaimInv, Park,
        Save, Leave, requestVars
  <2>2. RequestInv'
    BY <1>1 DEF IInv, RequestInv, Park, Save, Leave, requestVars
  <2>3. TableInv'
    BY <1>1
    DEF IInv, TableInv, RowInv, OneActivePerKey, CompletedMeansDone,
        DeletedCompanyHasNoJobs, Active, ActiveStatuses, JobsOf, Park, Save, Fenced
  <2>4. WorkerInv'
    BY <1>1, StepsAssumption
    DEF IInv, WorkerInv, ClaimInv, RevisionsDiffer, OwnerIsCurrent, Fenced, Park,
        Save, Leave, requestVars, TypeOK
  <2> QED BY <2>1, <2>2, <2>3, <2>4 DEF IInv
<1>2. CASE GoTo(w, "abort") /\ UNCHANGED <<job, rev, mem, fails, leaseError>>
  <2>1. TypeOK'
    BY <1>2
    DEF IInv, TypeOK, Statuses, ActiveStatuses, WorkerPcs, Park, Save, GoTo,
        requestVars
  <2>2. RequestInv'
    BY <1>2 DEF IInv, RequestInv, Park, Save, GoTo, requestVars
  <2>3. TableInv'
    BY <1>2
    DEF IInv, TableInv, RowInv, OneActivePerKey, CompletedMeansDone,
        DeletedCompanyHasNoJobs, Active, ActiveStatuses, JobsOf, Park, Save, Fenced
  <2>4. WorkerInv'
    BY <1>2, StepsAssumption
    DEF IInv, WorkerInv, ClaimInv, RevisionsDiffer, OwnerIsCurrent, Fenced, Park,
        Save, GoTo, requestVars, TypeOK
  <2> QED BY <2>1, <2>2, <2>3, <2>4 DEF IInv
<1> QED BY <1>1, <1>2 DEF Park, Returns

\* A statement that fails changes no row.
LEMMA SaveRefusedKeeps ==
  ASSUME IInv, NEW w \in Workers, SaveRefused(w)
  PROVE  IInv'
<1>1. TypeOK'
  BY DEF IInv, TypeOK, WorkerPcs, SaveRefused, GoTo, rowVars, requestVars
<1>2. RequestInv'
  BY DEF IInv, RequestInv, SaveRefused, requestVars
<1>3. TableInv'
  BY DEF IInv, TableInv, RowInv, OneActivePerKey, CompletedMeansDone,
         DeletedCompanyHasNoJobs, Active, JobsOf, SaveRefused, rowVars
<1>4. WorkerInv'
  BY DEF IInv, WorkerInv, ClaimInv, RevisionsDiffer, OwnerIsCurrent, Fenced,
         SaveRefused, GoTo, rowVars, requestVars, TableInv
<1> QED BY <1>1, <1>2, <1>3, <1>4 DEF IInv

\* The catch block requeues only below the limit of its error.
LEMMA SaveFailureKeeps ==
  ASSUME IInv, NEW w \in Workers, SaveFailure(w)
  PROVE  IInv'
<1>1. TypeOK'
  BY MaxFailuresAssumption
  DEF IInv, TypeOK, Statuses, ActiveStatuses, WorkerPcs, WorkerInv, ClaimInv,
      SaveFailure, Save, Leave, requestVars
<1>2. RequestInv'
  BY DEF IInv, RequestInv, SaveFailure, Save, Leave, requestVars
<1>3. TableInv'
  BY MaxFailuresAssumption
  DEF IInv, TableInv, RowInv, OneActivePerKey, CompletedMeansDone, Active,
      DeletedCompanyHasNoJobs, ActiveStatuses, JobsOf, SaveFailure, Save, FailureLimit,
      TypeOK, Fenced, WorkerInv, ClaimInv
<1>4. WorkerInv'
  BY StepsAssumption
  DEF IInv, WorkerInv, ClaimInv, RevisionsDiffer, OwnerIsCurrent, Fenced,
      SaveFailure, Save, Leave, requestVars, TypeOK, CompletedMeansDone
<1> QED BY <1>1, <1>2, <1>3, <1>4 DEF IInv

\* A worker without a lease leaves without writing.
LEMMA GiveUpKeeps ==
  ASSUME IInv, NEW w \in Workers, GiveUp(w)
  PROVE  IInv'
<1>1. TypeOK'
  BY MaxFailuresAssumption
  DEF IInv, TypeOK, WorkerPcs, GiveUp, Leave, rowVars, requestVars
<1>2. RequestInv'
  BY DEF IInv, RequestInv, GiveUp, requestVars
<1>3. TableInv'
  BY DEF IInv, TableInv, RowInv, OneActivePerKey, CompletedMeansDone,
         DeletedCompanyHasNoJobs, Active, JobsOf, GiveUp, rowVars
<1>4. WorkerInv'
  BY DEF IInv, WorkerInv, ClaimInv, RevisionsDiffer, OwnerIsCurrent, Fenced, GiveUp,
         Leave, rowVars, requestVars, TypeOK, TableInv
<1> QED BY <1>1, <1>2, <1>3, <1>4 DEF IInv

\* Heartbeats touch next_run_at only.
LEMMA HeartbeatKeeps ==
  ASSUME IInv, NEW w \in Workers, Heartbeat(w)
  PROVE  IInv'
<1>1. TypeOK'
  BY DEF IInv, TypeOK, Heartbeat, requestVars
<1>2. RequestInv'
  BY DEF IInv, RequestInv, Heartbeat, requestVars
<1>3. TableInv'
  BY DEF IInv, TableInv, RowInv, OneActivePerKey, CompletedMeansDone,
         DeletedCompanyHasNoJobs, Active, JobsOf, Heartbeat
<1>4. WorkerInv'
  BY DEF IInv, WorkerInv, ClaimInv, RevisionsDiffer, OwnerIsCurrent, Fenced,
         Heartbeat, requestVars, TableInv
<1> QED BY <1>1, <1>2, <1>3, <1>4 DEF IInv

\* A heartbeat that fails marks the lease as lost.
LEMMA HeartbeatFailsKeeps ==
  ASSUME IInv, NEW w \in Workers, HeartbeatFails(w)
  PROVE  IInv'
<1>1. TypeOK'
  BY MaxMishapsAssumption
  DEF IInv, TypeOK, HeartbeatFails, Mishap, rowVars, requestVars
<1>2. RequestInv'
  BY DEF IInv, RequestInv, HeartbeatFails, requestVars
<1>3. TableInv'
  BY DEF IInv, TableInv, RowInv, OneActivePerKey, CompletedMeansDone,
         DeletedCompanyHasNoJobs, Active, JobsOf, HeartbeatFails, rowVars
<1>4. WorkerInv'
  BY DEF IInv, WorkerInv, ClaimInv, RevisionsDiffer, OwnerIsCurrent, Fenced,
         HeartbeatFails, Mishap, rowVars, requestVars, TableInv
<1> QED BY <1>1, <1>2, <1>3, <1>4 DEF IInv

\* A crash loses the memory of a worker, and no row.
LEMMA CrashKeeps ==
  ASSUME IInv, NEW w \in Workers, Crash(w)
  PROVE  IInv'
<1>1. TypeOK'
  BY MaxFailuresAssumption, MaxMishapsAssumption
  DEF IInv, TypeOK, WorkerPcs, Crash, Leave, Mishap, rowVars, requestVars
<1>2. RequestInv'
  BY DEF IInv, RequestInv, Crash, rowVars, requestVars
<1>3. TableInv'
  BY DEF IInv, TableInv, RowInv, OneActivePerKey, CompletedMeansDone,
         DeletedCompanyHasNoJobs, Active, JobsOf, Crash, rowVars
<1>4. WorkerInv'
  BY DEF IInv, WorkerInv, ClaimInv, RevisionsDiffer, OwnerIsCurrent, Fenced, Crash,
         Leave, rowVars, TypeOK, TableInv
<1> QED BY <1>1, <1>2, <1>3, <1>4 DEF IInv

\* Time makes rows claimable, running ones too.
LEMMA TimePassesKeeps ==
  ASSUME IInv, NEW j \in Jobs, TimePasses(j)
  PROVE  IInv'
<1>1. TypeOK'
  BY MaxMishapsAssumption
  DEF IInv, TypeOK, TimePasses, Mishap, workerVars, requestVars
<1>2. RequestInv'
  BY DEF IInv, RequestInv, TimePasses, requestVars
<1>3. TableInv'
  BY DEF IInv, TableInv, RowInv, OneActivePerKey, CompletedMeansDone,
         DeletedCompanyHasNoJobs, Active, JobsOf, TimePasses
<1>4. WorkerInv'
  BY DEF IInv, WorkerInv, ClaimInv, RevisionsDiffer, OwnerIsCurrent, Fenced,
         TimePasses, Mishap, workerVars, requestVars
<1> QED BY <1>1, <1>2, <1>3, <1>4 DEF IInv

\* A change of model makes waiting rows claimable.
LEMMA AdvanceWaitingKeeps ==
  ASSUME IInv, NEW e \in Enterprises, AdvanceWaiting(e)
  PROVE  IInv'
<1>1. TypeOK'
  BY DEF IInv, TypeOK, AdvanceWaiting, workerVars, requestVars, JobsOf
<1>2. RequestInv'
  BY DEF IInv, RequestInv, AdvanceWaiting, requestVars
<1>3. TableInv'
  BY DEF IInv, TableInv, RowInv, OneActivePerKey, CompletedMeansDone,
         DeletedCompanyHasNoJobs, Active, JobsOf, AdvanceWaiting
<1>4. WorkerInv'
  BY DEF IInv, WorkerInv, ClaimInv, RevisionsDiffer, OwnerIsCurrent, Fenced,
         AdvanceWaiting, workerVars, TypeOK
<1> QED BY <1>1, <1>2, <1>3, <1>4 DEF IInv

\* The deletion of a company ends all its jobs, also those being run.
LEMMA DeleteEnterpriseKeeps ==
  ASSUME IInv, NEW e \in Enterprises, DeleteEnterprise(e)
  PROVE  IInv'
<1>1. TypeOK'
  BY DEF IInv, TypeOK, Statuses, DeleteEnterprise, workerVars, requestVars
<1>2. RequestInv'
  BY DEF IInv, RequestInv, DeleteEnterprise, workerVars, requestVars
<1>3. TableInv'
  BY AbsentAssumption
  DEF IInv, TableInv, RowInv, OneActivePerKey, CompletedMeansDone,
      DeletedCompanyHasNoJobs, Active, ActiveStatuses, JobsOf, DeleteEnterprise
<1>4. WorkerInv'
  BY DEF IInv, WorkerInv, ClaimInv, RevisionsDiffer, OwnerIsCurrent, Fenced,
         DeleteEnterprise, workerVars, requestVars, TypeOK
<1> QED BY <1>1, <1>2, <1>3, <1>4 DEF IInv

\* An empty table with idle workers satisfies IInv.
LEMMA InitHolds == Init => IInv
BY MaxFailuresAssumption, MaxMishapsAssumption
DEF Init, IInv, TypeOK, Statuses, WorkerPcs, RequestPcs, ActiveStatuses, Active,
    RequestInv, TableInv, RowInv, OneActivePerKey, CompletedMeansDone,
    DeletedCompanyHasNoJobs, WorkerInv, ClaimInv, RevisionsDiffer, OwnerIsCurrent

\* Every step keeps IInv.
LEMMA NextKeeps == IInv /\ [Next]_vars => IInv'
<1> SUFFICES ASSUME IInv, [Next]_vars PROVE IInv'
  OBVIOUS
<1>1. CASE UNCHANGED vars
  BY <1>1
  DEF vars, rowVars, workerVars, requestVars, IInv, TypeOK, Statuses, WorkerPcs,
    RequestPcs, ActiveStatuses, Active, RequestInv, TableInv, RowInv, OneActivePerKey,
    CompletedMeansDone, DeletedCompanyHasNoJobs, JobsOf, WorkerInv, ClaimInv,
    RevisionsDiffer, OwnerIsCurrent, Fenced
<1>2. ASSUME NEW r \in Requests, Insert(r) \/ InsertViolates(r) \/ Reread(r)
      PROVE  IInv'
  BY <1>2, InsertKeeps, InsertViolatesKeeps, RereadKeeps
<1>3. ASSUME NEW r \in Requests, NEW k \in Keys, SelectActive(r, k) PROVE IInv'
  BY <1>3, SelectActiveKeeps
<1>4. ASSUME NEW w \in Workers, NEW j \in Jobs, Claim(w, j) PROVE IInv'
  BY <1>4, ClaimKeeps
<1>5. ASSUME NEW w \in Workers, Progress(w) PROVE IInv'
  BY <1>5, StepSucceedsKeeps, StepFailsKeeps, CheckpointKeeps, SettleKeeps, ParkKeeps,
     SaveFailureKeeps, GiveUpKeeps DEF Progress
<1>6. ASSUME NEW w \in Workers,
             \/ BudgetExhausted(w) \/ SaveRefused(w)
             \/ Heartbeat(w) \/ HeartbeatFails(w) \/ Crash(w)
      PROVE  IInv'
  BY <1>6, BudgetExhaustedKeeps, SaveRefusedKeeps, HeartbeatKeeps,
     HeartbeatFailsKeeps, CrashKeeps
<1>7. ASSUME NEW j \in Jobs, TimePasses(j) PROVE IInv'
  BY <1>7, TimePassesKeeps
<1>8. ASSUME NEW e \in Enterprises, AdvanceWaiting(e) \/ DeleteEnterprise(e) PROVE IInv'
  BY <1>8, AdvanceWaitingKeeps, DeleteEnterpriseKeeps
<1> QED BY <1>1, <1>2, <1>3, <1>4, <1>5, <1>6, <1>7, <1>8 DEF Next

\* The inductive invariant holds in every reachable state.
THEOREM Inductive == Spec => []IInv
BY InitHolds, NextKeeps, PTL DEF Spec

\* Two workers that pass the fence of saveClaimedIaJob for one job are one.
LEMMA OneHolder ==
  ASSUME IInv, NEW v \in Workers, NEW w \in Workers, NEW j \in Jobs,
         Holds(v, j), Holds(w, j)
  PROVE  v = w
BY DEF IInv, WorkerInv, RevisionsDiffer, Holds, Fenced

\* The columns of the table and the variables of the workers keep their types.
THEOREM TypeCorrect == Spec => []TypeOK
<1>1. IInv => TypeOK
  BY DEF IInv
<1> QED BY <1>1, Inductive, PTL

\* enqueueIaJob never leaves two jobs in progress for one (enterprise, type,
\* scope, item), whatever the requests and the workers do.
THEOREM OneActive == Spec => []OneActivePerKey
<1>1. IInv => OneActivePerKey
  BY DEF IInv, TableInv
<1> QED BY <1>1, Inductive, PTL

\* At most one worker can still write a job, however many of them stall and
\* wake up with an old claim (saveClaimedIaJob).
THEOREM OneWriter == Spec => []SingleWriter
<1>1. IInv => SingleWriter
  BY OneHolder DEF SingleWriter
<1> QED BY <1>1, Inductive, PTL

\* The worker that can still write has the stored progress in memory: no save
\* of drainJobs undoes what another worker stored.
THEOREM OwnerCurrent == Spec => []OwnerIsCurrent
<1>1. IInv => OwnerIsCurrent
  BY DEF IInv, WorkerInv
<1> QED BY <1>1, Inductive, PTL

\* drainJobs completes a job only with all its steps stored, and a job that
\* can be retried has failed fewer times than its type allows.
THEOREM CompletedDone == Spec => []CompletedMeansDone
<1>1. IInv => CompletedMeansDone
  BY DEF IInv, TableInv
<1> QED BY <1>1, Inductive, PTL

\* No job of a deleted company is left or put back in the queue.
THEOREM NoOrphans == Spec => []DeletedCompanyHasNoJobs
<1>1. IInv => DeletedCompanyHasNoJobs
  BY DEF IInv, TableInv
<1> QED BY <1>1, Inductive, PTL

Ended(j) == status[j] \in {"completed", "failed", "deleted"}
StaysEnded(j) == Ended(j) => status'[j] \in {status[j], "deleted"} /\ done'[j] = done[j]

\* No step changes the status or the progress of a job that ended.
LEMMA StepStaysEnded ==
  ASSUME IInv, [Next]_vars, NEW i \in Jobs
  PROVE  StaysEnded(i)
<1>1. CASE UNCHANGED vars
  BY <1>1 DEF vars, rowVars, StaysEnded
<1>2. ASSUME NEW r \in Requests, Insert(r) \/ InsertViolates(r) \/ Reread(r)
      PROVE  StaysEnded(i)
  BY <1>2 DEF Insert, InsertViolates, Reread, rowVars, StaysEnded, Ended, IInv, TypeOK
<1>3. ASSUME NEW r \in Requests, NEW k \in Keys, SelectActive(r, k) PROVE StaysEnded(i)
  BY <1>3 DEF SelectActive, rowVars, StaysEnded, Ended
<1>4. ASSUME NEW w \in Workers, NEW j \in Jobs, Claim(w, j) PROVE StaysEnded(i)
  BY <1>4 DEF Claim, Active, ActiveStatuses, StaysEnded, Ended, IInv
<1>5. ASSUME NEW w \in Workers, Progress(w) PROVE StaysEnded(i)
  BY <1>5
  DEF Progress, StepSucceeds, StepFails, Checkpoint, Settle, Park, SaveFailure,
     GiveUp, Save, Fenced, rowVars, StaysEnded, Ended, IInv, TypeOK
<1>6. ASSUME NEW w \in Workers,
             \/ BudgetExhausted(w) \/ SaveRefused(w)
             \/ Heartbeat(w) \/ HeartbeatFails(w) \/ Crash(w)
      PROVE  StaysEnded(i)
  BY <1>6 DEF BudgetExhausted, SaveRefused, Heartbeat, HeartbeatFails, Crash, rowVars,
     StaysEnded, Ended
<1>7. ASSUME NEW j \in Jobs, TimePasses(j) PROVE StaysEnded(i)
  BY <1>7 DEF TimePasses, StaysEnded, Ended
<1>8. ASSUME NEW e \in Enterprises, AdvanceWaiting(e) \/ DeleteEnterprise(e)
      PROVE  StaysEnded(i)
  BY <1>8 DEF AdvanceWaiting, DeleteEnterprise, StaysEnded
<1> QED BY <1>1, <1>2, <1>3, <1>4, <1>5, <1>6, <1>7, <1>8 DEF Next

\* A job that completed, failed or was deleted never runs again, and a late
\* save of an old worker never changes it.
THEOREM NeverRevived == Spec => EndedStaysEnded
<1>1. IInv /\ [Next]_vars =>
        [\A j \in Jobs :
           status[j] \in {"completed", "failed", "deleted"} =>
             /\ status'[j] \in {status[j], "deleted"}
             /\ done'[j] = done[j]]_vars
  BY StepStaysEnded DEF StaysEnded, Ended
<1> QED BY <1>1, Inductive, PTL DEF Spec, EndedStaysEnded

-----------------------------------------------------------------------------
\* The owner that the refinement reads off the revisions is the holder.
OwnerReadsHolder ==
  \A j \in Jobs :
    /\ \A w \in Workers : Holds(w, j) <=> ownerOf[j] = w
    /\ (\A w \in Workers : ~Holds(w, j)) => ownerOf[j] = Nobody

\* Under IInv there is at most one holder, and ownerOf is that worker.
LEMMA OwnerIsHolder == IInv => OwnerReadsHolder
<1> SUFFICES ASSUME IInv, NEW j \in Jobs
             PROVE  /\ \A w \in Workers : Holds(w, j) <=> ownerOf[j] = w
                    /\ (\A w \in Workers : ~Holds(w, j)) => ownerOf[j] = Nobody
  BY DEF OwnerReadsHolder
<1>1. CASE \E w \in Workers : Holds(w, j)
  <2>1. PICK v \in Workers : Holds(v, j)
    BY <1>1
  <2>2. \A w \in Workers : Holds(w, j) => w = v
    BY <2>1, OneHolder
  <2>3. ownerOf[j] = v
    BY <2>1, <2>2 DEF ownerOf
  <2> QED BY <2>1, <2>2, <2>3
<1>2. CASE ~ \E w \in Workers : Holds(w, j)
  BY <1>2, AbsentAssumption DEF ownerOf
<1> QED BY <1>1, <1>2

\* The same of the next state.
LEMMA OwnerIsHolderNext == IInv' => OwnerReadsHolder'
<1>1. (IInv => OwnerReadsHolder)'
  BY OwnerIsHolder, PTL
<1> QED BY <1>1

\* The owner of a job changes only where the set of its holders does.
LEMMA SameHolders ==
  ASSUME IInv, IInv', \A w \in Workers, j \in Jobs : Holds(w, j)' <=> Holds(w, j)
  PROVE  ownerOf' = ownerOf
<1>1. ASSUME NEW j \in Jobs PROVE ownerOf'[j] = ownerOf[j]
  BY OwnerIsHolder, OwnerIsHolderNext DEF OwnerReadsHolder
<1>2. ownerOf = [j \in Jobs |-> ownerOf[j]] /\ ownerOf' = [j \in Jobs |-> ownerOf'[j]]
  BY DEF ownerOf
<1> QED BY <1>1, <1>2

\* Where the holder of one job changes, so does its owner, and no other.
LEMMA OneHolderChanges ==
  ASSUME IInv, IInv', NEW i \in Jobs, NEW o,
         \A w \in Workers, j \in Jobs \ {i} : Holds(w, j)' <=> Holds(w, j),
         \/ o \in Workers /\ Holds(o, i)'
         \/ o = Nobody /\ \A w \in Workers : ~Holds(w, i)'
  PROVE  ownerOf' = [ownerOf EXCEPT ![i] = o]
<1>1. ASSUME NEW j \in Jobs PROVE ownerOf'[j] = [ownerOf EXCEPT ![i] = o][j]
  BY OwnerIsHolder, OwnerIsHolderNext DEF OwnerReadsHolder, ownerOf
<1>2. ownerOf' = [j \in Jobs |-> ownerOf'[j]]
  BY DEF ownerOf
<1>3. [ownerOf EXCEPT ![i] = o] = [j \in Jobs |-> [ownerOf EXCEPT ![i] = o][j]]
  BY DEF ownerOf
<1> QED BY <1>1, <1>2, <1>3

LeaseStep == [Lease!LeaseNext]_(Lease!leaseVars)
SameHolding(j) == \A w \in Workers : Holds(w, j)' <=> Holds(w, j)

\* A step that changes no status, revision or progress is a stutter.
LEMMA StutterStep ==
  ASSUME IInv, IInv', phaseOf' = phaseOf, done' = done, \A j \in Jobs : SameHolding(j)
  PROVE  LeaseStep
BY SameHolders DEF LeaseStep, Lease!leaseVars, SameHolding

\* Everything but the table's status, revision and progress, and the claims.
LEMMA RequestRefines ==
  ASSUME IInv, IInv', NEW r \in Requests,
         \/ Insert(r) \/ InsertViolates(r) \/ Reread(r)
         \/ \E k \in Keys : SelectActive(r, k)
  PROVE  LeaseStep
<1>1. CASE Insert(r)
  <2>1. PICK j \in Jobs : /\ status[j] = "none"
                          /\ status' = [status EXCEPT ![j] = "queued"]
    BY <1>1 DEF Insert
  <2>2. \A i \in Jobs : SameHolding(i)
    BY <1>1, <2>1 DEF Insert, workerVars, SameHolding, Holds, Fenced, IInv
  <2>3. phaseOf[j] = "absent" /\ phaseOf' = [phaseOf EXCEPT ![j] = "open"]
    BY <2>1 DEF phaseOf, Active, ActiveStatuses, IInv, TypeOK
  <2>4. ownerOf' = ownerOf /\ done' = done
    BY <1>1, <2>2, SameHolders DEF Insert, SameHolding
  <2> QED BY <2>3, <2>4 DEF LeaseStep, Lease!LeaseNext, Lease!Open
<1>2. CASE InsertViolates(r) \/ Reread(r) \/ \E k \in Keys : SelectActive(r, k)
  <2>1. UNCHANGED <<status, attempts, done, pc, job, rev>>
    BY <1>2 DEF InsertViolates, Reread, SelectActive, rowVars, workerVars
  <2> QED BY <2>1, StutterStep DEF phaseOf, Active, SameHolding, Holds, Fenced
<1> QED BY <1>1, <1>2

\* A claim acquires the lease, from a previous owner or from nobody.
LEMMA ClaimRefines ==
  ASSUME IInv, IInv', NEW w \in Workers, NEW j \in Jobs, Claim(w, j)
  PROVE  LeaseStep
<1>1. \A i \in Jobs \ {j} : SameHolding(i)
  BY DEF Claim, SameHolding, Holds, Fenced, IInv, TypeOK
<1>2. Holds(w, j)'
  BY DEF Claim, Holds, Fenced, IInv, TypeOK
<1>3. ownerOf' = [ownerOf EXCEPT ![j] = w]
  BY <1>1, <1>2, OneHolderChanges DEF SameHolding
<1>4. phaseOf[j] = "open" /\ phaseOf' = phaseOf /\ done' = done
  BY DEF Claim, phaseOf, Active, ActiveStatuses, IInv
<1> QED BY <1>3, <1>4 DEF LeaseStep, Lease!LeaseNext, Lease!Acquire

\* A checkpoint advances the job by one step, by its owner.
LEMMA CheckpointRefines ==
  ASSUME IInv, IInv', NEW w \in Workers, Checkpoint(w)
  PROVE  LeaseStep
<1>1. job[w] \in Jobs /\ Holds(w, job[w])
  BY DEF Checkpoint, Save, Holds, IInv, WorkerInv, ClaimInv
<1>2. \A j \in Jobs : SameHolding(j)
  BY DEF Checkpoint, Save, GoTo, SameHolding, Holds, Fenced, IInv, TypeOK
<1>3. phaseOf[job[w]] = "open" /\ phaseOf' = phaseOf
  BY <1>1 DEF Checkpoint, Save, Fenced, phaseOf, Active, ActiveStatuses, IInv, TypeOK
<1>4. done' = [done EXCEPT ![job[w]] = @ + 1]
  BY <1>1 DEF Checkpoint, Save, IInv, WorkerInv, OwnerIsCurrent
<1>5. ownerOf' = ownerOf
  BY <1>2, SameHolders DEF SameHolding
<1>6. ownerOf[job[w]] = w
  BY <1>1, OwnerIsHolder DEF OwnerReadsHolder
<1> QED BY <1>1, <1>3, <1>4, <1>5, <1>6 DEF LeaseStep, Lease!LeaseNext, Lease!Advance

\* A save that gives the job up: its owner leaves it open or closes it.
LEMMA LetGo ==
  ASSUME IInv, IInv', NEW w \in Workers, NEW i \in Jobs, job[w] = i,
         pc[w] # "idle", Fenced(w),
         NEW st \in {"queued", "waiting_budget", "completed", "failed"}, NEW d,
         st \in {"queued", "waiting_budget"} => d = done[i],
         d = done[i] \/ d = done[i] + 1,
         status' = [status EXCEPT ![i] = st],
         done' = [done EXCEPT ![i] = d],
         attempts' = attempts,
         \A v \in Workers \ {w} : pc'[v] = pc[v] /\ job'[v] = job[v] /\ rev'[v] = rev[v],
         pc'[w] = "idle" \/ job'[w] = i
  PROVE  LeaseStep
<1>1. Holds(w, i)
  BY DEF Holds
<1>2. \A j \in Jobs \ {i} : SameHolding(j)
  BY <1>1 DEF SameHolding, Holds, Fenced, IInv
<1>3. \A v \in Workers : ~Holds(v, i)'
  BY <1>1 DEF Holds, Fenced, IInv, TypeOK
<1>4. ownerOf[i] = w
  BY <1>1, OwnerIsHolder DEF OwnerReadsHolder
<1>5. ownerOf' = [ownerOf EXCEPT ![i] = Nobody]
  BY <1>1, <1>2, <1>3, OneHolderChanges DEF SameHolding
<1>6. phaseOf[i] = "open"
  BY <1>1 DEF Holds, Fenced, phaseOf, Active, ActiveStatuses
<1>7. CASE st \in {"queued", "waiting_budget"}
  <2>1. phaseOf' = phaseOf /\ done' = done
    BY <1>1, <1>7 DEF Fenced, phaseOf, Active, ActiveStatuses, IInv, TypeOK
  <2> QED BY <1>1, <1>4, <1>5, <2>1 DEF LeaseStep, Lease!LeaseNext, Lease!Release
<1>8. CASE st \in {"completed", "failed"}
  <2>1. phaseOf' = [phaseOf EXCEPT ![i] = "closed"]
    BY <1>1, <1>8 DEF phaseOf, Active, ActiveStatuses, IInv, TypeOK
  <2>2. done' = done \/ done' = [done EXCEPT ![i] = @ + 1]
    BY <1>1 DEF IInv, TypeOK
  <2> QED BY <1>1, <1>4, <1>5, <1>6, <2>1, <2>2
          DEF LeaseStep, Lease!LeaseNext, Lease!Close
<1> QED BY <1>7, <1>8

\* The end of a job, its return to the queue, its parking and its failures are
\* the two ways of letting go: Release and Close.
LEMMA SaveRefines ==
  ASSUME IInv, IInv', NEW w \in Workers, Settle(w) \/ Park(w) \/ SaveFailure(w)
  PROVE  LeaseStep
<1> DEFINE i == job[w]
<1>1. i \in Jobs /\ pc[w] # "idle" /\ Fenced(w) /\ attempts' = attempts
  BY DEF Settle, Park, SaveFailure, Save, IInv, WorkerInv, ClaimInv
<1>2. \A v \in Workers \ {w} : pc'[v] = pc[v] /\ job'[v] = job[v] /\ rev'[v] = rev[v]
  BY DEF Settle, Park, SaveFailure, Returns, Leave, GoTo, IInv, TypeOK
<1>3. pc'[w] = "idle" \/ job'[w] = i
  BY DEF Settle, Park, SaveFailure, Returns, Leave, IInv, TypeOK
<1>4. CASE Settle(w)
  <2>1. CASE mem[w] = StepsOf[key[i]]
    <3>1. /\ status' = [status EXCEPT ![i] = "completed"]
          /\ done' = [done EXCEPT ![i] = mem[w]]
      BY <1>4, <2>1 DEF Settle, Save
    <3>2. mem[w] = done[i] \/ mem[w] = done[i] + 1
      BY <1>1, <1>4 DEF Settle, IInv, WorkerInv, OwnerIsCurrent
    <3> QED BY <1>1, <1>2, <1>3, <3>1, <3>2, LetGo
  <2>2. CASE mem[w] # StepsOf[key[i]]
    <3>1. /\ status' = [status EXCEPT ![i] = "queued"]
          /\ done' = [done EXCEPT ![i] = mem[w]]
      BY <1>4, <2>2 DEF Settle, Save
    <3>2. mem[w] = done[i]
      BY <1>1, <1>4, <2>2, StepsAssumption
      DEF Settle, IInv, TypeOK, WorkerInv, OwnerIsCurrent, ClaimInv
    <3> QED BY <1>1, <1>2, <1>3, <3>1, <3>2, LetGo
  <2> QED BY <2>1, <2>2
<1>5. CASE Park(w)
  <2>1. /\ status' = [status EXCEPT ![i] = "waiting_budget"]
        /\ done' = [done EXCEPT ![i] = done[i]]
    BY <1>5 DEF Park, Save
  <2> QED BY <1>1, <1>2, <1>3, <2>1, LetGo
<1>6. CASE SaveFailure(w)
  <2>1. PICK st \in {"queued", "failed"} : /\ status' = [status EXCEPT ![i] = st]
                                           /\ done' = [done EXCEPT ![i] = done[i]]
    BY <1>6 DEF SaveFailure, Save
  <2> QED BY <1>1, <1>2, <1>3, <2>1, LetGo
<1> QED BY <1>4, <1>5, <1>6

\* A worker that leaves without writing: it gives up its claim, or had lost it.
LEMMA DropRefines ==
  ASSUME IInv, IInv', NEW w \in Workers, GiveUp(w) \/ Crash(w)
  PROVE  LeaseStep
<1> DEFINE i == job[w]
<1>1. i \in Jobs /\ UNCHANGED <<status, attempts, done>>
  BY DEF GiveUp, Crash, rowVars, IInv, WorkerInv, ClaimInv
<1>2. pc'[w] = "idle" /\ \A v \in Workers \ {w} :
        pc'[v] = pc[v] /\ job'[v] = job[v] /\ rev'[v] = rev[v]
  BY DEF GiveUp, Crash, Leave, IInv, TypeOK
<1>3. phaseOf' = phaseOf
  BY <1>1 DEF phaseOf, Active
<1>4. \A j \in Jobs \ {i} : SameHolding(j)
  BY <1>1, <1>2 DEF SameHolding, Holds, Fenced
<1>5. CASE Fenced(w)
  <2>1. Holds(w, i) /\ \A v \in Workers : Holds(v, i) => v = w
    BY <1>1, <1>5, OneHolder DEF Holds, GiveUp, Crash
  <2>2. PICK k \in Jobs : k = i
    BY <1>1
  <2>3. \A v \in Workers : ~Holds(v, k)'
    BY <1>1, <1>2, <2>1, <2>2 DEF Holds, Fenced
  <2>4. ownerOf' = [ownerOf EXCEPT ![k] = Nobody]
    BY <1>4, <2>2, <2>3, OneHolderChanges DEF SameHolding
  <2>5. ownerOf[k] = w
    BY <2>1, <2>2, OwnerIsHolder DEF OwnerReadsHolder
  <2> QED BY <1>1, <1>3, <2>4, <2>5 DEF LeaseStep, Lease!LeaseNext, Lease!Release
<1>6. CASE ~Fenced(w)
  <2>1. \A j \in Jobs : SameHolding(j)
    BY <1>1, <1>2, <1>6 DEF SameHolding, Holds, Fenced
  <2> QED BY <1>1, <1>3, <2>1, StutterStep
<1> QED BY <1>5, <1>6

\* The steps of a worker that write nothing but next_run_at.
LEMMA WorkerStutters ==
  ASSUME IInv, IInv', NEW w \in Workers,
         \/ StepSucceeds(w) \/ StepFails(w) \/ BudgetExhausted(w) \/ SaveRefused(w)
         \/ Heartbeat(w) \/ HeartbeatFails(w)
  PROVE  LeaseStep
<1>1. UNCHANGED <<status, attempts, done, job, rev>>
  BY DEF StepSucceeds, StepFails, BudgetExhausted, SaveRefused, Heartbeat,
         HeartbeatFails,
         rowVars
<1>2. \A v \in Workers : pc'[v] = "idle" <=> pc[v] = "idle"
  BY DEF StepSucceeds, StepFails, BudgetExhausted, SaveRefused, Heartbeat,
         HeartbeatFails,
         GoTo, IInv, TypeOK
<1> QED BY <1>1, <1>2, StutterStep DEF SameHolding, Holds, Fenced, phaseOf, Active

\* Time and a change of model do not touch leases.
LEMMA TimeStutters ==
  ASSUME IInv, IInv', \/ \E j \in Jobs : TimePasses(j)
                      \/ \E e \in Enterprises : AdvanceWaiting(e)
  PROVE  LeaseStep
BY StutterStep
DEF TimePasses, AdvanceWaiting, workerVars, SameHolding, Holds, Fenced, phaseOf, Active

\* The deletion of a company withdraws its jobs, held or not.
LEMMA DeleteRefines ==
  ASSUME IInv, IInv', NEW e \in Enterprises, DeleteEnterprise(e)
  PROVE  LeaseStep
<1> DEFINE S == JobsOf(e)
<1>1. S \in SUBSET Jobs /\ done' = done
  BY DEF JobsOf, DeleteEnterprise
<1>2. \A j \in S : phaseOf[j] # "absent"
  BY AbsentAssumption DEF JobsOf, phaseOf, IInv, TableInv, RowInv
<1>3. phaseOf' = [j \in Jobs |-> IF j \in S THEN "closed" ELSE phaseOf[j]]
  BY DEF DeleteEnterprise, phaseOf, Active, ActiveStatuses
<1>4. ownerOf' = [j \in Jobs |-> IF j \in S THEN Nobody ELSE ownerOf[j]]
  <2>1. ASSUME NEW j \in Jobs, j \in S PROVE ownerOf'[j] = Nobody
    <3>1. \A w \in Workers : ~Holds(w, j)'
      BY <2>1 DEF DeleteEnterprise, Holds, Fenced
    <3> QED BY <3>1, OwnerIsHolderNext DEF OwnerReadsHolder
  <2>2. ASSUME NEW j \in Jobs, j \notin S PROVE ownerOf'[j] = ownerOf[j]
    <3>1. SameHolding(j)
      BY <2>2 DEF DeleteEnterprise, workerVars, SameHolding, Holds, Fenced
    <3> QED BY <3>1, OwnerIsHolder, OwnerIsHolderNext
            DEF OwnerReadsHolder, SameHolding
  <2>3. ownerOf' = [j \in Jobs |-> ownerOf'[j]]
    BY DEF ownerOf
  <2> QED BY <2>1, <2>2, <2>3
<1> QED BY <1>1, <1>2, <1>3, <1>4 DEF LeaseStep, Lease!LeaseNext, Lease!Withdraw

\* Every step of the queue is a step of the lease or a stutter.
LEMMA NextRefines == IInv /\ IInv' /\ [Next]_vars => LeaseStep
<1> SUFFICES ASSUME IInv, IInv', [Next]_vars PROVE LeaseStep
  OBVIOUS
<1>1. CASE UNCHANGED vars
  BY <1>1, StutterStep
  DEF vars, rowVars, workerVars, SameHolding, Holds, Fenced, phaseOf, Active
<1>2. CASE \E r \in Requests : \/ Insert(r) \/ InsertViolates(r) \/ Reread(r)
                              \/ \E k \in Keys : SelectActive(r, k)
  BY <1>2, RequestRefines
<1>3. CASE \E w \in Workers, j \in Jobs : Claim(w, j)
  BY <1>3, ClaimRefines
<1>4. ASSUME NEW w \in Workers,
             \/ Progress(w) \/ BudgetExhausted(w) \/ SaveRefused(w)
             \/ Heartbeat(w) \/ HeartbeatFails(w) \/ Crash(w)
      PROVE  LeaseStep
  BY <1>4, WorkerStutters, CheckpointRefines, SaveRefines, DropRefines DEF Progress
<1>5. CASE \/ \E j \in Jobs : TimePasses(j)
           \/ \E e \in Enterprises : AdvanceWaiting(e)
  BY <1>5, TimeStutters
<1>6. CASE \E e \in Enterprises : DeleteEnterprise(e)
  BY <1>6, DeleteRefines
<1> QED BY <1>1, <1>2, <1>3, <1>4, <1>5, <1>6 DEF Next

\* The empty table is a table of absent jobs without owners.
LEMMA InitRefines == Init => Lease!LeaseInit
BY DEF Init, Lease!LeaseInit, phaseOf, ownerOf, Holds

\* The queue of ia_analysis_job implements the lease of JobLease: a job is
\* advanced one step at a time and only by the worker that holds its lease.
THEOREM Refinement == Spec => ImplementsLease
<1>1. IInv /\ IInv' /\ [Next]_vars => [Lease!LeaseNext]_(Lease!leaseVars)
  BY NextRefines DEF LeaseStep
<1> QED BY <1>1, Inductive, InitRefines, PTL
        DEF Spec, ImplementsLease, Lease!LeaseSpec
=============================================================================
