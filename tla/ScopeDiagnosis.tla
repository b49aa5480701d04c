--------------------------- MODULE ScopeDiagnosis ---------------------------
(***************************************************************************)
(* The diagnosis of one scope and one open period.  requestScopeDiagnosis   *)
(* reads the numbers of the scope into a package, answers with a stored     *)
(* diagnosis of exactly the same data, or enqueues a job that carries the   *)
(* package.  A worker calls the AI service once, inserts the diagnosis and  *)
(* saves the job as completed, without the package.                        *)
(*                                                                         *)
(* The data of the scope is the number of feedbacks that have arrived: it   *)
(* stands for the package and for its hash.  A request inserts at most one  *)
(* job and its id names that job.  The queue is that of IaJobQueue: one     *)
(* step for enqueueIaJob, and the revision of a claim to fence its saves.   *)
(*                                                                         *)
(* An operator F_Bug is F with a plausible bug.  No specification uses it:  *)
(* put in the place of F, it shows that the properties notice.              *)
(***************************************************************************)
EXTENDS Integers, Sequences

CONSTANTS Requests,      \* requests, and the jobs they insert
          Workers,
          Nobody, NoJob,
          NoPackage,     \* options without request
          Minimum,       \* MIN_FEEDBACKS_FOR_RELEVANT_ANALYSIS
          MaxFeedbacks,  \* bound: no feedback arrives after that many
          MaxMishaps     \* bound: crashes, stalls, failures

ASSUME AbsentAssumption ==
  NoJob \notin Requests /\ NoPackage \notin Nat /\ Nobody \notin Workers
ASSUME BoundsAssumption == Minimum \in Nat /\ MaxFeedbacks \in Nat /\ MaxMishaps \in Nat

VARIABLES
  arrived,                          \* feedbacks of the scope in the period
  diagnoses,                        \* scope_diagnosis, in the order of created_at
  status, package, attempts, result, \* ia_analysis_job; result is its diagnosisId
  rpc, data, force, seen,           \* a request, its package, the diagnoses it saw
  wpc, job, rev, made,              \* a worker, its claim, the diagnosis it inserted
  mishaps

jobVars == <<status, package, attempts, result>>
requestVars == <<rpc, data, force, seen>>
workerVars == <<wpc, job, rev, made>>
vars == <<arrived, diagnoses, jobVars, requestVars, workerVars, mishaps>>

Ended == {"completed", "failed"}
Active(j) == status[j] \in {"queued", "running", "waiting_budget"}

\* saveClaimedIaJob: WHERE id, status running, attempts as claimed.
Fenced(w) == status[job[w]] = "running" /\ attempts[job[w]] = rev[w]

TypeOK ==
  /\ arrived \in 0 .. MaxFeedbacks
  /\ \A i \in DOMAIN diagnoses :
       /\ diagnoses[i].job \in Requests
       /\ diagnoses[i].data \in Minimum .. diagnoses[i].createdAt
       /\ diagnoses[i].createdAt \in 0 .. arrived
  /\ status \in [Requests -> {"none", "queued", "running", "waiting_budget"} \cup Ended]
  /\ package \in [Requests -> (Minimum .. arrived) \cup {NoPackage}]
  /\ attempts \in [Requests -> Nat]
  /\ result \in [Requests -> {0} \cup DOMAIN diagnoses]
  /\ rpc \in [Requests -> {"new", "lookup", "enqueue", "cached", "accepted", "refused"}]
  /\ data \in [Requests -> 0 .. arrived] /\ force \in [Requests -> BOOLEAN]
  /\ seen \in [Requests -> 0 .. Len(diagnoses)]
  /\ wpc \in [Workers -> {"idle", "call", "insert", "save", "fail"}]
  /\ job \in [Workers -> Requests \cup {NoJob}]
  /\ \A w \in Workers : job[w] = NoJob <=> wpc[w] = "idle"
  /\ rev \in [Workers -> Nat] /\ made \in [Workers -> {0} \cup DOMAIN diagnoses]
  /\ mishaps \in 0 .. MaxMishaps

Init ==
  /\ arrived = 0 /\ diagnoses = <<>>
  /\ status = [j \in Requests |-> "none"] /\ package = [j \in Requests |-> NoPackage]
  /\ attempts = [j \in Requests |-> 0] /\ result = [j \in Requests |-> 0]
  /\ rpc = [r \in Requests |-> "new"] /\ data = [r \in Requests |-> 0]
  /\ force = [r \in Requests |-> FALSE] /\ seen = [r \in Requests |-> 0]
  /\ wpc = [w \in Workers |-> "idle"] /\ job = [w \in Workers |-> NoJob]
  /\ rev = [w \in Workers |-> 0] /\ made = [w \in Workers |-> 0]
  /\ mishaps = 0

Arrive ==
  /\ arrived < MaxFeedbacks /\ arrived' = arrived + 1
  /\ UNCHANGED <<diagnoses, jobVars, requestVars, workerVars, mishaps>>

-----------------------------------------------------------------------------
(* requestScopeDiagnosis                                                     *)

Then(r, label) == rpc' = [rpc EXCEPT ![r] = label]

Enough == arrived >= Minimum

\* buildScopeDiagnosisPackage; item, configuration or data may be missing.
Request(r) ==
  /\ rpc[r] = "new"
  /\ \/ Enough /\ Then(r, "lookup")
     \/ Then(r, "refused")
  /\ data' = [data EXCEPT ![r] = arrived]
  /\ \E f \in BOOLEAN : force' = [force EXCEPT ![r] = f]
  /\ UNCHANGED <<arrived, diagnoses, jobVars, seen, workerVars, mishaps>>

Stored_Latest(r) ==
  {i \in DOMAIN diagnoses : i = Len(diagnoses) /\ diagnoses[i].data = data[r]}
\* findScopeDiagnosisByHash
Stored(r) == {i \in DOMAIN diagnoses : diagnoses[i].data = data[r]}

LookUp(r) ==
  /\ rpc[r] = "lookup"
  /\ Then(r, IF ~force[r] /\ Stored(r) # {} THEN "cached" ELSE "enqueue")
  /\ seen' = [seen EXCEPT ![r] = Len(diagnoses)]
  /\ UNCHANGED <<arrived, diagnoses, jobVars, data, force, workerVars, mishaps>>

\* enqueueIaJob: the active job of the scope, of whatever data, or a new one.
Enqueue(r) ==
  /\ rpc[r] = "enqueue" /\ Then(r, "accepted")
  /\ IF \E j \in Requests : Active(j)
       THEN UNCHANGED <<status, package>>
       ELSE /\ status' = [status EXCEPT ![r] = "queued"]
            /\ package' = [package EXCEPT ![r] = data[r]]
  /\ UNCHANGED <<arrived, diagnoses, attempts, result, data, force, seen, workerVars,
                 mishaps>>

-----------------------------------------------------------------------------
(* A worker with a job generate_scope_diagnosis.                             *)

GoTo(w, label) == wpc' = [wpc EXCEPT ![w] = label]
Mishap == mishaps < MaxMishaps /\ mishaps' = mishaps + 1

Leave(w) ==
  /\ GoTo(w, "idle")
  /\ job' = [job EXCEPT ![w] = NoJob]
  /\ rev' = [rev EXCEPT ![w] = 0] /\ made' = [made EXCEPT ![w] = 0]

Held(j) == \E v \in Workers : job[v] = j /\ Fenced(v)

Claim_Running(w, j) ==
  /\ wpc[w] = "idle" /\ GoTo(w, "call")
  /\ Active(j)
  /\ status' = [status EXCEPT ![j] = "running"]
  /\ attempts' = [attempts EXCEPT ![j] = @ + 1]
  /\ job' = [job EXCEPT ![w] = j] /\ rev' = [rev EXCEPT ![w] = attempts[j] + 1]
  /\ UNCHANGED <<arrived, diagnoses, package, result, requestVars, made, mishaps>>

\* A running job is claimed again when its worker crashed, or stalled for as
\* long as the lease.
Claim(w, j) ==
  /\ wpc[w] = "idle" /\ GoTo(w, "call")
  /\ Active(j)
  /\ IF Held(j) THEN Mishap ELSE UNCHANGED mishaps
  /\ status' = [status EXCEPT ![j] = "running"]
  /\ attempts' = [attempts EXCEPT ![j] = @ + 1]
  /\ job' = [job EXCEPT ![w] = j] /\ rev' = [rev EXCEPT ![w] = attempts[j] + 1]
  /\ UNCHANGED <<arrived, diagnoses, package, result, requestVars, made>>

\* Credentials, budget and the call of the AI service.
CallAi(w) ==
  /\ wpc[w] = "call"
  /\ \/ GoTo(w, "insert") /\ UNCHANGED mishaps
     \/ GoTo(w, "fail") /\ Mishap
  /\ UNCHANGED <<arrived, diagnoses, jobVars, requestVars, job, rev, made>>

\* reserveIaBudget refuses: the options stay.
Park(w) ==
  /\ wpc[w] = "call" /\ Mishap /\ Fenced(w)
  /\ status' = [status EXCEPT ![job[w]] = "waiting_budget"]
  /\ Leave(w)
  /\ UNCHANGED <<arrived, diagnoses, package, attempts, result, requestVars>>

\* insertScopeDiagnosis: nothing in it asks whether the lease is still held.
\* The acknowledgement may be lost.  The package is the one that was claimed:
\* it never changes while its job is active.
Insert(w) ==
  /\ wpc[w] = "insert"
  /\ diagnoses' = Append(diagnoses,
       [job |-> job[w], data |-> data[job[w]], createdAt |-> arrived])
  /\ \/ GoTo(w, "save") /\ UNCHANGED mishaps
     \/ GoTo(w, "fail") /\ Mishap
  /\ made' = [made EXCEPT ![w] = Len(diagnoses')]
  /\ UNCHANGED <<arrived, jobVars, requestVars, job, rev>>

InsertFails(w) ==
  /\ wpc[w] = "insert" /\ GoTo(w, "fail")
  /\ Mishap
  /\ UNCHANGED <<arrived, diagnoses, jobVars, requestVars, job, rev, made>>

SaveCompleted_KeepsPackage(w) ==
  /\ wpc[w] = "save" /\ Fenced(w)
  /\ status' = [status EXCEPT ![job[w]] = "completed"]
  /\ result' = [result EXCEPT ![job[w]] = made[w]]
  /\ Leave(w)
  /\ UNCHANGED <<arrived, diagnoses, package, attempts, requestVars, mishaps>>

\* saveClaimedIaJob with the options that are left.
SaveCompleted(w) ==
  /\ wpc[w] = "save" /\ Fenced(w)
  /\ status' = [status EXCEPT ![job[w]] = "completed"]
  /\ package' = [package EXCEPT ![job[w]] = NoPackage]
  /\ result' = [result EXCEPT ![job[w]] = made[w]]
  /\ Leave(w)
  /\ UNCHANGED <<arrived, diagnoses, attempts, requestVars, mishaps>>

\* The catch block: again later with its package, or failed for good without.
SaveFailure(w) ==
  /\ wpc[w] = "fail" /\ Fenced(w)
  /\ \E outcome \in {"queued", "failed"} :
       /\ status' = [status EXCEPT ![job[w]] = outcome]
       /\ package' = IF outcome = "failed"
                       THEN [package EXCEPT ![job[w]] = NoPackage] ELSE package
  /\ Leave(w)
  /\ UNCHANGED <<arrived, diagnoses, attempts, result, requestVars, mishaps>>

LoseLease(w) ==
  /\ wpc[w] \in {"call", "save", "fail"} /\ ~Fenced(w)
  /\ Leave(w)
  /\ UNCHANGED <<arrived, diagnoses, jobVars, requestVars, mishaps>>

Crash(w) ==
  /\ Mishap
  /\ wpc[w] # "idle"
  /\ Leave(w)
  /\ UNCHANGED <<arrived, diagnoses, jobVars, requestVars>>

-----------------------------------------------------------------------------
Next ==
  \/ Arrive
  \/ \E r \in Requests : Request(r) \/ LookUp(r) \/ Enqueue(r)
  \/ \E w \in Workers, j \in Requests : Claim(w, j)
  \/ \E w \in Workers :
       \/ CallAi(w) \/ Park(w) \/ Insert(w) \/ InsertFails(w)
       \/ SaveCompleted(w) \/ SaveFailure(w) \/ LoseLease(w) \/ Crash(w)

Spec == Init /\ [][Next]_vars

-----------------------------------------------------------------------------
(* Properties.                                                               *)

(* The comments of the customers leave a job when it ends, on whichever path *)
(* (success, failure for good, a save of a worker that lost its lease), and  *)
(* a job that may still be claimed never lacks the package it needs.         *)
TextsLeaveTheJob ==
  \A j \in Requests : /\ status[j] \in Ended => package[j] = NoPackage
                      /\ Active(j) => package[j] = data[j]

(* A job pays for a second diagnosis only when a worker died, stalled, or    *)
(* could not finish what it had begun; and whoever follows it until completed *)
(* finds a diagnosis of that job, also when an earlier claim had failed after *)
(* it had inserted one.                                                      *)
SecondCallMeansMishap ==
  /\ \A i, k \in DOMAIN diagnoses :
       i < k /\ diagnoses[i].job = diagnoses[k].job => mishaps > 0
  /\ \A j \in Requests :
       status[j] = "completed" => result[j] > 0 /\ diagnoses[result[j]].job = j

(* Two jobs pay for the same data only when the second was forced, or was    *)
(* looked up before the diagnosis of the first was stored.                   *)
LaterDiagnosesKnowEarlierOnes ==
  \A i, k \in DOMAIN diagnoses :
    LET j == diagnoses[k].job IN
    i < k /\ diagnoses[i].job # j /\ i <= seen[j]
      => \/ diagnoses[i].data # diagnoses[k].data \/ force[j]

Holds(w, j) == job[w] = j /\ Fenced(w)

(* A job points at one diagnosis for good, and it is the one that the claim   *)
(* made that was the last: a worker that stalled past its lease inserts its   *)
(* diagnosis all the same, but never puts it in the place of the other.       *)
ResultIsTheHolders ==
  [][\A j \in Requests : result'[j] # result[j] =>
       result[j] = 0 /\ \E w \in Workers : Holds(w, j) /\ made[w] = result'[j]]_vars

(* The abstract promise of the queue, for a job that is done in one step: it  *)
(* ends once and with its result, and nobody moves it whose claim is not the  *)
(* last one.  The owner is read off the revisions.                           *)
ownerOf == [j \in Requests |-> IF \E w \in Workers : Holds(w, j)
                                 THEN CHOOSE w \in Workers : Holds(w, j)
                                 ELSE Nobody]
phaseOf == [j \in Requests |-> IF status[j] = "none" THEN "absent"
                                ELSE IF Active(j) THEN "open" ELSE "closed"]
doneOf == [j \in Requests |-> IF result[j] = 0 THEN 0 ELSE 1]
Lease == INSTANCE JobLease WITH Jobs <- Requests, phase <- phaseOf, owner <- ownerOf,
                                done <- doneOf
ImplementsLease == Lease!LeaseSpec

(* The API document on the answer 200: no second call for the same data,     *)
(* unless force asks for one.                                                *)
SameDataIsPaidOnce ==
  \A i, k \in DOMAIN diagnoses :
    i < k /\ diagnoses[i].data = diagnoses[k].data
      => force[diagnoses[k].job]

(* The comment of countNewFeedbacksSince: the number of feedbacks that       *)
(* arrived after the diagnosis tells whether it has become old.  With none,  *)
(* the latest diagnosis has all feedbacks of its period.                     *)
NoNewsMeansUpToDate ==
  Len(diagnoses) > 0 =>
    LET latest == diagnoses[Len(diagnoses)]
        newFeedbacksSince == arrived - latest.createdAt
    IN newFeedbacksSince = 0 => latest.data = arrived
=============================================================================
