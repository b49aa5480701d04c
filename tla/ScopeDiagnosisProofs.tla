------------------------ MODULE ScopeDiagnosisProofs ------------------------
(***************************************************************************)
(* ScopeDiagnosis for any number of requests and workers and any bounds.    *)
(* Whoever holds a job, with or without its lease, holds one that was       *)
(* enqueued, so the request behind it has answered and its package, its     *)
(* force and what it saw are settled: HoldInv and SettledInv carry this to  *)
(* the insert, which asks for nothing.  CalmInv is about a history without  *)
(* mishaps, in which a holder always has its lease and is alone.            *)
(* LeaseInv tells the claims of a job apart, so that the refinement of       *)
(* JobLease can read the owner off the revisions.                           *)
(***************************************************************************)
EXTENDS ScopeDiagnosis, TLAPS

Statuses == {"none", "queued", "running", "waiting_budget"} \cup Ended
RequestPcs == {"new", "lookup", "enqueue", "cached", "accepted", "refused"}
WorkerPcs == {"idle", "call", "insert", "save", "fail"}
Rows == [job : Requests, data : Nat, createdAt : Nat]

TypeInv ==
  /\ arrived \in Nat
  /\ diagnoses \in Seq(Rows)
  /\ status \in [Requests -> Statuses]
  /\ package \in [Requests -> Nat \cup {NoPackage}]
  /\ attempts \in [Requests -> Nat]
  /\ result \in [Requests -> Nat]
  /\ rpc \in [Requests -> RequestPcs]
  /\ data \in [Requests -> Nat] /\ force \in [Requests -> BOOLEAN]
  /\ seen \in [Requests -> Nat]
  /\ wpc \in [Workers -> WorkerPcs]
  /\ job \in [Workers -> Requests \cup {NoJob}]
  /\ rev \in [Workers -> Nat] /\ made \in [Workers -> Nat]
  /\ mishaps \in Nat

HoldInv ==
  /\ \A w \in Workers : job[w] = NoJob <=> wpc[w] = "idle"
  /\ \A w \in Workers : job[w] # NoJob => status[job[w]] # "none"
  /\ \A w \in Workers : wpc[w] = "save" => /\ made[w] \in DOMAIN diagnoses
                                           /\ diagnoses[made[w]].job = job[w]

\* Data is settled by the request, seen by its look-up.
SettledInv ==
  /\ \A j \in Requests : status[j] # "none" => rpc[j] = "accepted"
  /\ \A j \in Requests : rpc[j] \in {"enqueue", "accepted"} =>
       force[j] \/ \A i \in DOMAIN diagnoses : i <= seen[j] => diagnoses[i].data # data[j]
  /\ \A j \in Requests : seen[j] <= Len(diagnoses)
  /\ \A k \in DOMAIN diagnoses : /\ diagnoses[k].data = data[diagnoses[k].job]
                                 /\ status[diagnoses[k].job] # "none"

CompletedInv ==
  \A j \in Requests : status[j] = "completed" =>
    result[j] \in DOMAIN diagnoses /\ diagnoses[result[j]].job = j

CalmInv ==
  mishaps = 0 =>
    /\ \A w \in Workers : job[w] # NoJob => Fenced(w)
    /\ \A v, w \in Workers : job[v] = job[w] /\ job[w] # NoJob => v = w
    /\ \A w \in Workers : wpc[w] # "fail"
    /\ \A i \in DOMAIN diagnoses :
         \/ status[diagnoses[i].job] = "completed"
         \/ \E w \in Workers : job[w] = diagnoses[i].job /\ wpc[w] = "save"
    /\ \A i, k \in DOMAIN diagnoses : diagnoses[i].job = diagnoses[k].job => i = k

IInv == TypeInv /\ HoldInv /\ SettledInv /\ CompletedInv /\ CalmInv /\ TextsLeaveTheJob

USE AbsentAssumption, BoundsAssumption

LEMMA InitHolds == Init => IInv
BY DEF Init, IInv, TypeInv, HoldInv, SettledInv, CompletedInv, CalmInv, TextsLeaveTheJob,
       Statuses, RequestPcs, WorkerPcs, Rows, Active, Ended

\* Saving, parking, failing: the job a fenced worker holds was running.
LEMMA NextTypes == ASSUME IInv, Next PROVE TypeInv'
<1> USE DEF IInv, TypeInv
<1>1. CASE Arrive
  BY <1>1 DEF Arrive, jobVars, requestVars, workerVars
<1>2. ASSUME NEW r \in Requests, Request(r) \/ LookUp(r) \/ Enqueue(r) PROVE TypeInv'
  <2>1. CASE Request(r)
    BY <2>1 DEF Request, Then, RequestPcs, jobVars, workerVars
  <2>2. CASE LookUp(r)
    BY <2>2 DEF LookUp, Then, RequestPcs, jobVars, workerVars
  <2>3. CASE Enqueue(r)
    <3>1. rpc' \in [Requests -> RequestPcs]
      BY <2>3 DEF Enqueue, Then, RequestPcs
    <3>2. status' \in [Requests -> Statuses]
      BY <2>3 DEF Enqueue, Statuses
    <3>3. package' \in [Requests -> Nat \cup {NoPackage}]
      <4>1. package' = package \/ package' = [package EXCEPT ![r] = data[r]]
        BY <2>3 DEF Enqueue
      <4>2. data[r] \in Nat
        OBVIOUS
      <4> QED BY <4>1, <4>2
    <3> QED BY <2>3, <3>1, <3>2, <3>3 DEF Enqueue, workerVars
  <2> QED BY <1>2, <2>1, <2>2, <2>3
<1>3. ASSUME NEW w \in Workers, NEW j \in Requests, Claim(w, j) PROVE TypeInv'
  <2>1. wpc' \in [Workers -> WorkerPcs] /\ status' \in [Requests -> Statuses]
    BY <1>3 DEF Claim, GoTo, Statuses, WorkerPcs
  <2>2. mishaps' \in Nat
    BY <1>3 DEF Claim, Mishap
  <2>3. attempts' \in [Requests -> Nat] /\ rev' \in [Workers -> Nat]
    BY <1>3 DEF Claim
  <2> QED BY <1>3, <2>1, <2>2, <2>3 DEF Claim, requestVars
<1>4. ASSUME NEW w \in Workers,
             CallAi(w) \/ Park(w) \/ Insert(w) \/ InsertFails(w)
             \/ SaveCompleted(w) \/ SaveFailure(w) \/ LoseLease(w) \/ Crash(w)
      PROVE  TypeInv'
  <2>0. mishaps' \in Nat /\ wpc' \in [Workers -> WorkerPcs]
    <3>1. PICK label \in WorkerPcs : GoTo(w, label)
      BY <1>4 DEF CallAi, Park, Insert, InsertFails, SaveCompleted, SaveFailure, LoseLease, Crash,
                  Leave, WorkerPcs
    <3>2. Mishap \/ UNCHANGED mishaps
      BY <1>4 DEF CallAi, Park, Insert, InsertFails, SaveCompleted, SaveFailure, LoseLease, Crash
    <3> QED BY <3>1, <3>2 DEF GoTo, Mishap
  <2>1. CASE CallAi(w) \/ InsertFails(w)
    BY <2>0, <2>1 DEF CallAi, InsertFails, jobVars, requestVars
  <2>2. CASE Park(w)
    BY <2>0, <2>2 DEF Park, Leave, Statuses, requestVars
  <2>3. CASE Insert(w)
    <3>1. job[w] \in Requests
      BY <2>3 DEF Insert, HoldInv
    <3>2. [job |-> job[w], data |-> data[job[w]], createdAt |-> arrived] \in Rows
      BY <3>1 DEF Rows
    <3>3. diagnoses' \in Seq(Rows) /\ Len(diagnoses') \in Nat
      BY <2>3, <3>2 DEF Insert
    <3> QED BY <2>0, <2>3, <3>3 DEF Insert, jobVars, requestVars
  <2>4. CASE SaveCompleted(w)
    BY <2>0, <2>4 DEF SaveCompleted, Leave, Statuses, Ended, requestVars
  <2>5. CASE SaveFailure(w)
    BY <2>0, <2>5 DEF SaveFailure, Leave, Statuses, Ended, requestVars
  <2>6. CASE LoseLease(w)
    BY <2>0, <2>6 DEF LoseLease, Leave, jobVars, requestVars
  <2>7. CASE Crash(w)
    BY <2>0, <2>7 DEF Crash, Leave, jobVars, requestVars
  <2> QED BY <1>4, <2>1, <2>2, <2>3, <2>4, <2>5, <2>6, <2>7
<1> QED BY <1>1, <1>2, <1>3, <1>4 DEF Next

\* The lists of the diagnoses before and after an insert.
LEMMA InsertAppends ==
  ASSUME IInv, NEW w \in Workers, Insert(w)
  PROVE  /\ job[w] \in Requests /\ status[job[w]] # "none"
         /\ Len(diagnoses) \in Nat /\ Len(diagnoses') = Len(diagnoses) + 1
         /\ DOMAIN diagnoses = 1 .. Len(diagnoses)
         /\ DOMAIN diagnoses' = DOMAIN diagnoses \cup {Len(diagnoses) + 1}
         /\ \A i \in DOMAIN diagnoses : diagnoses'[i] = diagnoses[i]
         /\ diagnoses'[Len(diagnoses) + 1].job = job[w]
         /\ diagnoses'[Len(diagnoses) + 1].data = data[job[w]]
<1>1. job[w] \in Requests /\ status[job[w]] # "none"
  BY DEF Insert, IInv, TypeInv, HoldInv
<1>2. diagnoses \in Seq(Rows) /\ Len(diagnoses) \in Nat
  BY DEF IInv, TypeInv
<1>3. DOMAIN diagnoses = 1 .. Len(diagnoses)
  BY <1>2
<1>4. [job |-> job[w], data |-> data[job[w]], createdAt |-> arrived] \in Rows
  BY <1>1 DEF IInv, TypeInv, Rows
<1>5. diagnoses' = Append(diagnoses,
                          [job |-> job[w], data |-> data[job[w]], createdAt |-> arrived])
  BY DEF Insert
<1>6. Len(diagnoses') = Len(diagnoses) + 1 /\ DOMAIN diagnoses' = 1 .. Len(diagnoses) + 1
  BY <1>2, <1>4, <1>5
<1>7. \A i \in DOMAIN diagnoses : diagnoses'[i] = diagnoses[i]
  BY <1>2, <1>3, <1>4, <1>5
<1>8. diagnoses'[Len(diagnoses) + 1]
        = [job |-> job[w], data |-> data[job[w]], createdAt |-> arrived]
  BY <1>2, <1>4, <1>5
<1>9. /\ diagnoses'[Len(diagnoses) + 1].job = job[w]
      /\ diagnoses'[Len(diagnoses) + 1].data = data[job[w]]
  BY <1>8
<1> QED BY <1>1, <1>2, <1>3, <1>6, <1>7, <1>9

\* The owners of the diagnoses.
LEMMA DiagnosesHaveJobs ==
  ASSUME diagnoses \in Seq(Rows)
  PROVE  \A k \in DOMAIN diagnoses : diagnoses[k].job \in Requests
<1>1. \A k \in DOMAIN diagnoses : diagnoses[k] \in Rows
  OBVIOUS
<1> QED BY <1>1 DEF Rows

LEMMA NextHolds == ASSUME IInv, Next PROVE HoldInv'
<1>0. TypeInv /\ HoldInv
  BY DEF IInv
<1> USE <1>0 DEF TypeInv, HoldInv
<1>1. CASE Arrive
  BY <1>1 DEF Arrive, jobVars, requestVars, workerVars
<1>2. ASSUME NEW r \in Requests, Request(r) \/ LookUp(r) \/ Enqueue(r) PROVE HoldInv'
  <2>1. UNCHANGED <<diagnoses, wpc, job, made>>
    BY <1>2 DEF Request, LookUp, Enqueue, workerVars
  <2>2. \A j \in Requests : status[j] # "none" => status'[j] # "none"
    BY <1>2 DEF Request, LookUp, Enqueue, jobVars
  <2> QED BY <2>1, <2>2
<1>3. ASSUME NEW w \in Workers, NEW j \in Requests, Claim(w, j) PROVE HoldInv'
  BY <1>3 DEF Claim, GoTo
<1>4. ASSUME NEW w \in Workers, Insert(w) PROVE HoldInv'
  <2>1. UNCHANGED <<status, job>> /\ made' = [made EXCEPT ![w] = Len(diagnoses) + 1]
    BY <1>4, InsertAppends DEF Insert, jobVars
  <2>2. wpc[w] = "insert" /\ (GoTo(w, "save") \/ GoTo(w, "fail"))
    BY <1>4 DEF Insert
  <2>3. \A v \in Workers : job'[v] = NoJob <=> wpc'[v] = "idle"
    BY <2>1, <2>2 DEF GoTo
  <2>4. /\ DOMAIN diagnoses' = DOMAIN diagnoses \cup {Len(diagnoses) + 1}
        /\ \A i \in DOMAIN diagnoses : diagnoses'[i] = diagnoses[i]
        /\ diagnoses'[Len(diagnoses) + 1].job = job[w]
    BY <1>4, InsertAppends
  <2>5. ASSUME NEW v \in Workers, wpc'[v] = "save"
        PROVE  made'[v] \in DOMAIN diagnoses' /\ diagnoses'[made'[v]].job = job'[v]
    <3>1. CASE v = w
      BY <2>1, <2>4, <3>1
    <3>2. CASE v # w
      <4>1. wpc[v] = "save" /\ made'[v] = made[v]
        BY <2>1, <2>2, <2>5, <3>2 DEF GoTo
      <4> QED BY <2>1, <2>4, <4>1
    <3> QED BY <3>1, <3>2
  <2> QED BY <2>1, <2>3, <2>5
<1>5. ASSUME NEW w \in Workers, CallAi(w) \/ InsertFails(w) PROVE HoldInv'
  BY <1>5 DEF CallAi, InsertFails, GoTo, jobVars
<1>6. ASSUME NEW w \in Workers,
             Park(w) \/ SaveCompleted(w) \/ SaveFailure(w) \/ LoseLease(w) \/ Crash(w)
      PROVE  HoldInv'
  <2>1. Leave(w) /\ UNCHANGED diagnoses
    BY <1>6 DEF Park, SaveCompleted, SaveFailure, LoseLease, Crash
  <2>2. \A j \in Requests : status[j] # "none" => status'[j] # "none"
    BY <1>6 DEF Park, SaveCompleted, SaveFailure, LoseLease, Crash, jobVars
  <2> QED BY <2>1, <2>2 DEF Leave, GoTo
<1> QED BY <1>1, <1>2, <1>3, <1>4, <1>5, <1>6 DEF Next

LEMMA NextSettled == ASSUME IInv, Next PROVE SettledInv'
<1>0. /\ TypeInv /\ SettledInv
      /\ \A k \in DOMAIN diagnoses : diagnoses[k].job \in Requests
  BY DiagnosesHaveJobs DEF IInv, TypeInv
<1> USE <1>0 DEF TypeInv, SettledInv
<1>1. CASE Arrive
  BY <1>1 DEF Arrive, jobVars, requestVars
<1>2. ASSUME NEW r \in Requests, Request(r) PROVE SettledInv'
  <2>1. UNCHANGED <<diagnoses, status, seen>> /\ rpc[r] = "new"
    BY <1>2 DEF Request, jobVars
  <2>2. \A j \in Requests \ {r} : rpc'[j] = rpc[j] /\ data'[j] = data[j] /\ force'[j] = force[j]
    BY <1>2 DEF Request, Then
  <2>3. rpc'[r] \in {"lookup", "refused"}
    BY <1>2 DEF Request, Then
  <2> QED BY <2>1, <2>2, <2>3
<1>3. ASSUME NEW r \in Requests, LookUp(r) PROVE SettledInv'
  <2>1. UNCHANGED <<diagnoses, status, data, force>> /\ rpc[r] = "lookup"
    BY <1>3 DEF LookUp, jobVars
  <2>2. \A j \in Requests \ {r} : rpc'[j] = rpc[j] /\ seen'[j] = seen[j]
    BY <1>3 DEF LookUp, Then
  <2>3. seen'[r] = Len(diagnoses)
    BY <1>3 DEF LookUp
  <2>4. rpc'[r] = "cached" \/ (rpc'[r] = "enqueue" /\ (force[r] \/ Stored(r) = {}))
    BY <1>3 DEF LookUp, Then
  <2>5. Stored(r) = {} => \A i \in DOMAIN diagnoses : diagnoses[i].data # data[r]
    BY DEF Stored
  <2>6. ASSUME NEW j \in Requests, rpc'[j] \in {"enqueue", "accepted"}, ~force[j],
               NEW i \in DOMAIN diagnoses, i <= seen'[j]
        PROVE  diagnoses[i].data # data[j]
    <3>1. CASE j = r
      BY <2>4, <2>5, <2>6, <3>1
    <3>2. CASE j # r
      BY <2>2, <2>6, <3>2
    <3> QED BY <3>1, <3>2
  <2>7. \A j \in Requests : status[j] # "none" => rpc'[j] = "accepted"
    BY <2>1, <2>2
  <2>8. ASSUME NEW j \in Requests PROVE seen'[j] <= Len(diagnoses)
    <3>1. CASE j = r
      <4>1. Len(diagnoses) \in Nat
        OBVIOUS
      <4> QED BY <2>3, <3>1, <4>1
    <3>2. CASE j # r
      BY <2>2, <3>2
    <3> QED BY <3>1, <3>2
  <2> QED BY <2>1, <2>6, <2>7, <2>8
<1>4. ASSUME NEW r \in Requests, Enqueue(r) PROVE SettledInv'
  <2>1. UNCHANGED <<diagnoses, data, force, seen>> /\ rpc[r] = "enqueue"
    BY <1>4 DEF Enqueue
  <2>2. rpc' = [rpc EXCEPT ![r] = "accepted"]
    BY <1>4 DEF Enqueue, Then
  <2>3. status' = status \/ status' = [status EXCEPT ![r] = "queued"]
    BY <1>4 DEF Enqueue
  <2> QED BY <2>1, <2>2, <2>3
<1>5. ASSUME NEW w \in Workers, Insert(w) PROVE SettledInv'
  <2>1. UNCHANGED <<status, rpc, data, force, seen>>
    BY <1>5 DEF Insert, jobVars, requestVars
  <2>2. /\ DOMAIN diagnoses' = DOMAIN diagnoses \cup {Len(diagnoses) + 1}
        /\ Len(diagnoses) \in Nat /\ Len(diagnoses') = Len(diagnoses) + 1
        /\ \A i \in DOMAIN diagnoses : diagnoses'[i] = diagnoses[i]
        /\ diagnoses'[Len(diagnoses) + 1].job = job[w]
        /\ diagnoses'[Len(diagnoses) + 1].data = data[job[w]]
        /\ status[job[w]] # "none"
    BY <1>5, InsertAppends
  <2>3. ASSUME NEW j \in Requests, rpc[j] \in {"enqueue", "accepted"}, ~force[j],
               NEW i \in DOMAIN diagnoses', i <= seen[j]
        PROVE  diagnoses'[i].data # data[j]
    <3>1. i # Len(diagnoses) + 1
      BY <2>2, <2>3
    <3> QED BY <2>2, <2>3, <3>1
  <2>4. ASSUME NEW k \in DOMAIN diagnoses'
        PROVE  /\ diagnoses'[k].data = data[diagnoses'[k].job]
               /\ status[diagnoses'[k].job] # "none"
    BY <2>2
  <2>5. \A j \in Requests : seen[j] <= Len(diagnoses')
    BY <2>2
  <2> QED BY <2>1, <2>3, <2>4, <2>5
<1>6. ASSUME UNCHANGED <<diagnoses, requestVars>>,
             \A j \in Requests : status'[j] = "none" <=> status[j] = "none"
      PROVE  SettledInv'
  BY <1>6 DEF requestVars
<1>7. ASSUME NEW w \in Workers, NEW j \in Requests, Claim(w, j) PROVE SettledInv'
  <2>1. UNCHANGED <<diagnoses, requestVars>>
    BY <1>7 DEF Claim
  <2>2. \A i \in Requests : status'[i] = "none" <=> status[i] = "none"
    BY <1>7 DEF Claim, Active
  <2> QED BY <1>6, <2>1, <2>2
<1>8. ASSUME NEW w \in Workers,
             CallAi(w) \/ Park(w) \/ InsertFails(w)
             \/ SaveCompleted(w) \/ SaveFailure(w) \/ LoseLease(w) \/ Crash(w)
      PROVE  SettledInv'
  <2>1. UNCHANGED <<diagnoses, requestVars>>
    BY <1>8 DEF CallAi, Park, InsertFails, SaveCompleted, SaveFailure, LoseLease, Crash
  <2>2. \A i \in Requests : status'[i] = "none" <=> status[i] = "none"
    BY <1>8 DEF CallAi, Park, InsertFails, SaveCompleted, SaveFailure, LoseLease, Crash, jobVars,
                Fenced
  <2> QED BY <1>6, <2>1, <2>2
<1> QED BY <1>1, <1>2, <1>3, <1>4, <1>5, <1>7, <1>8 DEF Next

LEMMA NextCompleted == ASSUME IInv, Next PROVE CompletedInv'
<1>0. TypeInv /\ HoldInv /\ CompletedInv
  BY DEF IInv
<1>1. ASSUME NEW w \in Workers, SaveCompleted(w) PROVE CompletedInv'
  <2>1. job[w] \in Requests /\ made[w] \in DOMAIN diagnoses /\ diagnoses[made[w]].job = job[w]
    BY <1>0, <1>1 DEF SaveCompleted, TypeInv, HoldInv
  <2>2. /\ status' = [status EXCEPT ![job[w]] = "completed"]
        /\ result' = [result EXCEPT ![job[w]] = made[w]] /\ UNCHANGED diagnoses
    BY <1>1 DEF SaveCompleted
  <2> QED BY <1>0, <2>1, <2>2 DEF TypeInv, CompletedInv
<1>2. ASSUME UNCHANGED result,
             \A j \in Requests : status'[j] = "completed" => status[j] = "completed",
             \A i \in DOMAIN diagnoses : i \in DOMAIN diagnoses' /\ diagnoses'[i] = diagnoses[i]
      PROVE  CompletedInv'
  BY <1>0, <1>2 DEF CompletedInv
<1>3. CASE Arrive \/ \E r \in Requests : Request(r) \/ LookUp(r) \/ Enqueue(r)
  <2>1. UNCHANGED <<result, diagnoses>>
    BY <1>3 DEF Arrive, Request, LookUp, Enqueue, jobVars
  <2>2. \A j \in Requests : status'[j] = "completed" => status[j] = "completed"
    BY <1>0, <1>3 DEF Arrive, Request, LookUp, Enqueue, jobVars, TypeInv
  <2> QED BY <1>2, <2>1, <2>2
<1>4. ASSUME NEW w \in Workers, NEW j \in Requests, Claim(w, j) PROVE CompletedInv'
  <2>1. UNCHANGED <<result, diagnoses>>
    BY <1>4 DEF Claim
  <2>2. \A i \in Requests : status'[i] = "completed" => status[i] = "completed"
    BY <1>0, <1>4 DEF Claim, TypeInv
  <2> QED BY <1>2, <2>1, <2>2
<1>5. ASSUME NEW w \in Workers, Insert(w) PROVE CompletedInv'
  <2>1. UNCHANGED <<result, status>>
    BY <1>5 DEF Insert, jobVars
  <2>2. \A i \in DOMAIN diagnoses : i \in DOMAIN diagnoses' /\ diagnoses'[i] = diagnoses[i]
    BY <1>5, InsertAppends
  <2> QED BY <1>2, <2>1, <2>2
<1>6. ASSUME NEW w \in Workers,
             CallAi(w) \/ Park(w) \/ InsertFails(w) \/ SaveFailure(w) \/ LoseLease(w) \/ Crash(w)
      PROVE  CompletedInv'
  <2>1. UNCHANGED <<result, diagnoses>>
    BY <1>6 DEF CallAi, Park, InsertFails, SaveFailure, LoseLease, Crash, jobVars
  <2>2. \A j \in Requests : status'[j] = "completed" => status[j] = "completed"
    BY <1>0, <1>6 DEF CallAi, Park, InsertFails, SaveFailure, LoseLease, Crash, jobVars, TypeInv
  <2> QED BY <1>2, <2>1, <2>2
<1> QED BY <1>1, <1>3, <1>4, <1>5, <1>6 DEF Next

\* The package goes with the save that ends the job; Fenced keeps that of a
\* worker without its lease from touching a job that ended or goes on.
LEMMA NextTexts == ASSUME IInv, Next PROVE TextsLeaveTheJob'
<1>0. TypeInv /\ HoldInv /\ TextsLeaveTheJob
  BY DEF IInv
<1>1. ASSUME UNCHANGED <<status, package, data>> PROVE TextsLeaveTheJob'
  BY <1>0, <1>1 DEF TextsLeaveTheJob, Active
<1>2. ASSUME NEW r \in Requests, Request(r) PROVE TextsLeaveTheJob'
  <2>1. UNCHANGED <<status, package>> /\ data' = [data EXCEPT ![r] = arrived]
    BY <1>2 DEF Request, jobVars
  <2>2. status[r] = "none"
    BY <1>2 DEF Request, IInv, SettledInv
  <2>3. \A j \in Requests \ {r} : data'[j] = data[j]
    BY <1>0, <2>1 DEF TypeInv
  <2> QED BY <1>0, <2>1, <2>2, <2>3 DEF TextsLeaveTheJob, Active, Ended
<1>3. ASSUME NEW r \in Requests, LookUp(r) PROVE TextsLeaveTheJob'
  BY <1>1, <1>3 DEF LookUp, jobVars
<1>4. ASSUME NEW r \in Requests, Enqueue(r) PROVE TextsLeaveTheJob'
  <2>1. CASE UNCHANGED <<status, package>>
    BY <1>1, <1>4, <2>1 DEF Enqueue
  <2>2. CASE /\ status' = [status EXCEPT ![r] = "queued"]
             /\ package' = [package EXCEPT ![r] = data[r]]
    <3>1. UNCHANGED data
      BY <1>4 DEF Enqueue
    <3> QED BY <1>0, <2>2, <3>1 DEF TypeInv, TextsLeaveTheJob, Active, Ended
  <2> QED BY <1>4, <2>1, <2>2 DEF Enqueue
<1>5. ASSUME NEW w \in Workers, NEW j \in Requests, Claim(w, j) PROVE TextsLeaveTheJob'
  <2>1. /\ UNCHANGED <<package, data>> /\ status' = [status EXCEPT ![j] = "running"]
        /\ Active(j)
    BY <1>5 DEF Claim, requestVars
  <2> QED BY <1>0, <2>1 DEF TypeInv, TextsLeaveTheJob, Active, Ended
<1>6. ASSUME NEW w \in Workers, CallAi(w) \/ Insert(w) \/ InsertFails(w) \/ LoseLease(w) \/ Crash(w)
      PROVE  TextsLeaveTheJob'
  BY <1>1, <1>6 DEF CallAi, Insert, InsertFails, LoseLease, Crash, jobVars, requestVars
<1>7. ASSUME NEW w \in Workers, Park(w) \/ SaveCompleted(w) \/ SaveFailure(w)
      PROVE  TextsLeaveTheJob'
  <2>1. job[w] \in Requests /\ status[job[w]] = "running" /\ UNCHANGED data
    BY <1>0, <1>7 DEF Park, SaveCompleted, SaveFailure, Fenced, HoldInv, TypeInv, requestVars
  <2>2. PICK after \in {"waiting_budget", "queued", "completed", "failed"} :
          /\ status' = [status EXCEPT ![job[w]] = after]
          /\ package' = IF after \in Ended THEN [package EXCEPT ![job[w]] = NoPackage] ELSE package
    BY <1>7 DEF Park, SaveCompleted, SaveFailure, Ended
  <2> QED BY <1>0, <2>1, <2>2 DEF TypeInv, TextsLeaveTheJob, Active, Ended
<1> QED BY <1>1, <1>2, <1>3, <1>4, <1>5, <1>6, <1>7 DEF Next, Arrive, jobVars, requestVars

Alone ==
  /\ \A w \in Workers : job[w] # NoJob => Fenced(w)
  /\ \A v, w \in Workers : job[v] = job[w] /\ job[w] # NoJob => v = w
  /\ \A w \in Workers : wpc[w] # "fail"
Unfinished(i) == \/ status[diagnoses[i].job] = "completed"
                 \/ \E w \in Workers : job[w] = diagnoses[i].job /\ wpc[w] = "save"
PaidOnce ==
  /\ \A i \in DOMAIN diagnoses : Unfinished(i)
  /\ \A i, k \in DOMAIN diagnoses : diagnoses[i].job = diagnoses[k].job => i = k

LEMMA CalmParts == CalmInv <=> (mishaps = 0 => Alone /\ PaidOnce)
BY DEF CalmInv, Alone, PaidOnce, Unfinished

\* A claim without mishap takes a job that nobody holds.
LEMMA CalmClaim ==
  ASSUME IInv, Alone, PaidOnce, NEW w \in Workers, NEW j \in Requests, Claim(w, j), UNCHANGED mishaps
  PROVE  Alone' /\ PaidOnce'
<1>0. TypeInv /\ HoldInv /\ \A i \in DOMAIN diagnoses : diagnoses[i].job \in Requests
  BY DiagnosesHaveJobs DEF IInv, TypeInv
<1>1. ~Held(j)
  BY <1>0 DEF Claim, Mishap, TypeInv
<1>2. \A v \in Workers : job[v] # j
  BY <1>1 DEF Held, Alone
<1>3. /\ job' = [job EXCEPT ![w] = j] /\ wpc' = [wpc EXCEPT ![w] = "call"]
      /\ status' = [status EXCEPT ![j] = "running"] /\ attempts' = [attempts EXCEPT ![j] = @ + 1]
      /\ rev' = [rev EXCEPT ![w] = attempts[j] + 1]
      /\ UNCHANGED diagnoses /\ wpc[w] = "idle" /\ Active(j)
  BY DEF Claim, GoTo
<1>4. \A v \in Workers : job'[v] # NoJob => Fenced(v)'
  <2> SUFFICES ASSUME NEW v \in Workers, job'[v] # NoJob
               PROVE  status'[job'[v]] = "running" /\ attempts'[job'[v]] = rev'[v]
    BY DEF Fenced
  <2>1. CASE v = w
    BY <1>0, <1>3, <2>1 DEF TypeInv
  <2>2. CASE v # w
    <3>1. job'[v] = job[v] /\ job[v] # j /\ job[v] \in Requests
      BY <1>0, <1>2, <1>3, <2>2 DEF TypeInv
    <3>2. status[job[v]] = "running" /\ attempts[job[v]] = rev[v]
      BY <3>1 DEF Alone, Fenced
    <3> QED BY <1>0, <1>3, <2>2, <3>1, <3>2 DEF TypeInv
  <2> QED BY <2>1, <2>2
<1>5. Alone'
  <2>1. \A u, v \in Workers : job'[u] = job'[v] /\ job'[v] # NoJob => u = v
    BY <1>0, <1>2, <1>3 DEF TypeInv, Alone
  <2>2. \A v \in Workers : wpc'[v] # "fail"
    BY <1>0, <1>3 DEF TypeInv, Alone
  <2> QED BY <1>4, <2>1, <2>2 DEF Alone
<1>6. \A i \in DOMAIN diagnoses : Unfinished(i)'
  BY <1>0, <1>3 DEF PaidOnce, Unfinished, TypeInv, Active
<1> QED BY <1>3, <1>5, <1>6 DEF PaidOnce

\* An insert without mishap is the first of its job.
LEMMA CalmInsert ==
  ASSUME IInv, Alone, PaidOnce, NEW w \in Workers, Insert(w), UNCHANGED mishaps
  PROVE  Alone' /\ PaidOnce'
<1>0. TypeInv /\ HoldInv
  BY DEF IInv
<1>1. wpc[w] = "insert" /\ wpc' = [wpc EXCEPT ![w] = "save"] /\ UNCHANGED <<status, attempts, job, rev>>
  BY <1>0 DEF Insert, GoTo, Mishap, TypeInv, jobVars
<1>2. Alone'
  BY <1>0, <1>1 DEF Alone, Fenced, TypeInv
<1>3. /\ DOMAIN diagnoses' = DOMAIN diagnoses \cup {Len(diagnoses) + 1}
      /\ \A i \in DOMAIN diagnoses : diagnoses'[i] = diagnoses[i]
      /\ diagnoses'[Len(diagnoses) + 1].job = job[w]
  BY InsertAppends
<1>4. job[w] # NoJob /\ status[job[w]] = "running"
  BY <1>0, <1>1 DEF HoldInv, Alone, Fenced
<1>5. \A i \in DOMAIN diagnoses : diagnoses[i].job # job[w]
  <2> SUFFICES ASSUME NEW i \in DOMAIN diagnoses, diagnoses[i].job = job[w] PROVE FALSE
    OBVIOUS
  <2>1. PICK v \in Workers : job[v] = job[w] /\ wpc[v] = "save"
    BY <1>4 DEF PaidOnce, Unfinished
  <2> QED BY <1>1, <1>4, <2>1 DEF Alone
<1>6. \A i \in DOMAIN diagnoses' : Unfinished(i)'
  <2> SUFFICES ASSUME NEW i \in DOMAIN diagnoses'
               PROVE  \/ status[diagnoses'[i].job] = "completed"
                      \/ \E v \in Workers : job[v] = diagnoses'[i].job /\ wpc'[v] = "save"
    BY <1>1 DEF Unfinished
  <2>1. wpc'[w] = "save" /\ \A v \in Workers : wpc[v] = "save" => wpc'[v] = "save"
    BY <1>0, <1>1 DEF TypeInv
  <2>2. CASE i \in DOMAIN diagnoses
    BY <1>3, <2>1, <2>2 DEF PaidOnce, Unfinished
  <2>3. CASE i = Len(diagnoses) + 1
    BY <1>3, <2>1, <2>3
  <2> QED BY <1>3, <2>2, <2>3
<1>7. ASSUME NEW i \in DOMAIN diagnoses', NEW k \in DOMAIN diagnoses',
             diagnoses'[i].job = diagnoses'[k].job
      PROVE  i = k
  BY <1>3, <1>5, <1>7 DEF PaidOnce
<1> QED BY <1>2, <1>6, <1>7 DEF PaidOnce

LEMMA CalmSave ==
  ASSUME IInv, Alone, PaidOnce, NEW w \in Workers, SaveCompleted(w)
  PROVE  Alone' /\ PaidOnce'
<1>0. TypeInv /\ HoldInv /\ \A i \in DOMAIN diagnoses : diagnoses[i].job \in Requests
  BY DiagnosesHaveJobs DEF IInv, TypeInv
<1>1. /\ status' = [status EXCEPT ![job[w]] = "completed"]
      /\ job' = [job EXCEPT ![w] = NoJob] /\ wpc' = [wpc EXCEPT ![w] = "idle"]
      /\ rev' = [rev EXCEPT ![w] = 0] /\ UNCHANGED <<attempts, diagnoses>> /\ wpc[w] = "save"
  BY DEF SaveCompleted, Leave, GoTo
<1>2. job[w] \in Requests /\ job[w] # NoJob
  BY <1>0, <1>1 DEF HoldInv, TypeInv
<1>3. \A v \in Workers : job'[v] # NoJob => Fenced(v)'
  <2> SUFFICES ASSUME NEW v \in Workers, job'[v] # NoJob
               PROVE  status'[job'[v]] = "running" /\ attempts[job'[v]] = rev'[v]
    BY <1>1 DEF Fenced
  <2>1. v # w /\ job'[v] = job[v] /\ rev'[v] = rev[v] /\ job[v] \in Requests
    BY <1>0, <1>1 DEF TypeInv
  <2>2. job[v] # job[w] /\ status[job[v]] = "running" /\ attempts[job[v]] = rev[v]
    BY <1>2, <2>1 DEF Alone, Fenced
  <2> QED BY <1>0, <1>1, <2>1, <2>2 DEF TypeInv
<1>4. Alone'
  BY <1>0, <1>1, <1>3 DEF TypeInv, Alone
<1>5. ASSUME NEW i \in DOMAIN diagnoses PROVE Unfinished(i)'
  <2>1. CASE diagnoses[i].job = job[w]
    BY <1>0, <1>1, <1>2, <2>1 DEF TypeInv, Unfinished
  <2>2. CASE diagnoses[i].job # job[w]
    BY <1>0, <1>1, <2>2 DEF TypeInv, PaidOnce, Unfinished
  <2> QED BY <2>1, <2>2
<1> QED BY <1>1, <1>4, <1>5 DEF PaidOnce

LEMMA NextCalm == ASSUME IInv, Next PROVE CalmInv'
<1>0. TypeInv /\ HoldInv /\ \A i \in DOMAIN diagnoses : diagnoses[i].job \in Requests
  BY DiagnosesHaveJobs DEF IInv, TypeInv
<1>1. SUFFICES ASSUME mishaps' = 0 PROVE Alone' /\ PaidOnce'
  BY CalmParts DEF CalmInv, Alone, PaidOnce, Unfinished
<1>2. ~Mishap
  BY <1>0, <1>1 DEF Mishap, TypeInv
<1>3. UNCHANGED mishaps
  BY <1>2 DEF Next, Arrive, Request, LookUp, Enqueue, Claim, CallAi, Park, Insert, InsertFails,
              SaveCompleted, SaveFailure, LoseLease, Crash
<1>4. Alone /\ PaidOnce
  BY <1>1, <1>3, CalmParts DEF IInv
<1>5. CASE Arrive \/ \E r \in Requests : Request(r) \/ LookUp(r) \/ Enqueue(r)
  <2>1. UNCHANGED <<attempts, diagnoses, workerVars>>
    BY <1>5 DEF Arrive, Request, LookUp, Enqueue, jobVars
  <2>2. \A j \in Requests : status[j] # "none" => status'[j] = status[j]
    BY <1>0, <1>5 DEF Arrive, Request, LookUp, Enqueue, jobVars, TypeInv, IInv, SettledInv
  <2>3. Alone'
    BY <1>0, <1>4, <2>1, <2>2 DEF Alone, Fenced, TypeInv, workerVars
  <2>4. PaidOnce'
    BY <1>0, <1>4, <2>1, <2>2 DEF PaidOnce, Unfinished, TypeInv, workerVars
  <2> QED BY <2>3, <2>4
<1>6. ASSUME NEW w \in Workers, CallAi(w) PROVE Alone' /\ PaidOnce'
  <2>1. wpc[w] = "call" /\ wpc' = [wpc EXCEPT ![w] = "insert"]
        /\ UNCHANGED <<diagnoses, status, attempts, job, rev>>
    BY <1>2, <1>6 DEF CallAi, GoTo, jobVars
  <2>2. Alone'
    BY <1>0, <1>4, <2>1 DEF Alone, Fenced, TypeInv
  <2>3. PaidOnce'
    BY <1>0, <1>4, <2>1 DEF PaidOnce, Unfinished, TypeInv
  <2> QED BY <2>2, <2>3
<1>7. ASSUME NEW w \in Workers PROVE ~(Park(w) \/ InsertFails(w) \/ Crash(w))
  BY <1>2 DEF Park, InsertFails, Crash
<1>8. ASSUME NEW w \in Workers PROVE ~(SaveFailure(w) \/ LoseLease(w))
  BY <1>0, <1>4 DEF SaveFailure, LoseLease, Alone, HoldInv
<1> QED BY <1>3, <1>4, <1>5, <1>6, <1>7, <1>8, CalmClaim, CalmInsert, CalmSave DEF Next

(* What the request settled reaches every insert, with or without a lease,   *)
(* and before the first mishap every holder has its lease and is alone.      *)
THEOREM Invariance == Spec => []IInv
<1>1. Init => IInv
  BY InitHolds
<1>2. IInv /\ [Next]_vars => IInv'
  <2>1. ASSUME IInv, UNCHANGED vars PROVE IInv'
    BY <2>1 DEF IInv, TypeInv, HoldInv, SettledInv, CompletedInv, CalmInv, TextsLeaveTheJob,
                Active, Fenced, vars, jobVars, requestVars, workerVars
  <2> QED BY <2>1, NextTypes, NextHolds, NextSettled, NextCompleted, NextCalm, NextTexts DEF IInv
<1> QED BY <1>1, <1>2, PTL DEF Spec

(* On every path on which a job ends its texts leave it, and a job that may  *)
(* be claimed has the package its request built (ia job.options).            *)
THEOREM TextsGo == Spec => []TextsLeaveTheJob
BY Invariance, PTL DEF IInv

(* The AI service is paid twice for one job only after a mishap, and a       *)
(* completed job points at a diagnosis of its own.                           *)
THEOREM OneJobIsPaidOnce == Spec => []SecondCallMeansMishap
<1>1. IInv => SecondCallMeansMishap
  <2> SUFFICES ASSUME IInv PROVE SecondCallMeansMishap
    OBVIOUS
  <2>1. \A j \in Requests :
          status[j] = "completed" => result[j] > 0 /\ diagnoses[result[j]].job = j
    BY DEF IInv, TypeInv, CompletedInv
  <2>2. ASSUME NEW i \in DOMAIN diagnoses, NEW k \in DOMAIN diagnoses,
               i < k, diagnoses[i].job = diagnoses[k].job
        PROVE  mishaps > 0
    <3>1. i \in Nat /\ k \in Nat /\ i # k /\ mishaps \in Nat
      BY <2>2 DEF IInv, TypeInv
    <3>2. mishaps # 0
      BY <2>2, <3>1 DEF IInv, CalmInv
    <3> QED BY <3>1, <3>2
  <2> QED BY <2>1, <2>2 DEF SecondCallMeansMishap
<1> QED BY <1>1, Invariance, PTL

(* Two jobs for the same data: the second was forced, or did not see the     *)
(* diagnosis of the first when it looked (findScopeDiagnosisByHash).         *)
THEOREM LookUpsAreHeeded == Spec => []LaterDiagnosesKnowEarlierOnes
<1>1. IInv => LaterDiagnosesKnowEarlierOnes
  <2> SUFFICES ASSUME IInv, NEW i \in DOMAIN diagnoses, NEW k \in DOMAIN diagnoses,
                      i <= seen[diagnoses[k].job], ~force[diagnoses[k].job]
               PROVE  diagnoses[i].data # diagnoses[k].data
    BY DEF LaterDiagnosesKnowEarlierOnes
  <2>1. diagnoses[k].job \in Requests
    BY DiagnosesHaveJobs DEF IInv, TypeInv
  <2>2. diagnoses[k].data = data[diagnoses[k].job] /\ rpc[diagnoses[k].job] = "accepted"
    BY <2>1 DEF IInv, SettledInv
  <2> QED BY <2>1, <2>2 DEF IInv, SettledInv
<1> QED BY <1>1, Invariance, PTL
-----------------------------------------------------------------------------
(* The refinement of JobLease.                                               *)

\* Claims of a job are told apart by their revisions; only a completed job has
\* a result.
LeaseInv ==
  /\ \A w \in Workers : job[w] \in Requests => rev[w] <= attempts[job[w]]
  /\ \A v, w \in Workers : job[v] = job[w] /\ job[w] # NoJob /\ rev[v] = rev[w] => v = w
  /\ \A j \in Requests : result[j] # 0 => status[j] = "completed"

\* A step that raises no revision and gives no claim.
LEMMA ClaimsShrink ==
  ASSUME IInv, LeaseInv, attempts' = attempts,
         \A w \in Workers : \/ job'[w] = job[w] /\ rev'[w] = rev[w]
                            \/ job'[w] = NoJob
  PROVE  /\ \A w \in Workers : job'[w] \in Requests => rev'[w] <= attempts'[job'[w]]
         /\ \A v, w \in Workers : job'[v] = job'[w] /\ job'[w] # NoJob /\ rev'[v] = rev'[w]
                                    => v = w
BY DEF LeaseInv

LEMMA NextLease == ASSUME IInv, LeaseInv, Next PROVE LeaseInv'
<1>0. TypeInv /\ HoldInv
  BY DEF IInv
<1>1. ASSUME \/ Arrive
             \/ \E r \in Requests : Request(r) \/ LookUp(r) \/ Enqueue(r)
             \/ \E w \in Workers : \/ CallAi(w) \/ Insert(w) \/ InsertFails(w)
      PROVE  LeaseInv'
  <2>1. UNCHANGED <<attempts, result, job, rev>>
    BY <1>1 DEF Arrive, Request, LookUp, Enqueue, CallAi, Insert, InsertFails, jobVars,
                workerVars
  <2>2. \A j \in Requests : status[j] = "completed" => status'[j] = "completed"
    <3>1. \/ status' = status
          \/ \E r \in Requests : rpc[r] = "enqueue" /\ status' = [status EXCEPT ![r] = "queued"]
      BY <1>1 DEF Arrive, Request, LookUp, Enqueue, CallAi, Insert, InsertFails, jobVars
    <3>2. \A r \in Requests : rpc[r] = "enqueue" => status[r] = "none"
      BY DEF IInv, SettledInv
    <3> QED BY <1>0, <3>1, <3>2 DEF TypeInv
  <2> QED BY <2>1, <2>2 DEF LeaseInv
<1>2. ASSUME NEW w \in Workers, NEW j \in Requests, Claim(w, j) PROVE LeaseInv'
  <2>1. /\ attempts' = [attempts EXCEPT ![j] = @ + 1] /\ job' = [job EXCEPT ![w] = j]
        /\ rev' = [rev EXCEPT ![w] = attempts[j] + 1]
        /\ status' = [status EXCEPT ![j] = "running"] /\ status[j] # "completed"
        /\ result' = result
    BY <1>2 DEF Claim, Active
  <2>2. ASSUME NEW v \in Workers, job'[v] \in Requests PROVE rev'[v] <= attempts'[job'[v]]
    BY <1>0, <2>1, <2>2 DEF TypeInv, LeaseInv
  <2>3. ASSUME NEW u \in Workers, NEW v \in Workers,
               job'[u] = job'[v], job'[v] # NoJob, rev'[u] = rev'[v]
        PROVE  u = v
    <3>1. ASSUME NEW x \in Workers, x # w, job[x] = j PROVE rev[x] # attempts[j] + 1
      BY <1>0, <3>1 DEF TypeInv, LeaseInv
    <3> QED BY <1>0, <2>1, <2>3, <3>1 DEF TypeInv, LeaseInv
  <2>4. \A i \in Requests : result'[i] # 0 => status'[i] = "completed"
    BY <1>0, <2>1 DEF TypeInv, LeaseInv
  <2> QED BY <2>2, <2>3, <2>4 DEF LeaseInv
<1>3. ASSUME NEW w \in Workers,
             Park(w) \/ SaveCompleted(w) \/ SaveFailure(w) \/ LoseLease(w) \/ Crash(w)
      PROVE  LeaseInv'
  <2>1. Leave(w) /\ attempts' = attempts
    BY <1>3 DEF Park, SaveCompleted, SaveFailure, LoseLease, Crash, jobVars
  <2>2. \A v \in Workers : (job'[v] = job[v] /\ rev'[v] = rev[v]) \/ job'[v] = NoJob
    BY <1>0, <2>1 DEF Leave, TypeInv
  <2>3. ASSUME NEW j \in Requests, result'[j] # 0 PROVE status'[j] = "completed"
    <3>1. CASE LoseLease(w) \/ Crash(w)
      BY <2>3, <3>1 DEF LoseLease, Crash, jobVars, LeaseInv
    <3>2. CASE Park(w) \/ SaveFailure(w)
      <4>1. Fenced(w) /\ result' = result /\ \A i \in Requests : i # job[w] => status'[i] = status[i]
        BY <1>0, <3>2 DEF Park, SaveFailure, TypeInv
      <4> QED BY <2>3, <4>1 DEF LeaseInv, Fenced
    <3>3. CASE SaveCompleted(w)
      BY <1>0, <2>3, <3>3 DEF SaveCompleted, TypeInv, LeaseInv
    <3> QED BY <1>3, <3>1, <3>2, <3>3
  <2> QED BY <2>1, <2>2, <2>3, ClaimsShrink DEF LeaseInv
<1> QED BY <1>1, <1>2, <1>3 DEF Next

LEMMA LeaseInvariance == Spec => [](IInv /\ LeaseInv)
<1>1. Init => LeaseInv
  BY DEF Init, LeaseInv
<1>2. IInv /\ LeaseInv /\ [Next]_vars => LeaseInv'
  BY NextLease DEF vars, jobVars, workerVars, LeaseInv
<1> QED BY <1>1, <1>2, Invariance, PTL DEF Spec

\* Under LeaseInv a job has one holder, which is its owner.
OwnerReadsHolder ==
  \A j \in Requests : \/ \E w \in Workers : Holds(w, j) /\ ownerOf[j] = w
                      \/ (\A w \in Workers : ~Holds(w, j)) /\ ownerOf[j] = Nobody

LEMMA OneHolder ==
  ASSUME LeaseInv, NEW v \in Workers, NEW w \in Workers, NEW j \in Requests,
         Holds(v, j), Holds(w, j)
  PROVE  v = w
BY DEF LeaseInv, Holds, Fenced

LEMMA OwnerIsHolder == OwnerReadsHolder
BY DEF OwnerReadsHolder, ownerOf

LEMMA OwnerIsHolderNext == OwnerReadsHolder'
BY OwnerIsHolder, PTL

SameHolding(j) == \A w \in Workers : Holds(w, j)' <=> Holds(w, j)
LeaseStep == [Lease!LeaseNext]_(Lease!leaseVars)

\* The owner of a job changes only where its holder does.
LEMMA SameOwner ==
  ASSUME LeaseInv, LeaseInv', NEW j \in Requests, SameHolding(j)
  PROVE  ownerOf'[j] = ownerOf[j]
<1>1. \A v, w \in Workers : Holds(v, j) /\ Holds(w, j) => v = w
  BY OneHolder
<1> QED BY <1>1, OwnerIsHolder, OwnerIsHolderNext DEF OwnerReadsHolder, SameHolding

LEMMA NewOwner ==
  ASSUME LeaseInv, LeaseInv', NEW i \in Requests, NEW o,
         \A j \in Requests \ {i} : SameHolding(j),
         \/ o \in Workers /\ \A w \in Workers : Holds(w, i)' <=> w = o
         \/ o = Nobody /\ \A w \in Workers : ~Holds(w, i)'
  PROVE  ownerOf' = [ownerOf EXCEPT ![i] = o]
<1>1. ownerOf'[i] = o
  BY OwnerIsHolderNext DEF OwnerReadsHolder
<1>2. \A j \in Requests \ {i} : ownerOf'[j] = ownerOf[j]
  BY SameOwner
<1>3. /\ ownerOf = [j \in Requests |-> ownerOf[j]]
      /\ ownerOf' = [j \in Requests |-> ownerOf'[j]]
  BY DEF ownerOf
<1> QED BY <1>1, <1>2, <1>3

\* A step that moves no status, no revision and no result, and gives up no
\* lease, is a stutter of the queue.
LEMMA QuietStep ==
  ASSUME LeaseInv, LeaseInv', phaseOf' = phaseOf, doneOf' = doneOf,
         \A j \in Requests : SameHolding(j)
  PROVE  LeaseStep
<1>1. \A j \in Requests : ownerOf'[j] = ownerOf[j]
  BY SameOwner
<1>2. ownerOf' = ownerOf
  BY <1>1 DEF ownerOf
<1> QED BY <1>2 DEF LeaseStep, Lease!leaseVars

\* An accepted request inserts a job that was absent.
LEMMA EnqueueRefines ==
  ASSUME IInv, LeaseInv, LeaseInv', NEW r \in Requests, Enqueue(r)
  PROVE  LeaseStep
<1>0. UNCHANGED <<attempts, result, job, rev>> /\ doneOf' = doneOf
  BY DEF Enqueue, workerVars, doneOf
<1>1. CASE \E j \in Requests : Active(j)
  <2>1. status' = status
    BY <1>1 DEF Enqueue
  <2> QED BY <1>0, <2>1, QuietStep DEF phaseOf, Active, SameHolding, Holds, Fenced
<1>2. CASE ~ \E j \in Requests : Active(j)
  <2>1. status' = [status EXCEPT ![r] = "queued"]
    BY <1>2 DEF Enqueue
  <2>2. status[r] = "none"
    BY DEF Enqueue, IInv, SettledInv
  <2>3. phaseOf[r] = "absent" /\ phaseOf' = [phaseOf EXCEPT ![r] = "open"]
    BY <2>1, <2>2 DEF phaseOf, Active, IInv, TypeInv
  <2>4. \A j \in Requests : SameHolding(j)
    BY <1>0, <2>1, <2>2 DEF SameHolding, Holds, Fenced, IInv, TypeInv
  <2>5. \A j \in Requests : ownerOf'[j] = ownerOf[j]
    BY <2>4, SameOwner
  <2>6. ownerOf' = ownerOf
    BY <2>5 DEF ownerOf
  <2> QED BY <1>0, <2>3, <2>6 DEF LeaseStep, Lease!LeaseNext, Lease!Open
<1> QED BY <1>1, <1>2

\* A claim takes an open job, from a stalled owner or from nobody.
LEMMA ClaimRefines ==
  ASSUME IInv, LeaseInv, LeaseInv', NEW w \in Workers, NEW i \in Requests, Claim(w, i)
  PROVE  LeaseStep
<1>0. /\ job[w] = NoJob /\ Active(i) /\ result' = result
      /\ status' = [status EXCEPT ![i] = "running"]
      /\ attempts' = [attempts EXCEPT ![i] = @ + 1]
      /\ job' = [job EXCEPT ![w] = i] /\ rev' = [rev EXCEPT ![w] = attempts[i] + 1]
  BY DEF Claim, IInv, HoldInv
<1>1. \A j \in Requests \ {i} : SameHolding(j)
  BY <1>0 DEF SameHolding, Holds, Fenced, IInv, TypeInv
<1>2. Holds(w, i)'
  BY <1>0 DEF Holds, Fenced, IInv, TypeInv
<1>3. ASSUME NEW v \in Workers, Holds(v, i)' PROVE v = w
  BY <1>0, <1>2, <1>3 DEF LeaseInv, Holds, Fenced
<1>4. ownerOf' = [ownerOf EXCEPT ![i] = w]
  BY <1>1, <1>2, <1>3, NewOwner
<1>5. phaseOf[i] = "open" /\ phaseOf' = phaseOf /\ doneOf' = doneOf
  BY <1>0 DEF phaseOf, doneOf, Active, IInv, TypeInv
<1> QED BY <1>4, <1>5 DEF LeaseStep, Lease!LeaseNext, Lease!Acquire

\* Parking, a failure and the end of the job: its owner leaves it open, or
\* closes it, with or without the result.
LEMMA SaveRefines ==
  ASSUME IInv, LeaseInv, LeaseInv', NEW w \in Workers,
         Park(w) \/ SaveCompleted(w) \/ SaveFailure(w)
  PROVE  LeaseStep
<1>1. Fenced(w) /\ Leave(w) /\ attempts' = attempts
  BY DEF Park, SaveCompleted, SaveFailure
<1>2. PICK i \in Requests : job[w] = i
  BY DEF Park, SaveCompleted, SaveFailure, IInv, TypeInv, HoldInv
<1>3. PICK st \in {"queued", "waiting_budget", "completed", "failed"} :
        status' = [status EXCEPT ![i] = st]
  BY <1>2 DEF Park, SaveCompleted, SaveFailure
<1>4. /\ st \in {"queued", "waiting_budget", "failed"} => result' = result
      /\ st = "completed" => made[w] # 0 /\ result' = [result EXCEPT ![i] = made[w]]
  <2>1. CASE SaveCompleted(w)
    <3>1. made[w] # 0
      BY <2>1 DEF SaveCompleted, IInv, TypeInv, HoldInv
    <3>2. st = "completed"
      BY <1>2, <1>3, <2>1 DEF SaveCompleted, IInv, TypeInv
    <3> QED BY <1>2, <2>1, <3>1, <3>2 DEF SaveCompleted
  <2>2. CASE Park(w) \/ SaveFailure(w)
    <3>1. st # "completed"
      BY <1>2, <1>3, <2>2 DEF Park, SaveFailure, IInv, TypeInv
    <3> QED BY <2>2, <3>1 DEF Park, SaveFailure
  <2> QED BY <2>1, <2>2
<1>5. Holds(w, i) /\ status[i] = "running" /\ result[i] = 0
  BY <1>1, <1>2 DEF Holds, Fenced, LeaseInv
<1>6. ownerOf[i] = w
  BY <1>5, OneHolder, OwnerIsHolder DEF OwnerReadsHolder
<1>7. \A j \in Requests \ {i} : SameHolding(j)
  BY <1>1, <1>2, <1>3 DEF Leave, SameHolding, Holds, Fenced, IInv, TypeInv
<1>8. \A v \in Workers : ~Holds(v, i)'
  BY <1>3 DEF Holds, Fenced, IInv, TypeInv
<1>9. ownerOf' = [ownerOf EXCEPT ![i] = Nobody]
  BY <1>7, <1>8, NewOwner
<1>10. phaseOf[i] = "open" /\ doneOf[i] = 0
  BY <1>5 DEF phaseOf, doneOf, Active
<1>11. CASE st \in {"queued", "waiting_budget"}
  <2>1. phaseOf' = phaseOf /\ doneOf' = doneOf
    BY <1>3, <1>4, <1>5, <1>11 DEF phaseOf, doneOf, Active, IInv, TypeInv
  <2> QED BY <1>6, <1>9, <2>1 DEF LeaseStep, Lease!LeaseNext, Lease!Release
<1>12. CASE st \in {"completed", "failed"}
  <2>1. phaseOf' = [phaseOf EXCEPT ![i] = "closed"]
    BY <1>3, <1>12 DEF phaseOf, Active, IInv, TypeInv
  <2>2. doneOf' = doneOf \/ doneOf' = [doneOf EXCEPT ![i] = @ + 1]
    <3>1. CASE st = "failed"
      BY <1>4, <3>1 DEF doneOf
    <3>2. CASE st = "completed"
      <4>1. doneOf' = [doneOf EXCEPT ![i] = 1]
        BY <1>4, <3>2 DEF doneOf, IInv, TypeInv
      <4>2. doneOf \in [Requests -> {0, 1}]
        BY DEF doneOf
      <4> QED BY <1>10, <4>1, <4>2
    <3> QED BY <1>12, <3>1, <3>2
  <2> QED BY <1>6, <1>9, <1>10, <2>1, <2>2 DEF LeaseStep, Lease!LeaseNext, Lease!Close
<1> QED BY <1>11, <1>12

\* A worker that leaves without a save: it gives up its claim, or had lost it.
LEMMA DropRefines ==
  ASSUME IInv, LeaseInv, LeaseInv', NEW w \in Workers, LoseLease(w) \/ Crash(w)
  PROVE  LeaseStep
<1>1. Leave(w) /\ UNCHANGED <<status, attempts, result>>
  BY DEF LoseLease, Crash, jobVars
<1>2. phaseOf' = phaseOf /\ doneOf' = doneOf
  BY <1>1 DEF phaseOf, doneOf, Active
<1>3. PICK i \in Requests : job[w] = i
  BY DEF LoseLease, Crash, IInv, TypeInv, HoldInv
<1>4. \A j \in Requests \ {i} : SameHolding(j)
  BY <1>1, <1>3 DEF Leave, SameHolding, Holds, Fenced, IInv, TypeInv
<1>5. CASE Fenced(w)
  <2>1. Holds(w, i) /\ \A v \in Workers : Holds(v, i) => v = w
    BY <1>3, <1>5, OneHolder DEF Holds
  <2>2. ownerOf[i] = w
    BY <2>1, OwnerIsHolder DEF OwnerReadsHolder
  <2>3. \A v \in Workers : ~Holds(v, i)'
    BY <1>1, <2>1 DEF Leave, Holds, Fenced, IInv, TypeInv
  <2>4. ownerOf' = [ownerOf EXCEPT ![i] = Nobody]
    BY <1>4, <2>3, NewOwner
  <2> QED BY <1>2, <2>2, <2>4 DEF LeaseStep, Lease!LeaseNext, Lease!Release
<1>6. CASE ~Fenced(w)
  <2>1. SameHolding(i)
    BY <1>1, <1>3, <1>6 DEF Leave, SameHolding, Holds, Fenced, IInv, TypeInv
  <2>2. \A j \in Requests : SameHolding(j)
    BY <1>4, <2>1
  <2> QED BY <1>2, <2>2, QuietStep
<1> QED BY <1>5, <1>6

\* Every step is a step of the lease or a stutter.
LEMMA NextRefines == ASSUME IInv, LeaseInv, LeaseInv', [Next]_vars PROVE LeaseStep
<1>1. CASE \/ UNCHANGED vars
           \/ Arrive
           \/ \E r \in Requests : Request(r) \/ LookUp(r)
           \/ \E w \in Workers : CallAi(w) \/ Insert(w) \/ InsertFails(w)
  <2>1. UNCHANGED <<status, attempts, result, job, rev>>
    BY <1>1 DEF vars, Arrive, Request, LookUp, CallAi, Insert, InsertFails, jobVars,
                workerVars
  <2> QED BY <2>1, QuietStep DEF phaseOf, doneOf, Active, SameHolding, Holds, Fenced
<1>2. CASE \E r \in Requests : Enqueue(r)
  BY <1>2, EnqueueRefines
<1>3. CASE \E w \in Workers, j \in Requests : Claim(w, j)
  BY <1>3, ClaimRefines
<1>4. CASE \E w \in Workers : Park(w) \/ SaveCompleted(w) \/ SaveFailure(w)
  BY <1>4, SaveRefines
<1>5. CASE \E w \in Workers : LoseLease(w) \/ Crash(w)
  BY <1>5, DropRefines
<1> QED BY <1>1, <1>2, <1>3, <1>4, <1>5 DEF Next

LEMMA InitRefines == Init => Lease!LeaseInit
BY DEF Init, Lease!LeaseInit, phaseOf, ownerOf, doneOf, Holds

(* The job of a diagnosis keeps the promise of JobLease: it ends once and     *)
(* with its result, and a worker whose lease is gone moves it no more,        *)
(* although the diagnoses themselves are inserted without a look at the lease *)
(* (executeScopeDiagnosisJob).                                               *)
THEOREM DiagnosisLease == Spec => ImplementsLease
<1>1. (IInv /\ LeaseInv) /\ (IInv /\ LeaseInv)' /\ [Next]_vars
        => [Lease!LeaseNext]_(Lease!leaseVars)
  BY NextRefines DEF LeaseStep
<1> QED BY <1>1, LeaseInvariance, InitRefines, PTL
        DEF Spec, ImplementsLease, Lease!LeaseSpec
\* Only saveClaimedIaJob of the last claim writes a result, into a job without.
LEMMA HolderSavesResult ==
  ASSUME IInv, LeaseInv, NEW w \in Workers, SaveCompleted(w)
  PROVE  /\ job[w] \in Requests /\ Holds(w, job[w]) /\ result[job[w]] = 0
         /\ result' = [result EXCEPT ![job[w]] = made[w]]
<1>1. job[w] \in Requests
  BY DEF SaveCompleted, IInv, TypeInv, HoldInv
<1> QED BY <1>1 DEF SaveCompleted, Holds, Fenced, LeaseInv

(* The result of a job is written once and by the worker of its last claim,   *)
(* with the diagnosis that this worker inserted: of two workers that both     *)
(* inserted one for the job, the one that stalled never puts its own in the   *)
(* place of the other (saveClaimedIaJob).                                    *)
THEOREM ResultsStay == Spec => ResultIsTheHolders
<1>1. (IInv /\ LeaseInv) /\ [Next]_vars =>
        [\A j \in Requests : result'[j] # result[j] =>
           result[j] = 0 /\ \E w \in Workers : Holds(w, j) /\ made[w] = result'[j]]_vars
  <2> SUFFICES ASSUME IInv, LeaseInv, Next, NEW j \in Requests, result'[j] # result[j]
               PROVE  result[j] = 0 /\ \E w \in Workers : Holds(w, j) /\ made[w] = result'[j]
    BY DEF vars
  <2>1. PICK w \in Workers : SaveCompleted(w)
    BY DEF Next, Arrive, Request, LookUp, Enqueue, Claim, CallAi, Park, Insert, InsertFails,
           SaveFailure, LoseLease, Crash, jobVars
  <2>2. result \in [Requests -> Nat]
    BY DEF IInv, TypeInv
  <2>3. j = job[w] /\ result'[j] = made[w]
    BY <2>1, <2>2, HolderSavesResult
  <2> QED BY <2>1, <2>3, HolderSavesResult
<1> QED BY <1>1, LeaseInvariance, PTL DEF Spec, ResultIsTheHolders
=============================================================================
