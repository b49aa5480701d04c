----------------------- MODULE CompanyQuestionsProofs -----------------------
(***************************************************************************)
(* CompanyQuestions for any sessions, jobs and workers and any limits.      *)
(* Everything that counts jobs, or applies generated questions, has the     *)
(* company locked (LockInv), so what it has read still holds when it writes *)
(* (CountInv, ApplyInv).  An edit takes no such lock: it comes between a    *)
(* reading of a worker and its write, never after the write, because both   *)
(* lock the rows.                                                          *)
(* HoldersInv puts the locks in an order (own row, company, questions).     *)
(* Only a save that inserts missing questions breaks it (MissingInv), so    *)
(* that every ring has one.  LeaseInv tells the claims of a job apart, for  *)
(* the refinement of JobLease.                                              *)
(***************************************************************************)
EXTENDS CompanyQuestions, FiniteSetTheorems, TLAPS

SessionPcs == {"new", "catalog", "questions", "key", "parent", "commit", "latest",
               "default", "subs", "enqueue", "count", "insert", "done"}
WorkerPcs == {"idle", "call", "apply", "texts", "subs", "write", "commit", "save", "fail"}
Statuses == {"none", "queued", "running", "completed", "failed"}

TypeInv ==
  /\ status \in [Jobs -> Statuses]
  /\ today \subseteq Jobs /\ IsFiniteSet(today) /\ cooling \in BOOLEAN
  /\ spc \in [Sessions -> SessionPcs]
  /\ draft \in [Sessions -> {Default, Sub, User, Same}]
  /\ wpc \in [Workers -> WorkerPcs]
  /\ job \in [Workers -> Jobs \cup {NoJob}]

LockInv ==
  /\ \A s \in Sessions : spc[s] \in {"count", "insert"} => owner = s
  /\ \A w \in Workers : wpc[w] \in {"texts", "subs", "write", "commit"} => owner = w
  /\ \A s \in Sessions : spc[s] = "commit" /\ draft[s] # Same => rows = s
  /\ \A s \in Sessions : spc[s] = "parent" => rows = s
  /\ \A w \in Workers : wpc[w] = "commit" => rows = w

CountInv ==
  /\ GenerationsAreLimited
  /\ \A s \in Sessions : spc[s] = "insert" =>
       /\ \A j \in Jobs : ~Active(j)
       /\ Cardinality(today) < DailyLimit

\* Who has inserted the keys has them alone until the commit.
MissingInv == \A s \in Sessions : spc[s] = "parent" => questions = None

ApplyInv ==
  \A w \in Workers :
    /\ wpc[w] \in {"subs", "write", "commit"} => ~IsAi(questions)
    /\ wpc[w] = "subs" /\ questions = User => w \in late
    /\ wpc[w] \in {"write", "commit"} /\ IsEdit(questions) => w \in late

IInv == TypeInv /\ LockInv /\ MissingInv /\ CountInv /\ ApplyInv

USE NobodyAssumption, DistinctAssumption, LimitAssumption

LEMMA InitHolds == Init => IInv
<1> SUFFICES ASSUME Init PROVE IInv
  OBVIOUS
<1>1. IsFiniteSet(today) /\ Cardinality(today) = 0
  BY FS_EmptySet DEF Init
<1>2. TypeInv
  BY <1>1 DEF Init, TypeInv, Statuses, SessionPcs, WorkerPcs
<1>3. LockInv /\ MissingInv /\ ApplyInv
  BY DEF Init, LockInv, MissingInv, ApplyInv
<1>4. CountInv
  BY <1>1 DEF Init, CountInv, GenerationsAreLimited, Active
<1> QED BY <1>2, <1>3, <1>4 DEF IInv

\* Where a session or a worker goes.
LEMMA NextTypes == ASSUME IInv, Next PROVE TypeInv'
<1> USE DEF IInv, TypeInv
<1>1. ASSUME NEW s \in Sessions, BeginSave(s) PROVE TypeInv'
  BY <1>1 DEF BeginSave, Then, SessionPcs, jobVars, quotaVars, workerVars
<1>2. ASSUME NEW s \in Sessions, \/ AbortSave(s) \/ Retry(s) \/ SyncCatalog(s) \/ SyncQuestions(s)
                                 \/ InsertQuestions(s) \/ ShareCompany(s) \/ CommitSave(s)
                                 \/ ReadLatest(s) \/ ReadDefault(s) \/ ReadDefaultSubs(s)
                                 \/ BeginEnqueue(s) \/ CountJobs(s)
      PROVE  TypeInv'
  <2>1. PICK label \in SessionPcs : Then(s, label)
    BY <1>2 DEF AbortSave, Retry, SyncCatalog, SyncQuestions, InsertQuestions, ShareCompany, CommitSave,
                ReadLatest, ReadDefault, ReadDefaultSubs, BeginEnqueue, CountJobs, SessionPcs
  <2>2. UNCHANGED <<status, today, cooling, wpc, job>>
    BY <1>2 DEF AbortSave, Retry, SyncCatalog, SyncQuestions, InsertQuestions, ShareCompany, CommitSave,
                ReadLatest, ReadDefault, ReadDefaultSubs, BeginEnqueue, CountJobs,
                jobVars, quotaVars, workerVars
  <2>3. draft' = draft \/ draft' = [draft EXCEPT ![s] = Same]
    BY <1>2 DEF AbortSave, Retry, SyncCatalog, SyncQuestions, InsertQuestions, ShareCompany, CommitSave,
                ReadLatest, ReadDefault, ReadDefaultSubs, BeginEnqueue, CountJobs, EndSave
  <2> QED BY <2>1, <2>2, <2>3 DEF Then
<1>3. ASSUME NEW s \in Sessions, InsertJob(s) PROVE TypeInv'
  <2>1. PICK j \in Jobs : status' = [status EXCEPT ![j] = "queued"] /\ today' = today \cup {j}
    BY <1>3 DEF InsertJob
  <2>2. IsFiniteSet(today')
    BY <2>1, FS_AddElement
  <2> QED BY <1>3, <2>1, <2>2 DEF InsertJob, Then, SessionPcs, Statuses, workerVars
<1>4. ASSUME NEW w \in Workers, NEW j \in Jobs, Claim(w, j) PROVE TypeInv'
  BY <1>4 DEF Claim, GoTo, WorkerPcs, Statuses, quotaVars, sessionVars
<1>5. ASSUME NEW w \in Workers, WorkerStep(w) \/ AbortApply(w) \/ Crash(w) PROVE TypeInv'
  <2>1. PICK label \in WorkerPcs : GoTo(w, label)
    BY <1>5 DEF WorkerStep, CallAi, BeginApply, ReadTexts, ReadSubquestions, WriteQuestions, CommitApply,
                NotDefault, SaveCompleted, SaveFailure, LoseLease, AbortApply, Crash, Leave, WorkerPcs
  <2>2. UNCHANGED <<today, cooling, spc, draft>>
    BY <1>5 DEF WorkerStep, CallAi, BeginApply, ReadTexts, ReadSubquestions, WriteQuestions, CommitApply,
                NotDefault, SaveCompleted, SaveFailure, LoseLease, AbortApply, Crash, quotaVars, sessionVars
  <2>3. job' = job \/ job' = [job EXCEPT ![w] = NoJob]
    BY <1>5 DEF WorkerStep, CallAi, BeginApply, ReadTexts, ReadSubquestions, WriteQuestions, CommitApply,
                NotDefault, SaveCompleted, SaveFailure, LoseLease, AbortApply, Crash, Leave
  <2>4. status' = status \/ \E after \in Statuses : status' = [status EXCEPT ![job[w]] = after]
    BY <1>5 DEF WorkerStep, CallAi, BeginApply, ReadTexts, ReadSubquestions, WriteQuestions, CommitApply,
                NotDefault, SaveCompleted, SaveFailure, LoseLease, AbortApply, Crash, jobVars, Statuses
  <2> QED BY <2>1, <2>2, <2>3, <2>4 DEF GoTo
<1>6. CASE SeedDefaults \/ CooldownEnds
  BY <1>6 DEF SeedDefaults, CooldownEnds, jobVars, quotaVars, sessionVars, workerVars
<1>7. ASSUME NEW j \in Jobs, DayPasses(j) PROVE TypeInv'
  <2>1. today' = today \ {j}
    BY <1>7 DEF DayPasses
  <2>2. IsFiniteSet(today')
    BY <2>1, FS_RemoveElement
  <2> QED BY <1>7, <2>1, <2>2 DEF DayPasses, jobVars, sessionVars, workerVars
<1> QED BY <1>1, <1>2, <1>3, <1>4, <1>5, <1>6, <1>7 DEF Next, SessionStep

\* Who gives his locks back takes nobody else's.
LEMMA ReleaseOwn ==
  ASSUME NEW p, Release(p), NEW q, q # p, q # Nobody
  PROVE  (owner = q => owner' = q) /\ (rows = q => rows' = q)
BY DEF Release, Without

LEMMA NextLocks == ASSUME IInv, Next PROVE LockInv'
<1> USE DEF IInv, TypeInv, LockInv
<1>1. ASSUME NEW s \in Sessions, BeginSave(s) PROVE LockInv'
  BY <1>1 DEF BeginSave, At, Then, workerVars
<1>2. ASSUME NEW s \in Sessions, \/ Retry(s) \/ SyncCatalog(s) \/ ReadLatest(s) \/ ReadDefault(s)
                                 \/ ReadDefaultSubs(s)
      PROVE  LockInv'
  <2>1. UNCHANGED <<owner, rows, draft, wpc>>
    BY <1>2 DEF Retry, SyncCatalog, ReadLatest, ReadDefault, ReadDefaultSubs, lockVars, workerVars
  <2>2. PICK label \in {"latest", "questions", "done", "default", "subs", "enqueue"} : Then(s, label)
    BY <1>2 DEF Retry, SyncCatalog, ReadLatest, ReadDefault, ReadDefaultSubs
  <2> QED BY <2>1, <2>2 DEF Then
<1>3. ASSUME NEW s \in Sessions, \/ SyncQuestions(s) \/ ShareCompany(s)
                                 \/ (InsertQuestions(s) /\ questions = None)
      PROVE LockInv'
  <2>1. /\ UNCHANGED <<owner, draft, wpc>>
        /\ \E label \in {"key", "parent", "commit"} :
             /\ spc' = [spc EXCEPT ![s] = label]
             /\ label = "parent" \/ (label = "commit" /\ draft[s] # Same) => rows' = s
    BY <1>3 DEF SyncQuestions, InsertQuestions, ShareCompany, LockRows, At, Then, workerVars
  <2>2. \A p \in Sessions \cup Workers : rows = p => rows' = p
    BY <1>3 DEF SyncQuestions, InsertQuestions, ShareCompany, LockRows
  <2> QED BY <2>1, <2>2
<1>4. ASSUME NEW s \in Sessions, \/ CommitSave(s) \/ AbortSave(s) \/ InsertJob(s)
                                 \/ (InsertQuestions(s) /\ questions # None)
                                 \/ (CountJobs(s) /\ Then(s, "done") /\ Release(s))
      PROVE  LockInv'
  <2>1. /\ UNCHANGED wpc /\ Release(s)
        /\ draft' = draft \/ draft' = [draft EXCEPT ![s] = Same]
    BY <1>4 DEF CommitSave, AbortSave, InsertJob, InsertQuestions, CountJobs, EndSave, workerVars
  <2>2. PICK label \in {"latest", "done"} : Then(s, label)
    BY <1>4 DEF CommitSave, AbortSave, InsertJob, InsertQuestions
  <2>3. \A p \in (Sessions \cup Workers) \ {s} : (owner = p => owner' = p) /\ (rows = p => rows' = p)
    BY <2>1, ReleaseOwn
  <2> QED BY <2>1, <2>2, <2>3 DEF Then
<1>5. ASSUME NEW s \in Sessions, BeginEnqueue(s) PROVE LockInv'
  BY <1>5 DEF BeginEnqueue, Then, LockCompany, workerVars
<1>6. ASSUME NEW s \in Sessions, CountJobs(s), Then(s, "insert"), UNCHANGED lockVars PROVE LockInv'
  BY <1>6 DEF CountJobs, At, Then, lockVars, workerVars
<1>7. ASSUME NEW w \in Workers, NEW j \in Jobs, Claim(w, j) PROVE LockInv'
  BY <1>7 DEF Claim, GoTo, lockVars, sessionVars
<1>8. ASSUME NEW w \in Workers, CallAi(w) PROVE LockInv'
  BY <1>8 DEF CallAi, GoTo, lockVars, sessionVars
<1>9. ASSUME NEW w \in Workers, BeginApply(w) PROVE LockInv'
  BY <1>9 DEF BeginApply, GoTo, LockCompany, sessionVars
<1>10. ASSUME NEW w \in Workers, WriteQuestions(w) PROVE LockInv'
  <2>1. UNCHANGED <<owner, draft, spc>> /\ wpc' = [wpc EXCEPT ![w] = "commit"] /\ wpc[w] = "write"
    BY <1>10 DEF WriteQuestions, GoTo, sessionVars
  <2>2. rows' = w /\ \A p \in Sessions \cup Workers : rows = p => rows' = p
    BY <1>10 DEF WriteQuestions, LockRows
  <2> QED BY <2>1, <2>2
<1>11. ASSUME NEW w \in Workers, NEW label \in {"save", "fail", "idle"}, Release(w), GoTo(w, label),
              UNCHANGED <<draft, spc>>
       PROVE  LockInv'
  <2>1. \A p \in (Sessions \cup Workers) \ {w} : (owner = p => owner' = p) /\ (rows = p => rows' = p)
    BY <1>11, ReleaseOwn
  <2> QED BY <1>11, <2>1 DEF GoTo
<1>12. ASSUME NEW w \in Workers, ReadTexts(w) \/ ReadSubquestions(w) PROVE LockInv'
  <2>1. CASE NotDefault(w)
    BY <1>11, <1>12, <2>1 DEF ReadTexts, ReadSubquestions, NotDefault, sessionVars
  <2>2. CASE ~NotDefault(w)
    <3>1. /\ UNCHANGED <<owner, rows, draft, spc>> /\ wpc[w] \in {"texts", "subs"}
          /\ \E label \in {"subs", "write"} : wpc' = [wpc EXCEPT ![w] = label]
      BY <1>12, <2>2 DEF ReadTexts, ReadSubquestions, GoTo, lockVars, sessionVars
    <3> QED BY <3>1
  <2> QED BY <2>1, <2>2
<1>13. ASSUME NEW w \in Workers, CommitApply(w) \/ AbortApply(w) \/ Crash(w) PROVE LockInv'
  <2>1. Release(w) /\ UNCHANGED <<draft, spc>>
    BY <1>13 DEF CommitApply, AbortApply, Crash, sessionVars
  <2>2. \E label \in {"save", "fail", "idle"} : GoTo(w, label)
    BY <1>13 DEF CommitApply, AbortApply, Crash, Leave
  <2> QED BY <1>11, <2>1, <2>2
<1>14. ASSUME NEW w \in Workers, SaveCompleted(w) \/ SaveFailure(w) \/ LoseLease(w) PROVE LockInv'
  <2>1. wpc' = [wpc EXCEPT ![w] = "idle"] /\ UNCHANGED <<owner, rows, draft, spc>>
    BY <1>14 DEF SaveCompleted, SaveFailure, LoseLease, Leave, GoTo, lockVars, sessionVars
  <2> QED BY <2>1
<1>15. CASE SeedDefaults \/ CooldownEnds \/ \E j \in Jobs : DayPasses(j)
  BY <1>15 DEF SeedDefaults, CooldownEnds, DayPasses, lockVars, sessionVars, workerVars
<1>16. ASSUME NEW s \in Sessions, CountJobs(s)
       PROVE  (Then(s, "done") /\ Release(s)) \/ (Then(s, "insert") /\ UNCHANGED lockVars)
  BY <1>16 DEF CountJobs
<1> QED BY <1>1, <1>2, <1>3, <1>4, <1>5, <1>6, <1>7, <1>8, <1>9, <1>10, <1>12, <1>13, <1>14, <1>15, <1>16
        DEF Next, SessionStep, WorkerStep

\* Questions come into being with the lock on their keys.
LEMMA NextMissing == ASSUME IInv, Next PROVE MissingInv'
<1>0. TypeInv /\ LockInv /\ MissingInv
  BY DEF IInv
<1>1. ASSUME NEW s \in Sessions, InsertQuestions(s) PROVE MissingInv'
  BY <1>0, <1>1 DEF InsertQuestions, Then, MissingInv, TypeInv
<1>2. ASSUME \A s \in Sessions : spc'[s] = "parent" => spc[s] = "parent" /\ questions' = questions
      PROVE  MissingInv'
  BY <1>0, <1>2 DEF MissingInv
<1>3. ASSUME NEW s \in Sessions, CommitSave(s) PROVE MissingInv'
  <2>1. /\ spc[s] = "commit" /\ \A t \in Sessions : spc'[t] = "parent" => spc[t] = "parent" /\ t # s
        /\ draft[s] = Same => questions' = questions
    BY <1>0, <1>3 DEF CommitSave, At, Then, TypeInv
  <2>2. ASSUME NEW t \in Sessions, spc[t] = "parent", t # s PROVE draft[s] = Same
    BY <1>0, <2>1, <2>2 DEF LockInv
  <2> QED BY <1>2, <2>1, <2>2
<1>4. ASSUME NEW w \in Workers, CommitApply(w) PROVE MissingInv'
  <2>1. rows = w /\ UNCHANGED spc
    BY <1>0, <1>4 DEF CommitApply, LockInv, sessionVars
  <2> QED BY <1>0, <1>2, <2>1 DEF LockInv
<1>5. CASE SeedDefaults
  <2>1. rows = Nobody /\ UNCHANGED spc
    BY <1>5 DEF SeedDefaults, sessionVars
  <2> QED BY <1>0, <1>2, <2>1 DEF LockInv
<1>6. ASSUME NEW s \in Sessions, UNCHANGED questions,
             NEW label \in SessionPcs \ {"parent"}, Then(s, label)
      PROVE  MissingInv'
  BY <1>0, <1>2, <1>6 DEF Then, TypeInv
<1>7. ASSUME NEW s \in Sessions,
             \/ BeginSave(s) \/ AbortSave(s) \/ Retry(s) \/ SyncCatalog(s) \/ SyncQuestions(s)
             \/ ShareCompany(s) \/ ReadLatest(s) \/ ReadDefault(s) \/ ReadDefaultSubs(s)
             \/ BeginEnqueue(s) \/ CountJobs(s) \/ InsertJob(s)
      PROVE  MissingInv'
  <2>1. UNCHANGED questions
    BY <1>7 DEF BeginSave, AbortSave, Retry, SyncCatalog, SyncQuestions, ShareCompany, ReadLatest,
                ReadDefault, ReadDefaultSubs, BeginEnqueue, CountJobs, InsertJob
  <2>2. \E label \in SessionPcs \ {"parent"} : Then(s, label)
    BY <1>7 DEF BeginSave, AbortSave, Retry, SyncCatalog, SyncQuestions, ShareCompany, ReadLatest,
                ReadDefault, ReadDefaultSubs, BeginEnqueue, CountJobs, InsertJob, SessionPcs
  <2> QED BY <1>6, <2>1, <2>2
<1>8. ASSUME UNCHANGED <<questions, spc>> PROVE MissingInv'
  BY <1>2, <1>8
<1>9. ASSUME NEW w \in Workers, \/ CallAi(w) \/ BeginApply(w) \/ ReadTexts(w) \/ ReadSubquestions(w)
                                \/ WriteQuestions(w) \/ SaveCompleted(w) \/ SaveFailure(w) \/ LoseLease(w)
                                \/ AbortApply(w) \/ Crash(w) \/ \E j \in Jobs : Claim(w, j)
      PROVE  MissingInv'
  BY <1>8, <1>9 DEF CallAi, BeginApply, ReadTexts, ReadSubquestions, WriteQuestions, SaveCompleted,
                    SaveFailure, LoseLease, AbortApply, Crash, Claim, sessionVars
<1>10. CASE CooldownEnds \/ \E j \in Jobs : DayPasses(j)
  BY <1>8, <1>10 DEF CooldownEnds, DayPasses, sessionVars
<1> QED BY <1>1, <1>3, <1>4, <1>5, <1>7, <1>9, <1>10 DEF Next, SessionStep, WorkerStep

\* Jobs and their number, for whoever does not insert one.
LEMMA FewerJobs ==
  ASSUME IInv, TypeInv', today' \subseteq today,
         \A j \in Jobs : Active(j)' => Active(j),
         \A s \in Sessions : spc'[s] = "insert" =>
            spc[s] = "insert" \/ ((\A j \in Jobs : ~Active(j)) /\ Cardinality(today) < DailyLimit)
  PROVE  CountInv'
<1>1. /\ Cardinality(today') <= Cardinality(today)
      /\ Cardinality(today') \in Nat /\ Cardinality(today) \in Nat
  BY FS_Subset, FS_CardinalityType DEF IInv, TypeInv
<1> QED BY <1>1 DEF IInv, CountInv, GenerationsAreLimited

LEMMA NextCounts == ASSUME IInv, Next PROVE CountInv'
<1>0. TypeInv' /\ TypeInv /\ LockInv
  BY NextTypes DEF IInv
<1>1. ASSUME NEW s \in Sessions, InsertJob(s) PROVE CountInv'
  <2>1. PICK j \in Jobs : status' = [status EXCEPT ![j] = "queued"] /\ today' = today \cup {j}
    BY <1>1 DEF InsertJob
  <2>2. spc[s] = "insert" /\ spc' = [spc EXCEPT ![s] = "done"]
    BY <1>1 DEF InsertJob, At, Then
  <2>3. (\A i \in Jobs : ~Active(i)) /\ Cardinality(today) < DailyLimit
    BY <2>2 DEF IInv, CountInv
  <2>4. Cardinality(today') <= DailyLimit
    <3>1. /\ Cardinality(today') \in {Cardinality(today), Cardinality(today) + 1}
          /\ Cardinality(today) \in Nat
      BY <1>0, <2>1, FS_AddElement, FS_CardinalityType DEF TypeInv
    <3> QED BY <2>3, <3>1
  <2>5. \A i \in Jobs : Active(i)' => i = j
    BY <1>0, <2>1, <2>3 DEF TypeInv, Active
  <2>6. \A p \in Sessions : spc'[p] # "insert"
    BY <1>0, <2>2 DEF TypeInv, LockInv
  <2> QED BY <2>4, <2>5, <2>6 DEF CountInv, GenerationsAreLimited
<1>2. ASSUME NEW s \in Sessions, CountJobs(s) PROVE CountInv'
  <2>1. UNCHANGED <<status, today>>
    BY <1>2 DEF CountJobs, jobVars, quotaVars
  <2>2. \/ spc' = [spc EXCEPT ![s] = "done"]
        \/ /\ spc' = [spc EXCEPT ![s] = "insert"]
           /\ \A j \in Jobs : ~Active(j)
           /\ ~(Cardinality(today) >= DailyLimit)
    BY <1>2 DEF CountJobs, Then
  <2>3. Cardinality(today) \in Nat
    BY <1>0, FS_CardinalityType DEF TypeInv
  <2>4. \A p \in Sessions : spc'[p] = "insert" =>
          spc[p] = "insert" \/ ((\A j \in Jobs : ~Active(j)) /\ Cardinality(today) < DailyLimit)
    BY <1>0, <2>2, <2>3 DEF TypeInv
  <2> QED BY <1>0, <2>1, <2>4, FewerJobs DEF Active
<1>3. ASSUME NEW s \in Sessions,
             \/ BeginSave(s) \/ AbortSave(s) \/ Retry(s) \/ SyncCatalog(s) \/ SyncQuestions(s)
             \/ InsertQuestions(s) \/ ShareCompany(s) \/ CommitSave(s) \/ ReadLatest(s)
             \/ ReadDefault(s) \/ ReadDefaultSubs(s) \/ BeginEnqueue(s)
      PROVE  CountInv'
  <2>1. UNCHANGED <<status, today>>
    BY <1>3 DEF BeginSave, AbortSave, Retry, SyncCatalog, SyncQuestions, InsertQuestions, ShareCompany,
                CommitSave, ReadLatest, ReadDefault, ReadDefaultSubs, BeginEnqueue, jobVars, quotaVars
  <2>2. PICK label \in SessionPcs \ {"insert"} : spc' = [spc EXCEPT ![s] = label]
    BY <1>3 DEF BeginSave, AbortSave, Retry, SyncCatalog, SyncQuestions, InsertQuestions, ShareCompany,
                CommitSave, ReadLatest, ReadDefault, ReadDefaultSubs, BeginEnqueue, Then, SessionPcs
  <2>3. \A p \in Sessions : spc'[p] = "insert" => spc[p] = "insert"
    BY <1>0, <2>2 DEF TypeInv
  <2> QED BY <1>0, <2>1, <2>3, FewerJobs DEF Active
<1>4. ASSUME UNCHANGED <<spc, today>>, \A j \in Jobs : Active(j)' => Active(j) PROVE CountInv'
  BY <1>0, <1>4, FewerJobs
<1>5. ASSUME NEW w \in Workers, NEW j \in Jobs, Claim(w, j) PROVE CountInv'
  <2>1. \A i \in Jobs : Active(i)' => Active(i)
    BY <1>0, <1>5 DEF Claim, TypeInv, Active
  <2> QED BY <1>4, <1>5, <2>1 DEF Claim, quotaVars, sessionVars
<1>6. ASSUME NEW w \in Workers, WorkerStep(w) \/ AbortApply(w) \/ Crash(w) PROVE CountInv'
  <2>1. UNCHANGED <<today, spc>>
    BY <1>6 DEF WorkerStep, CallAi, BeginApply, ReadTexts, ReadSubquestions, WriteQuestions, CommitApply,
                NotDefault, SaveCompleted, SaveFailure, LoseLease, AbortApply, Crash, quotaVars, sessionVars
  <2>2. \/ UNCHANGED status
        \/ /\ status[job[w]] = "running"
           /\ \E after \in {"queued", "completed", "failed"} : status' = [status EXCEPT ![job[w]] = after]
    BY <1>6 DEF WorkerStep, CallAi, BeginApply, ReadTexts, ReadSubquestions, WriteQuestions, CommitApply,
                NotDefault, SaveCompleted, SaveFailure, LoseLease, AbortApply, Crash, Fenced, jobVars
  <2>3. \A i \in Jobs : Active(i)' => Active(i)
    BY <1>0, <2>2 DEF TypeInv, Active
  <2> QED BY <1>4, <2>1, <2>3
<1>7. CASE SeedDefaults \/ CooldownEnds \/ \E j \in Jobs : DayPasses(j)
  <2>1. UNCHANGED <<status, spc>> /\ today' \subseteq today
    BY <1>7 DEF SeedDefaults, CooldownEnds, DayPasses, jobVars, quotaVars, sessionVars
  <2> QED BY <1>0, <2>1, FewerJobs DEF Active
<1> QED BY <1>1, <1>2, <1>3, <1>5, <1>6, <1>7 DEF Next, SessionStep

\* A worker in apply is alone with the company; a save that names the questions
\* needs their rows, which the worker has once it has written.
LEMMA NextApplies == ASSUME IInv, Next PROVE ApplyInv'
<1>0. TypeInv /\ LockInv /\ ApplyInv
  BY DEF IInv
<1>1. ASSUME UNCHANGED <<questions, wpc>>, \A w \in Workers : w \in late => w \in late' PROVE ApplyInv'
  BY <1>0, <1>1 DEF ApplyInv
<1>2. ASSUME NEW s \in Sessions, CommitSave(s) PROVE ApplyInv'
  <2>1. UNCHANGED wpc /\ spc[s] = "commit" /\ \A w \in Workers : w \in late => w \in late'
    BY <1>2 DEF CommitSave, At, workerVars
  <2>2. CASE draft[s] = Same
    BY <1>1, <1>2, <2>1, <2>2 DEF CommitSave
  <2>3. CASE draft[s] # Same
    <3>1. questions' = draft[s] /\ draft[s] \in {Default, Sub, User}
      BY <1>0, <1>2, <2>3 DEF CommitSave, TypeInv
    <3>2. \A w \in Workers : wpc[w] # "commit"
      BY <1>0, <2>1, <2>3 DEF LockInv
    <3>3. \A w \in Workers : HasRead(w, draft[s]) => w \in late'
      BY <1>2 DEF CommitSave
    <3>4. CASE draft[s] = Default
      BY <2>1, <3>1, <3>4 DEF ApplyInv, IsAi, IsEdit, Default, User, Sub
    <3>5. CASE draft[s] = Sub
      BY <2>1, <3>1, <3>2, <3>3, <3>5 DEF ApplyInv, IsAi, IsEdit, HasRead, User, Sub
    <3>6. CASE draft[s] = User
      BY <2>1, <3>1, <3>2, <3>3, <3>6 DEF ApplyInv, IsAi, IsEdit, HasRead, User, Sub
    <3> QED BY <3>1, <3>4, <3>5, <3>6
  <2> QED BY <2>2, <2>3
<1>3. ASSUME NEW s \in Sessions,
             \/ BeginSave(s) \/ AbortSave(s) \/ Retry(s) \/ SyncCatalog(s) \/ SyncQuestions(s)
             \/ InsertQuestions(s) \/ ShareCompany(s) \/ ReadLatest(s) \/ ReadDefault(s)
             \/ ReadDefaultSubs(s) \/ BeginEnqueue(s) \/ CountJobs(s) \/ InsertJob(s)
      PROVE  ApplyInv'
  BY <1>1, <1>3 DEF BeginSave, AbortSave, Retry, SyncCatalog, SyncQuestions, InsertQuestions, ShareCompany,
                    ReadLatest, ReadDefault, ReadDefaultSubs, BeginEnqueue, CountJobs, InsertJob,
                    workerVars, historyVars
<1>4. ASSUME UNCHANGED questions, NEW w \in Workers,
             NEW label \in WorkerPcs \ {"subs", "write", "commit"}, GoTo(w, label),
             \A v \in Workers \ {w} : v \in late => v \in late'
      PROVE  ApplyInv'
  BY <1>0, <1>4 DEF GoTo, ApplyInv, TypeInv, WorkerPcs
<1>5. ASSUME NEW w \in Workers, NEW j \in Jobs, Claim(w, j) PROVE ApplyInv'
  BY <1>4, <1>5 DEF Claim, WorkerPcs, historyVars
<1>6. ASSUME NEW w \in Workers, ReadTexts(w) \/ ReadSubquestions(w) PROVE ApplyInv'
  <2>1. UNCHANGED <<questions, late>>
    BY <1>6 DEF ReadTexts, ReadSubquestions, historyVars
  <2>2. CASE NotDefault(w)
    BY <1>4, <2>1, <2>2 DEF NotDefault, WorkerPcs
  <2>3. CASE ReadTexts(w) /\ ~NotDefault(w)
    <3>1. \/ questions = None /\ wpc' = [wpc EXCEPT ![w] = "write"]
          \/ questions \in {Default, Sub} /\ wpc' = [wpc EXCEPT ![w] = "subs"]
      BY <2>3 DEF ReadTexts, GoTo
    <3>2. ~IsAi(questions) /\ questions # User /\ (questions = None => ~IsEdit(questions))
      BY <3>1 DEF IsAi, IsEdit, None, Default, Sub, User
    <3> QED BY <1>0, <2>1, <3>1, <3>2 DEF ApplyInv, TypeInv
  <2>4. CASE ReadSubquestions(w) /\ ~NotDefault(w)
    BY <1>0, <2>1, <2>4 DEF ReadSubquestions, GoTo, ApplyInv, TypeInv, IsEdit
  <2> QED BY <1>6, <2>2, <2>3, <2>4
<1>7. ASSUME NEW w \in Workers, WriteQuestions(w) PROVE ApplyInv'
  BY <1>0, <1>7 DEF WriteQuestions, GoTo, ApplyInv, TypeInv, historyVars
<1>8. ASSUME NEW w \in Workers, CommitApply(w) PROVE ApplyInv'
  <2>1. wpc[w] = "commit" /\ \E label \in {"save", "fail"} : wpc' = [wpc EXCEPT ![w] = label]
    BY <1>8 DEF CommitApply, GoTo
  <2>2. \A v \in Workers : wpc'[v] \notin {"subs", "write", "commit"}
    BY <1>0, <2>1 DEF LockInv, TypeInv
  <2> QED BY <2>2 DEF ApplyInv
<1>9. ASSUME NEW w \in Workers,
             \/ CallAi(w) \/ BeginApply(w) \/ SaveCompleted(w) \/ SaveFailure(w) \/ LoseLease(w)
             \/ AbortApply(w) \/ Crash(w)
      PROVE  ApplyInv'
  <2>1. UNCHANGED questions /\ \A v \in Workers \ {w} : v \in late => v \in late'
    BY <1>9 DEF CallAi, BeginApply, SaveCompleted, SaveFailure, LoseLease, AbortApply, Crash, Leave,
                historyVars
  <2>2. \E label \in WorkerPcs \ {"subs", "write", "commit"} : GoTo(w, label)
    BY <1>9 DEF CallAi, BeginApply, SaveCompleted, SaveFailure, LoseLease, AbortApply, Crash, Leave,
                WorkerPcs
  <2> QED BY <1>4, <2>1, <2>2
<1>10. CASE CooldownEnds \/ \E j \in Jobs : DayPasses(j)
  BY <1>1, <1>10 DEF CooldownEnds, DayPasses, workerVars, historyVars
<1>11. CASE SeedDefaults
  <2>1. \A w \in Workers : wpc'[w] \notin {"subs", "write", "commit"}
    BY <1>0, <1>11 DEF SeedDefaults, LockInv, workerVars
  <2> QED BY <2>1 DEF ApplyInv
<1> QED BY <1>2, <1>3, <1>5, <1>6, <1>7, <1>8, <1>9, <1>10, <1>11 DEF Next, SessionStep, WorkerStep

(* Who counts jobs or applies questions has the company locked, and what it  *)
(* has read in that transaction still holds.                                 *)
THEOREM Invariance == Spec => []IInv
<1>1. Init => IInv
  BY InitHolds
<1>2. IInv /\ [Next]_vars => IInv'
  <2>1. ASSUME IInv, UNCHANGED vars PROVE IInv'
    BY <2>1 DEF IInv, TypeInv, LockInv, MissingInv, CountInv, GenerationsAreLimited, ApplyInv, Active, vars, lockVars,
                jobVars, quotaVars, sessionVars, workerVars, historyVars
  <2> QED BY <2>1, NextTypes, NextLocks, NextMissing, NextCounts, NextApplies DEF IInv
<1> QED BY <1>1, <1>2, PTL DEF Spec

(* One generation in progress, and no more of them in 24 hours than the      *)
(* limit (enqueueCompanyQuestionSuggestions).                                *)
THEOREM FewGenerations == Spec => []GenerationsAreLimited
BY Invariance, PTL DEF IInv, CountInv

SavePcs == {"catalog", "questions", "key", "parent", "commit"}

\* Who holds a lock is inside the transaction that took it, past the statement.
HoldersInv ==
  /\ \A s \in Sessions : /\ collecting = s => spc[s] \in SavePcs
                         /\ s \in sharers => spc[s] \in SavePcs \ {"catalog"}
                         /\ owner = s => spc[s] \in {"count", "insert"}
                         /\ rows = s => spc[s] \in {"parent", "commit"}
  /\ \A w \in Workers : /\ owner = w => wpc[w] \in {"texts", "subs", "write", "commit"}
                        /\ rows = w => wpc[w] = "commit"
  /\ collecting \in Sessions \cup {Nobody} /\ sharers \subseteq Sessions
  /\ {owner, rows} \subseteq Sessions \cup Workers \cup {Nobody}

\* Whoever gives back everything may go anywhere.
LEMMA ReleasesHolders ==
  ASSUME TypeInv, HoldersInv, NEW p \in Sessions \cup Workers, Release(p),
         \A s \in Sessions \ {p} : spc'[s] = spc[s],
         \A w \in Workers \ {p} : wpc'[w] = wpc[w]
  PROVE  HoldersInv'
<1>1. /\ collecting' \in {collecting, Nobody} \ {p} /\ sharers' = sharers \ {p}
      /\ owner' \in {owner, Nobody} \ {p} /\ rows' \in {rows, Nobody} \ {p}
  BY DEF Release, Without
<1> QED BY <1>1 DEF HoldersInv

\* Whoever keeps his locks stays inside their transactions.
LEMMA KeepsHolders ==
  ASSUME HoldersInv, UNCHANGED lockVars,
         \A s \in Sessions : /\ spc[s] \in SavePcs => spc'[s] = spc[s]
                             /\ spc[s] \in {"count", "insert"} => spc'[s] \in {"count", "insert"},
         \A w \in Workers : /\ wpc[w] = "commit" => wpc'[w] = "commit"
                            /\ wpc[w] \in {"texts", "subs", "write"}
                                 => wpc'[w] \in {"texts", "subs", "write", "commit"}
  PROVE  HoldersInv'
<1>1. UNCHANGED <<collecting, owner, sharers, rows>>
  BY DEF lockVars
<1>2. ASSUME NEW s \in Sessions
      PROVE  /\ collecting = s => spc'[s] \in SavePcs
             /\ s \in sharers => spc'[s] \in SavePcs \ {"catalog"}
             /\ owner = s => spc'[s] \in {"count", "insert"}
             /\ rows = s => spc'[s] \in {"parent", "commit"}
  BY DEF HoldersInv, SavePcs
<1>3. ASSUME NEW w \in Workers
      PROVE  /\ owner = w => wpc'[w] \in {"texts", "subs", "write", "commit"}
             /\ rows = w => wpc'[w] = "commit"
  BY DEF HoldersInv
<1> QED BY <1>1, <1>2, <1>3 DEF HoldersInv

LEMMA HoldersKept == ASSUME TypeInv, LockInv, HoldersInv, [Next]_vars PROVE HoldersInv'
<1>1. CASE UNCHANGED vars
  BY <1>1, KeepsHolders DEF vars, lockVars, sessionVars, workerVars
<1>2. ASSUME NEW s \in Sessions, BeginSave(s) PROVE HoldersInv'
  <2>1. /\ collecting' = s /\ spc' = [spc EXCEPT ![s] = "catalog"] /\ spc[s] = "new"
        /\ UNCHANGED <<owner, sharers, rows, wpc>>
    BY <1>2 DEF BeginSave, At, Then, workerVars
  <2>2. spc'[s] = "catalog" /\ \A t \in Sessions \ {s} : spc'[t] = spc[t]
    BY <2>1 DEF TypeInv
  <2> QED BY <2>1, <2>2 DEF HoldersInv, SavePcs
<1>3. ASSUME NEW s \in Sessions, SyncCatalog(s) PROVE HoldersInv'
  <2>1. /\ sharers' \in {sharers, sharers \cup {s}} /\ spc' = [spc EXCEPT ![s] = "questions"] /\ spc[s] = "catalog"
        /\ UNCHANGED <<collecting, owner, rows, wpc>>
    BY <1>3 DEF SyncCatalog, Share, At, Then, workerVars
  <2>2. spc'[s] = "questions" /\ \A t \in Sessions \ {s} : spc'[t] = spc[t]
    BY <2>1 DEF TypeInv
  <2> QED BY <2>1, <2>2 DEF HoldersInv, SavePcs
<1>4. ASSUME NEW s \in Sessions, \/ SyncQuestions(s) \/ ShareCompany(s)
                                 \/ (InsertQuestions(s) /\ questions = None)
      PROVE HoldersInv'
  <2>1. /\ spc[s] \in {"questions", "key", "parent"} /\ UNCHANGED <<collecting, owner, wpc>>
        /\ sharers' \in {sharers, sharers \cup {s}} /\ rows' \in {rows, s}
        /\ \E label \in {"key", "parent", "commit"} :
             /\ spc' = [spc EXCEPT ![s] = label]
             /\ label = "key" => rows' = rows /\ spc[s] = "questions"
    BY <1>4 DEF SyncQuestions, ShareCompany, InsertQuestions, Share, LockRows, At, Then, workerVars
  <2>2. /\ spc'[s] \in {"key", "parent", "commit"} /\ \A t \in Sessions \ {s} : spc'[t] = spc[t]
        /\ spc'[s] = "key" => rows' = rows /\ spc[s] = "questions"
    BY <2>1 DEF TypeInv
  <2> QED BY <2>1, <2>2 DEF HoldersInv, SavePcs
<1>5. ASSUME NEW s \in Sessions, BeginEnqueue(s) PROVE HoldersInv'
  <2>1. /\ owner' = s /\ spc' = [spc EXCEPT ![s] = "count"] /\ spc[s] = "enqueue"
        /\ UNCHANGED <<collecting, rows, sharers, wpc>>
    BY <1>5 DEF BeginEnqueue, LockCompany, At, Then, workerVars
  <2>2. spc'[s] = "count" /\ \A t \in Sessions \ {s} : spc'[t] = spc[t]
    BY <2>1 DEF TypeInv
  <2> QED BY <2>1, <2>2 DEF HoldersInv, SavePcs
<1>6. ASSUME NEW s \in Sessions, NEW label, Then(s, label), Release(s), UNCHANGED wpc PROVE HoldersInv'
  BY <1>6, ReleasesHolders DEF Then, TypeInv
<1>7. ASSUME NEW s \in Sessions, NEW from \in {"new", "latest", "default", "subs"}, NEW label,
             At(s, from), Then(s, label), UNCHANGED <<lockVars, wpc>>
      PROVE  HoldersInv'
  BY <1>7, KeepsHolders DEF At, Then, TypeInv, SavePcs
<1>8. ASSUME NEW s \in Sessions, CountJobs(s) PROVE HoldersInv'
  <2>1. CASE Then(s, "done") /\ Release(s)
    BY <1>6, <1>8, <2>1 DEF CountJobs, workerVars
  <2>2. CASE Then(s, "insert") /\ UNCHANGED lockVars
    BY <1>8, <2>2, KeepsHolders DEF CountJobs, workerVars, At, Then, TypeInv, SavePcs
  <2> QED BY <1>8, <2>1, <2>2 DEF CountJobs
<1>9. ASSUME NEW w \in Workers, NEW label, GoTo(w, label), Release(w), UNCHANGED spc PROVE HoldersInv'
  BY <1>9, ReleasesHolders DEF GoTo, TypeInv
<1>10. ASSUME NEW w \in Workers, NEW label, wpc[w] \in {"idle", "call", "save", "fail"}, GoTo(w, label),
              UNCHANGED <<lockVars, spc>>
       PROVE  HoldersInv'
  BY <1>10, KeepsHolders DEF GoTo, TypeInv
<1>11. ASSUME NEW w \in Workers, BeginApply(w) PROVE HoldersInv'
  <2>1. /\ owner' = w /\ wpc' = [wpc EXCEPT ![w] = "texts"] /\ wpc[w] = "apply"
        /\ UNCHANGED <<collecting, rows, sharers, spc>>
    BY <1>11 DEF BeginApply, LockCompany, GoTo, sessionVars
  <2>2. wpc'[w] = "texts" /\ \A v \in Workers \ {w} : wpc'[v] = wpc[v]
    BY <2>1 DEF TypeInv
  <2> QED BY <2>1, <2>2 DEF HoldersInv
<1>12. ASSUME NEW w \in Workers, ReadTexts(w) \/ ReadSubquestions(w) PROVE HoldersInv'
  <2>1. UNCHANGED spc
    BY <1>12 DEF ReadTexts, ReadSubquestions, sessionVars
  <2>2. CASE NotDefault(w)
    BY <1>9, <2>1, <2>2 DEF NotDefault
  <2>3. CASE ~NotDefault(w)
    <3>1. /\ UNCHANGED lockVars /\ wpc[w] \in {"texts", "subs"}
          /\ \E label \in {"subs", "write"} : wpc' = [wpc EXCEPT ![w] = label]
      BY <1>12, <2>3 DEF ReadTexts, ReadSubquestions, GoTo
    <3> QED BY <2>1, <3>1, KeepsHolders DEF TypeInv
  <2> QED BY <2>2, <2>3
<1>13. ASSUME NEW w \in Workers, WriteQuestions(w) PROVE HoldersInv'
  <2>1. /\ rows' = w /\ wpc' = [wpc EXCEPT ![w] = "commit"] /\ wpc[w] = "write"
        /\ UNCHANGED <<collecting, owner, sharers, spc>>
    BY <1>13 DEF WriteQuestions, LockRows, GoTo, sessionVars
  <2>2. wpc'[w] = "commit" /\ \A v \in Workers \ {w} : wpc'[v] = wpc[v]
    BY <2>1 DEF TypeInv
  <2> QED BY <2>1, <2>2 DEF HoldersInv
<1>14. CASE SeedDefaults \/ CooldownEnds \/ \E j \in Jobs : DayPasses(j)
  BY <1>14, KeepsHolders DEF SeedDefaults, CooldownEnds, DayPasses, sessionVars, workerVars
<1>15. ASSUME NEW s \in Sessions, \/ AbortSave(s) \/ CommitSave(s) \/ InsertJob(s)
                                  \/ (InsertQuestions(s) /\ questions # None)
       PROVE HoldersInv'
  BY <1>6, <1>15 DEF AbortSave, CommitSave, InsertJob, InsertQuestions, EndSave, workerVars
<1>16. ASSUME NEW s \in Sessions, Retry(s) \/ ReadLatest(s) \/ ReadDefault(s) \/ ReadDefaultSubs(s)
       PROVE HoldersInv'
  <2>1. /\ \E from \in {"new", "latest", "default", "subs"} : At(s, from)
        /\ \E label : Then(s, label)
        /\ UNCHANGED <<lockVars, wpc>>
    BY <1>16 DEF Retry, ReadLatest, ReadDefault, ReadDefaultSubs, workerVars
  <2> QED BY <1>7, <2>1
<1>17. ASSUME NEW w \in Workers,
              CallAi(w) \/ SaveCompleted(w) \/ SaveFailure(w) \/ LoseLease(w) \/ \E j \in Jobs : Claim(w, j)
       PROVE  HoldersInv'
  <2>1. /\ wpc[w] \in {"idle", "call", "save", "fail"} /\ UNCHANGED <<lockVars, spc>>
        /\ \E label : GoTo(w, label)
    BY <1>17 DEF CallAi, SaveCompleted, SaveFailure, LoseLease, Claim, Leave, sessionVars
  <2> QED BY <1>10, <2>1
<1>18. ASSUME NEW w \in Workers, CommitApply(w) \/ AbortApply(w) \/ Crash(w) PROVE HoldersInv'
  <2>1. Release(w) /\ UNCHANGED spc /\ \E label : GoTo(w, label)
    BY <1>18 DEF CommitApply, AbortApply, Crash, Leave, sessionVars
  <2> QED BY <1>9, <2>1
<1> QED BY <1>1, <1>2, <1>3, <1>4, <1>5, <1>8, <1>11, <1>12, <1>13, <1>14, <1>15, <1>16, <1>17, <1>18
        DEF Next, SessionStep, WorkerStep

\* The rows come last, the company before them, the own row of the save first:
\* only a save that has inserted the keys asks for the company after them.
LEMMA NoOtherRing == LockInv /\ MissingInv /\ HoldersInv => RingsNeedMissingQuestions
<1> SUFFICES ASSUME LockInv, MissingInv, HoldersInv,
                    NEW S \in SUBSET (Sessions \cup Workers), S # {},
                    \A s \in S \cap Sessions, w \in S \cap Workers : ~Crossed(s, w)
             PROVE  \E p \in S : WaitsFor(p) \cap S = {}
  BY DEF RingsNeedMissingQuestions
<1>1. CASE rows \in S
  <2>1. CASE Needs(rows) = {}
    BY <1>1, <2>1 DEF WaitsFor
  <2>2. CASE Needs(rows) # {}
    <3>1. rows \in Sessions /\ spc[rows] = "parent" /\ Needs(rows) = {owner}
      BY <1>1, <2>2 DEF HoldersInv, Needs, At
    <3>2. questions = None
      BY <3>1 DEF MissingInv
    <3>3. CASE owner \notin S
      BY <1>1, <3>1, <3>3 DEF WaitsFor
    <3>4. CASE owner \in S
      <4>1. ~(owner \in Workers /\ wpc[owner] = "write")
        BY <1>1, <3>1, <3>2, <3>4 DEF Crossed, At
      <4>2. Needs(owner) = {}
        BY <3>4, <4>1 DEF HoldersInv, Needs, At
      <4> QED BY <3>4, <4>2 DEF WaitsFor
    <3> QED BY <3>3, <3>4
  <2> QED BY <2>1, <2>2
<1>2. ASSUME rows \notin S, NEW p \in S, p = owner \/ p \in sharers
      PROVE  \E q \in S : WaitsFor(q) \cap S = {}
  <2>1. p \in Sessions => spc[p] # "parent"
    BY <1>2 DEF LockInv
  <2>2. Needs(p) \subseteq {rows}
    BY <1>2, <2>1 DEF HoldersInv, SavePcs, Needs, At
  <2> QED BY <1>2, <2>2 DEF WaitsFor
<1>3. ASSUME rows \notin S, owner \notin S, sharers \cap S = {}, collecting \in S
      PROVE  \E q \in S : WaitsFor(q) \cap S = {}
  <2>1. Needs(collecting) \subseteq {rows, owner}
    BY <1>3 DEF HoldersInv, SavePcs, Needs, At
  <2> QED BY <1>3, <2>1 DEF WaitsFor
<1>4. ASSUME rows \notin S, owner \notin S, sharers \cap S = {}, collecting \notin S, NEW p \in S
      PROVE  WaitsFor(p) \cap S = {}
  <2>1. Needs(p) \subseteq {rows, owner, collecting} \cup sharers
    BY DEF Needs
  <2> QED BY <1>4, <2>1 DEF WaitsFor
<1>5. PICK p \in S : TRUE
  OBVIOUS
<1>6. CASE rows \notin S /\ (owner \in S \/ sharers \cap S # {})
  BY <1>2, <1>6
<1>7. CASE rows \notin S /\ owner \notin S /\ sharers \cap S = {}
  BY <1>3, <1>4, <1>5, <1>7
<1> QED BY <1>1, <1>6, <1>7

(* The locks of one company (syncCompanyQuestionsTx, enqueueCompanyQuestion-  *)
(* Suggestions, applyCompanyQuestionsIfDefault): however many sessions and    *)
(* workers there are, those that wait for each other in a ring have among    *)
(* them a save that inserts missing questions and the job that crosses it.   *)
THEOREM RingsAreOfMissingQuestions == Spec => []RingsNeedMissingQuestions
<1>1. Init => HoldersInv
  BY DEF Init, HoldersInv
<1>2. IInv /\ HoldersInv /\ [Next]_vars => HoldersInv'
  BY HoldersKept DEF IInv
<1>3. IInv /\ HoldersInv => RingsNeedMissingQuestions
  BY NoOtherRing DEF IInv
<1> QED BY <1>1, <1>2, <1>3, Invariance, PTL DEF Spec

\* Only the commit of an apply writes generated questions.
LEMMA OnlyApplyWrites ==
  ASSUME IInv, Next, questions' # questions, IsAi(questions')
  PROVE  \E w \in Workers : CommitApply(w)
<1>1. ASSUME NEW s \in Sessions, CommitSave(s) PROVE FALSE
  BY <1>1 DEF CommitSave, IInv, TypeInv, IsAi
<1>2. CASE SeedDefaults
  BY <1>2 DEF SeedDefaults, IsAi
<1> QED BY <1>1, <1>2 DEF Next, SessionStep, WorkerStep, BeginSave, AbortSave, Retry, SyncCatalog,
           SyncQuestions, InsertQuestions, ShareCompany, ReadLatest, ReadDefault, ReadDefaultSubs,
           BeginEnqueue, CountJobs, InsertJob, Claim, CallAi, BeginApply, ReadTexts, ReadSubquestions,
           WriteQuestions, SaveCompleted, SaveFailure, LoseLease, AbortApply, Crash, CooldownEnds, DayPasses

(* Of several workers with the same job, or several jobs, only the first     *)
(* finds the default questions (applyCompanyQuestionsIfDefault).             *)
THEOREM GeneratedOnce == Spec => AiNeverReplacesAi
<1>1. IInv /\ [Next]_vars => [IsAi(questions) /\ questions' # questions => ~IsAi(questions')]_vars
  BY OnlyApplyWrites DEF IInv, ApplyInv, CommitApply
<1> QED BY <1>1, Invariance, PTL DEF Spec, AiNeverReplacesAi

(* An edit is lost only when it was committed inside the transaction that     *)
(* applies the generated questions, after the statement of                  *)
(* hasDefaultCompanyQuestionsIn that would have shown it: the first one for  *)
(* edited texts, the second one for a subquestion alone.                     *)
THEOREM EditsSurvive == Spec => EditsDuringTheCallSurvive
<1>1. IInv /\ [Next]_vars =>
        [IsEdit(questions) /\ IsAi(questions') => \E w \in late : wpc[w] = "commit" /\ wpc'[w] # "commit"]_vars
  <2> SUFFICES ASSUME IInv, Next, IsEdit(questions), IsAi(questions')
               PROVE  \E w \in late : wpc[w] = "commit" /\ wpc'[w] # "commit"
    BY DEF IsAi, IsEdit, vars
  <2>1. PICK w \in Workers : CommitApply(w)
    BY OnlyApplyWrites DEF IsAi, IsEdit
  <2>2. wpc[w] = "commit" /\ wpc'[w] # "commit"
    BY <2>1 DEF CommitApply, GoTo, IInv, TypeInv
  <2>3. w \in late
    BY <2>2 DEF IInv, ApplyInv
  <2> QED BY <2>2, <2>3
<1> QED BY <1>1, Invariance, PTL DEF Spec, EditsDuringTheCallSurvive
-----------------------------------------------------------------------------
(* The refinement of JobLease.                                               *)

Flags == {"unset", "true", "false"}

ClaimTypes ==
  /\ attempts \in [Jobs -> Nat] /\ rev \in [Workers -> Nat]
  /\ applied \in [Jobs -> Flags] /\ outcome \in [Workers -> Flags]

\* Claims of a job are told apart by their revisions; only a completed job has
\* the flag applied, which its worker has before it saves.
ClaimInv ==
  /\ \A w \in Workers : job[w] = NoJob <=> wpc[w] = "idle"
  /\ \A w \in Workers : job[w] \in Jobs => rev[w] <= attempts[job[w]]
  /\ \A v, w \in Workers : job[v] = job[w] /\ job[w] # NoJob /\ rev[v] = rev[w] => v = w

FlagInv ==
  /\ \A w \in Workers : wpc[w] = "save" => outcome[w] # "unset"
  /\ \A j \in Jobs : applied[j] # "unset" => status[j] = "completed"

LeaseInv == ClaimTypes /\ ClaimInv /\ FlagInv

\* Sessions, the cooldown and the end of a day: at most a new job is inserted.
LEMMA OthersKeepClaims ==
  ASSUME Next, \A w \in Workers : ~(\/ WorkerStep(w) \/ AbortApply(w) \/ Crash(w)
                                    \/ \E j \in Jobs : Claim(w, j))
  PROVE  /\ UNCHANGED <<workerVars, attempts, applied>>
         /\ \/ status' = status
            \/ \E j \in Jobs : status[j] = "none" /\ status' = [status EXCEPT ![j] = "queued"]
BY DEF Next, SessionStep, BeginSave, AbortSave, Retry, SyncCatalog, SyncQuestions, InsertQuestions,
       ShareCompany, CommitSave, ReadLatest, ReadDefault, ReadDefaultSubs, BeginEnqueue, CountJobs,
       InsertJob, SeedDefaults, CooldownEnds, DayPasses, jobVars

\* Inside a claim a worker goes on, and knows the flag when it goes to save it.
LEMMA WorkerGoesOn ==
  ASSUME NEW w \in Workers,
         \/ CallAi(w) \/ BeginApply(w) \/ ReadTexts(w) \/ ReadSubquestions(w)
         \/ WriteQuestions(w) \/ CommitApply(w) \/ AbortApply(w)
  PROVE  /\ UNCHANGED <<jobVars, job, rev>> /\ wpc[w] # "idle" /\ wpc[w] # "save"
         /\ \/ \E label \in {"apply", "subs", "texts", "write", "commit", "fail"} :
                 GoTo(w, label) /\ outcome' = outcome
            \/ \E flag \in {"true", "false"} :
                 GoTo(w, "save") /\ outcome' = [outcome EXCEPT ![w] = flag]
BY DEF CallAi, BeginApply, ReadTexts, ReadSubquestions, NotDefault, WriteQuestions, CommitApply, AbortApply

LEMMA NextLease == ASSUME IInv, LeaseInv, Next PROVE LeaseInv'
<1>0. TypeInv /\ ClaimTypes /\ ClaimInv /\ FlagInv
  BY DEF IInv, LeaseInv
<1>1. CASE \A w \in Workers : ~(\/ WorkerStep(w) \/ AbortApply(w) \/ Crash(w)
                                \/ \E j \in Jobs : Claim(w, j))
  <2>1. UNCHANGED <<wpc, job, rev, outcome, attempts, applied>>
    BY <1>1, OthersKeepClaims DEF workerVars
  <2>2. \A j \in Jobs : status[j] = "completed" => status'[j] = "completed"
    BY <1>0, <1>1, OthersKeepClaims DEF TypeInv
  <2> QED BY <1>0, <2>1, <2>2 DEF LeaseInv, ClaimTypes, ClaimInv, FlagInv
<1>2. ASSUME NEW w \in Workers, NEW j \in Jobs, Claim(w, j) PROVE LeaseInv'
  <2>1. /\ wpc[w] = "idle" /\ wpc' = [wpc EXCEPT ![w] = "call"]
        /\ attempts' = [attempts EXCEPT ![j] = @ + 1] /\ job' = [job EXCEPT ![w] = j]
        /\ rev' = [rev EXCEPT ![w] = attempts[j] + 1] /\ status[j] # "completed"
        /\ status' = [status EXCEPT ![j] = "running"] /\ UNCHANGED <<applied, outcome>>
    BY <1>2 DEF Claim, GoTo, Active
  <2>2. ClaimTypes'
    BY <1>0, <2>1 DEF ClaimTypes
  <2>3. ASSUME NEW v \in Workers
        PROVE  /\ job'[v] = NoJob <=> wpc'[v] = "idle"
               /\ job'[v] \in Jobs => rev'[v] <= attempts'[job'[v]]
    BY <1>0, <2>1 DEF TypeInv, ClaimTypes, ClaimInv
  <2>4. ASSUME NEW u \in Workers, NEW v \in Workers,
               job'[u] = job'[v], job'[v] # NoJob, rev'[u] = rev'[v]
        PROVE  u = v
    <3>1. ASSUME NEW x \in Workers, x # w, job[x] = j PROVE rev[x] # attempts[j] + 1
      BY <1>0, <3>1 DEF ClaimTypes, ClaimInv
    <3> QED BY <1>0, <2>1, <2>4, <3>1 DEF TypeInv, ClaimTypes, ClaimInv
  <2>5. FlagInv'
    BY <1>0, <2>1 DEF TypeInv, FlagInv
  <2> QED BY <2>2, <2>3, <2>4, <2>5 DEF LeaseInv, ClaimInv
<1>3. ASSUME NEW w \in Workers,
             \/ CallAi(w) \/ BeginApply(w) \/ ReadTexts(w) \/ ReadSubquestions(w)
             \/ WriteQuestions(w) \/ CommitApply(w) \/ AbortApply(w)
      PROVE  LeaseInv'
  <2>1. UNCHANGED <<status, attempts, applied, job, rev>> /\ wpc[w] # "idle"
    BY <1>3, WorkerGoesOn DEF jobVars
  <2>2. ClaimTypes'
    BY <1>0, <1>3, <2>1, WorkerGoesOn DEF ClaimTypes, Flags
  <2>3. \A v \in Workers : wpc'[v] = "idle" <=> wpc[v] = "idle"
    BY <1>0, <1>3, WorkerGoesOn DEF GoTo, TypeInv
  <2>4. \A v \in Workers : wpc'[v] = "save" => outcome'[v] # "unset"
    BY <1>0, <1>3, WorkerGoesOn DEF GoTo, TypeInv, ClaimTypes, FlagInv
  <2> QED BY <1>0, <2>1, <2>2, <2>3, <2>4 DEF LeaseInv, ClaimInv, FlagInv
<1>4. ASSUME NEW w \in Workers, SaveCompleted(w) \/ SaveFailure(w) \/ LoseLease(w) \/ Crash(w)
      PROVE  LeaseInv'
  <2>1. Leave(w) /\ attempts' = attempts
    BY <1>4 DEF SaveCompleted, SaveFailure, LoseLease, Crash, jobVars
  <2>2. \A v \in Workers : \/ /\ job'[v] = job[v] /\ rev'[v] = rev[v]
                              /\ wpc'[v] = wpc[v] /\ outcome'[v] = outcome[v]
                           \/ job'[v] = NoJob /\ wpc'[v] = "idle"
    BY <1>0, <2>1 DEF Leave, GoTo, TypeInv, ClaimTypes
  <2>3. ClaimInv'
    BY <1>0, <2>1, <2>2 DEF ClaimInv
  <2>4. rev' \in [Workers -> Nat] /\ outcome' \in [Workers -> Flags]
    BY <1>0, <2>1 DEF Leave, ClaimTypes, Flags
  <2>5. /\ applied' \in [Jobs -> Flags]
        /\ \A j \in Jobs : applied'[j] # "unset" => status'[j] = "completed"
    <3>1. CASE LoseLease(w) \/ Crash(w)
      BY <1>0, <3>1 DEF LoseLease, Crash, jobVars, ClaimTypes, FlagInv
    <3>2. CASE SaveFailure(w)
      <4>1. Fenced(w) /\ applied' = applied /\ \A i \in Jobs : i # job[w] => status'[i] = status[i]
        BY <1>0, <3>2 DEF SaveFailure, TypeInv
      <4> QED BY <1>0, <4>1 DEF ClaimTypes, FlagInv, Fenced
    <3>3. CASE SaveCompleted(w)
      BY <1>0, <3>3 DEF SaveCompleted, TypeInv, ClaimTypes, FlagInv
    <3> QED BY <1>4, <3>1, <3>2, <3>3
  <2>6. \A v \in Workers : wpc'[v] = "save" => outcome'[v] # "unset"
    BY <1>0, <2>2 DEF FlagInv
  <2> QED BY <1>0, <2>1, <2>3, <2>4, <2>5, <2>6 DEF LeaseInv, ClaimTypes, FlagInv
<1> QED BY <1>1, <1>2, <1>3, <1>4 DEF WorkerStep

LEMMA LeaseInvariance == Spec => [](IInv /\ LeaseInv)
<1>1. Init => LeaseInv
  BY DEF Init, LeaseInv, ClaimTypes, ClaimInv, FlagInv, Flags
<1>2. IInv /\ LeaseInv /\ [Next]_vars => LeaseInv'
  BY NextLease DEF vars, jobVars, workerVars, LeaseInv, ClaimTypes, ClaimInv, FlagInv
<1> QED BY <1>1, <1>2, Invariance, PTL DEF Spec

\* Under LeaseInv a job has one holder, which is its owner.
OwnerReadsHolder ==
  \A j \in Jobs : \/ \E w \in Workers : Holds(w, j) /\ ownerOf[j] = w
                  \/ (\A w \in Workers : ~Holds(w, j)) /\ ownerOf[j] = Nobody

LEMMA OneHolder ==
  ASSUME LeaseInv, NEW v \in Workers, NEW w \in Workers, NEW j \in Jobs,
         Holds(v, j), Holds(w, j)
  PROVE  v = w
BY DEF LeaseInv, ClaimInv, Holds, Fenced

LEMMA OwnerIsHolder == OwnerReadsHolder
BY DEF OwnerReadsHolder, ownerOf

LEMMA OwnerIsHolderNext == OwnerReadsHolder'
BY OwnerIsHolder, PTL

SameHolding(j) == \A w \in Workers : Holds(w, j)' <=> Holds(w, j)
LeaseStep == [Lease!LeaseNext]_(Lease!leaseVars)

\* The owner of a job changes only where its holder does.
LEMMA SameOwner ==
  ASSUME LeaseInv, LeaseInv', NEW j \in Jobs, SameHolding(j)
  PROVE  ownerOf'[j] = ownerOf[j]
<1>1. \A v, w \in Workers : Holds(v, j) /\ Holds(w, j) => v = w
  BY OneHolder
<1> QED BY <1>1, OwnerIsHolder, OwnerIsHolderNext DEF OwnerReadsHolder, SameHolding

LEMMA NewOwner ==
  ASSUME LeaseInv, LeaseInv', NEW i \in Jobs, NEW o,
         \A j \in Jobs \ {i} : SameHolding(j),
         \/ o \in Workers /\ \A w \in Workers : Holds(w, i)' <=> w = o
         \/ o = Nobody /\ \A w \in Workers : ~Holds(w, i)'
  PROVE  ownerOf' = [ownerOf EXCEPT ![i] = o]
<1>1. ownerOf'[i] = o
  BY OwnerIsHolderNext DEF OwnerReadsHolder
<1>2. \A j \in Jobs \ {i} : ownerOf'[j] = ownerOf[j]
  BY SameOwner
<1>3. /\ ownerOf = [j \in Jobs |-> ownerOf[j]]
      /\ ownerOf' = [j \in Jobs |-> ownerOf'[j]]
  BY DEF ownerOf
<1> QED BY <1>1, <1>2, <1>3

\* A step that moves no status, no revision and no flag, and gives up no lease,
\* is a stutter of the queue.
LEMMA QuietStep ==
  ASSUME LeaseInv, LeaseInv', phaseOf' = phaseOf, doneOf' = doneOf,
         \A j \in Jobs : SameHolding(j)
  PROVE  LeaseStep
<1>1. \A j \in Jobs : ownerOf'[j] = ownerOf[j]
  BY SameOwner
<1>2. ownerOf' = ownerOf
  BY <1>1 DEF ownerOf
<1> QED BY <1>2 DEF LeaseStep, Lease!leaseVars

\* Sessions, the cooldown and the end of a day: a request inserts an absent job.
LEMMA OthersRefine ==
  ASSUME IInv, LeaseInv, LeaseInv', Next,
         \A w \in Workers : ~(\/ WorkerStep(w) \/ AbortApply(w) \/ Crash(w)
                              \/ \E j \in Jobs : Claim(w, j))
  PROVE  LeaseStep
<1>0. UNCHANGED <<job, rev, attempts, applied>> /\ doneOf' = doneOf
  BY OthersKeepClaims DEF workerVars, doneOf
<1>1. CASE status' = status
  BY <1>0, <1>1, QuietStep DEF phaseOf, Active, SameHolding, Holds, Fenced
<1>2. ASSUME NEW i \in Jobs, status[i] = "none", status' = [status EXCEPT ![i] = "queued"]
      PROVE  LeaseStep
  <2>1. phaseOf[i] = "absent" /\ phaseOf' = [phaseOf EXCEPT ![i] = "open"]
    BY <1>2 DEF phaseOf, Active, IInv, TypeInv
  <2>2. \A j \in Jobs : SameHolding(j)
    BY <1>0, <1>2 DEF SameHolding, Holds, Fenced, IInv, TypeInv
  <2>3. \A j \in Jobs : ownerOf'[j] = ownerOf[j]
    BY <2>2, SameOwner
  <2>4. ownerOf' = ownerOf
    BY <2>3 DEF ownerOf
  <2> QED BY <1>0, <2>1, <2>4 DEF LeaseStep, Lease!LeaseNext, Lease!Open
<1> QED BY <1>1, <1>2, OthersKeepClaims

\* A claim takes an open job, from a stalled owner or from nobody.
LEMMA ClaimRefines ==
  ASSUME IInv, LeaseInv, LeaseInv', NEW w \in Workers, NEW i \in Jobs, Claim(w, i)
  PROVE  LeaseStep
<1>0. /\ job[w] = NoJob /\ Active(i) /\ applied' = applied
      /\ status' = [status EXCEPT ![i] = "running"]
      /\ attempts' = [attempts EXCEPT ![i] = @ + 1]
      /\ job' = [job EXCEPT ![w] = i] /\ rev' = [rev EXCEPT ![w] = attempts[i] + 1]
  BY DEF Claim, LeaseInv, ClaimInv
<1>t. TypeInv /\ ClaimTypes
  BY DEF IInv, LeaseInv
<1>1. \A j \in Jobs \ {i} : SameHolding(j)
  BY <1>0, <1>t DEF SameHolding, Holds, Fenced, TypeInv, ClaimTypes
<1>2. Holds(w, i)'
  BY <1>0, <1>t DEF Holds, Fenced, TypeInv, ClaimTypes
<1>3. \A v \in Workers : Holds(v, i)' => v = w
  BY <1>0, <1>2 DEF LeaseInv, ClaimInv, Holds, Fenced
<1>4. ownerOf' = [ownerOf EXCEPT ![i] = w]
  BY <1>1, <1>2, <1>3, NewOwner
<1>5. phaseOf[i] = "open" /\ phaseOf' = phaseOf /\ doneOf' = doneOf
  BY <1>0, <1>t DEF phaseOf, doneOf, Active, TypeInv
<1> QED BY <1>4, <1>5 DEF LeaseStep, Lease!LeaseNext, Lease!Acquire

\* The end of the job, or a failure: its owner closes it, with or without the
\* flag, or leaves it open.
LEMMA SaveRefines ==
  ASSUME IInv, LeaseInv, LeaseInv', NEW w \in Workers, SaveCompleted(w) \/ SaveFailure(w)
  PROVE  LeaseStep
<1>t. TypeInv /\ ClaimTypes /\ ClaimInv /\ FlagInv
  BY DEF IInv, LeaseInv
<1>1. Fenced(w) /\ Leave(w) /\ attempts' = attempts
  BY DEF SaveCompleted, SaveFailure
<1>2. PICK i \in Jobs : job[w] = i
  BY <1>t DEF SaveCompleted, SaveFailure, TypeInv, ClaimInv
<1>3. PICK st \in {"queued", "completed", "failed"} :
        /\ status' = [status EXCEPT ![i] = st]
        /\ \/ st # "completed" /\ applied' = applied
           \/ /\ st = "completed" /\ wpc[w] = "save"
              /\ applied' = [applied EXCEPT ![i] = outcome[w]]
  BY <1>2 DEF SaveCompleted, SaveFailure
<1>4. Holds(w, i) /\ status[i] = "running" /\ applied[i] = "unset"
  BY <1>t, <1>1, <1>2 DEF Holds, Fenced, FlagInv
<1>5. ownerOf[i] = w
  BY <1>4, OneHolder, OwnerIsHolder DEF OwnerReadsHolder
<1>6. \A j \in Jobs \ {i} : SameHolding(j)
  BY <1>t, <1>1, <1>2, <1>3 DEF Leave, SameHolding, Holds, Fenced, TypeInv, ClaimTypes
<1>7. \A v \in Workers : ~Holds(v, i)'
  BY <1>t, <1>3 DEF Holds, Fenced, TypeInv
<1>8. ownerOf' = [ownerOf EXCEPT ![i] = Nobody]
  BY <1>6, <1>7, NewOwner
<1>9. phaseOf[i] = "open" /\ doneOf[i] = 0
  BY <1>4 DEF phaseOf, doneOf, Active
<1>10. CASE st = "queued"
  <2>1. phaseOf' = phaseOf /\ doneOf' = doneOf
    BY <1>t, <1>3, <1>4, <1>10 DEF phaseOf, doneOf, Active, TypeInv
  <2> QED BY <1>5, <1>8, <2>1 DEF LeaseStep, Lease!LeaseNext, Lease!Release
<1>11. CASE st \in {"completed", "failed"}
  <2>1. phaseOf' = [phaseOf EXCEPT ![i] = "closed"]
    BY <1>t, <1>3, <1>11 DEF phaseOf, Active, TypeInv
  <2>2. doneOf' = doneOf \/ doneOf' = [doneOf EXCEPT ![i] = @ + 1]
    <3>1. CASE applied' = applied
      BY <3>1 DEF doneOf
    <3>2. CASE wpc[w] = "save" /\ applied' = [applied EXCEPT ![i] = outcome[w]]
      <4>1. doneOf' = [doneOf EXCEPT ![i] = 1]
        BY <1>t, <3>2 DEF doneOf, ClaimTypes, FlagInv
      <4>2. doneOf \in [Jobs -> {0, 1}]
        BY DEF doneOf
      <4> QED BY <1>9, <4>1, <4>2
    <3> QED BY <1>3, <3>1, <3>2
  <2> QED BY <1>5, <1>8, <1>9, <2>1, <2>2 DEF LeaseStep, Lease!LeaseNext, Lease!Close
<1> QED BY <1>10, <1>11

\* A worker that leaves without a save: it gives up its claim, or had lost it.
LEMMA DropRefines ==
  ASSUME IInv, LeaseInv, LeaseInv', NEW w \in Workers, LoseLease(w) \/ Crash(w)
  PROVE  LeaseStep
<1>t. TypeInv /\ ClaimTypes /\ ClaimInv
  BY DEF IInv, LeaseInv
<1>1. Leave(w) /\ UNCHANGED <<status, attempts, applied>>
  BY DEF LoseLease, Crash, jobVars
<1>2. phaseOf' = phaseOf /\ doneOf' = doneOf
  BY <1>1 DEF phaseOf, doneOf, Active
<1>3. PICK i \in Jobs : job[w] = i
  BY <1>t DEF LoseLease, Crash, TypeInv, ClaimInv
<1>4. \A j \in Jobs \ {i} : SameHolding(j)
  BY <1>t, <1>1, <1>3 DEF Leave, SameHolding, Holds, Fenced, TypeInv, ClaimTypes
<1>5. \A v \in Workers : Holds(v, i)' => v # w /\ Holds(v, i)
  BY <1>t, <1>1 DEF Leave, Holds, Fenced, TypeInv, ClaimTypes
<1>6. CASE Fenced(w)
  <2>1. Holds(w, i) /\ \A v \in Workers : Holds(v, i) => v = w
    BY <1>3, <1>6, OneHolder DEF Holds
  <2>2. ownerOf[i] = w
    BY <2>1, OwnerIsHolder DEF OwnerReadsHolder
  <2>3. ownerOf' = [ownerOf EXCEPT ![i] = Nobody]
    BY <1>4, <1>5, <2>1, NewOwner
  <2> QED BY <1>2, <2>2, <2>3 DEF LeaseStep, Lease!LeaseNext, Lease!Release
<1>7. CASE ~Fenced(w)
  <2>1. SameHolding(i)
    BY <1>t, <1>1, <1>3, <1>5, <1>7 DEF Leave, SameHolding, Holds, Fenced, TypeInv, ClaimTypes
  <2>2. \A j \in Jobs : SameHolding(j)
    BY <1>4, <2>1
  <2> QED BY <1>2, <2>2, QuietStep
<1> QED BY <1>6, <1>7

\* Every step is a step of the lease or a stutter.
LEMMA NextRefines == ASSUME IInv, LeaseInv, LeaseInv', [Next]_vars PROVE LeaseStep
<1>1. CASE UNCHANGED vars
  BY <1>1, QuietStep DEF vars, jobVars, workerVars, phaseOf, doneOf, Active, SameHolding, Holds,
                         Fenced
<1>2. ASSUME NEW w \in Workers,
             \/ CallAi(w) \/ BeginApply(w) \/ ReadTexts(w) \/ ReadSubquestions(w)
             \/ WriteQuestions(w) \/ CommitApply(w) \/ AbortApply(w)
      PROVE  LeaseStep
  BY <1>2, WorkerGoesOn, QuietStep DEF jobVars, phaseOf, doneOf, Active, SameHolding, Holds, Fenced
<1>3. CASE \E w \in Workers, j \in Jobs : Claim(w, j)
  BY <1>3, ClaimRefines
<1>4. CASE \E w \in Workers : SaveCompleted(w) \/ SaveFailure(w)
  BY <1>4, SaveRefines
<1>5. CASE \E w \in Workers : LoseLease(w) \/ Crash(w)
  BY <1>5, DropRefines
<1>6. CASE Next /\ \A w \in Workers : ~(\/ WorkerStep(w) \/ AbortApply(w) \/ Crash(w)
                                        \/ \E j \in Jobs : Claim(w, j))
  BY <1>6, OthersRefine
<1> QED BY <1>1, <1>2, <1>3, <1>4, <1>5, <1>6 DEF WorkerStep

LEMMA InitRefines == Init => Lease!LeaseInit
BY DEF Init, Lease!LeaseInit, phaseOf, ownerOf, doneOf, Holds

(* The job of a generation keeps the promise of JobLease: whatever became of  *)
(* the questions, it ends once and with its flag applied, and a worker whose  *)
(* lease is gone moves it no more (saveClaimedIaJob).                        *)
THEOREM GenerationLease == Spec => ImplementsLease
<1>1. (IInv /\ LeaseInv) /\ (IInv /\ LeaseInv)' /\ [Next]_vars
        => [Lease!LeaseNext]_(Lease!leaseVars)
  BY NextRefines DEF LeaseStep
<1> QED BY <1>1, LeaseInvariance, InitRefines, PTL
        DEF Spec, ImplementsLease, Lease!LeaseSpec
\* Only saveClaimedIaJob of the last claim writes the flag, into a job without.
LEMMA HolderSavesFlag ==
  ASSUME IInv, LeaseInv, NEW w \in Workers, SaveCompleted(w)
  PROVE  /\ job[w] \in Jobs /\ Holds(w, job[w]) /\ applied[job[w]] = "unset"
         /\ applied' = [applied EXCEPT ![job[w]] = outcome[w]]
<1>1. job[w] \in Jobs
  BY DEF SaveCompleted, IInv, TypeInv, LeaseInv, ClaimInv
<1> QED BY <1>1 DEF SaveCompleted, Holds, Fenced, LeaseInv, FlagInv

(* The flag applied of a job is written once, by the worker of its last claim *)
(* and as that worker found it: of two workers that both called              *)
(* applyCompanyQuestionsIfDefault for the job, the one that stalled never     *)
(* says another thing after the other.                                       *)
THEOREM FlagsStay == Spec => AppliedIsTheHolders
<1>1. (IInv /\ LeaseInv) /\ [Next]_vars =>
        [\A j \in Jobs : applied'[j] # applied[j] =>
           applied[j] = "unset" /\ \E w \in Workers : Holds(w, j) /\ outcome[w] = applied'[j]]_vars
  <2> SUFFICES ASSUME IInv, LeaseInv, Next, NEW j \in Jobs, applied'[j] # applied[j]
               PROVE  /\ applied[j] = "unset"
                      /\ \E w \in Workers : Holds(w, j) /\ outcome[w] = applied'[j]
    BY DEF vars
  <2>1. PICK w \in Workers : SaveCompleted(w)
    BY DEF Next, SessionStep, WorkerStep, BeginSave, AbortSave, Retry, SyncCatalog, SyncQuestions,
           InsertQuestions, ShareCompany, CommitSave, ReadLatest, ReadDefault, ReadDefaultSubs,
           BeginEnqueue, CountJobs, InsertJob, Claim, CallAi, BeginApply, ReadTexts, ReadSubquestions,
           WriteQuestions, CommitApply, SaveFailure, LoseLease, AbortApply, Crash, SeedDefaults,
           CooldownEnds, DayPasses, jobVars
  <2>2. applied \in [Jobs -> Flags]
    BY DEF LeaseInv, ClaimTypes
  <2>3. j = job[w] /\ applied'[j] = outcome[w]
    BY <2>1, <2>2, HolderSavesFlag
  <2> QED BY <2>1, <2>3, HolderSavesFlag
<1> QED BY <1>1, LeaseInvariance, PTL DEF Spec, AppliedIsTheHolders
=============================================================================
