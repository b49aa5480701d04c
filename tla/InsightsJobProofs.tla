-------------------------- MODULE InsightsJobProofs --------------------------
(***************************************************************************)
(* InsightsJob for any feedback, reports, jobs and workers and any bounds.  *)
(* Three copies of a checkpoint exist of each claim: the row, what the      *)
(* worker works on and what it last confirmed.  Each of them is Good by     *)
(* itself; Leased says how the copies of a worker that still has its lease  *)
(* relate to the row, and Traced what a worker without a lease still knows: *)
(* its batches are the snapshot of the job, because a snapshot is taken     *)
(* once, so that a stalled worker publishes nothing but whole reports.      *)
(***************************************************************************)
EXTENDS InsightsJob, FiniteSetTheorems, TLAPS

Called == {"generating", "synthesizing"}
Ended == {"completed", "failed"}
Held(w) == pc[w] # "idle"

TypeInv ==
  /\ reportOf \in [Feedbacks -> Reports] /\ arrived \subseteq Feedbacks
  /\ status \in [Jobs -> {"none", "queued", "running"} \cup Ended]
  /\ attempts \in [Jobs -> Nat] /\ rev \in [Workers -> Nat]
  /\ DOMAIN ck = Jobs /\ DOMAIN published = Jobs /\ snapshot = [j \in Jobs |-> snapshot[j]]
  /\ mem = [w \in Workers |-> mem[w]] /\ DOMAIN kept = Workers
  /\ unpublished = [w \in Workers |-> unpublished[w]]
  /\ DOMAIN pc = Workers /\ DOMAIN job = Workers
  /\ \A w \in Workers : Held(w) => job[w] \in Jobs /\ status[job[w]] # "none"

Good(c) ==
  /\ c = [phase |-> c.phase, batches |-> c.batches, todo |-> c.todo, partial |-> c.partial,
          targets |-> c.targets, synthesized |-> c.synthesized, startedAt |-> c.startedAt]
  /\ c.batches \subseteq Feedbacks /\ c.todo \subseteq c.batches
  /\ c.partial \in [Feedbacks -> Nat]
  /\ c.phase \in Called =>
       \A f \in Feedbacks : c.partial[f] = IF f \in c.batches \ c.todo THEN 1 ELSE 0
  /\ c.phase = "generating" => c.synthesized = {}
  /\ c.phase = "synthesizing" =>
       c.todo = {} /\ c.synthesized \cup c.targets = ReportsOf(c.batches)

GoodInv ==
  /\ \A j \in Jobs : Good(ck[j])
  /\ \A w \in Workers : Good(mem[w]) /\ Good(kept[w])

\* What d may be when c was saved before it.
Extends(d, c) ==
  c.phase \in Called =>
    /\ d.phase \in Called /\ (c.phase = "synthesizing" => d.phase = "synthesizing")
    /\ d.batches = c.batches /\ d.todo \subseteq c.todo
    /\ c.synthesized \subseteq d.synthesized

Placed(w) ==
  /\ pc[w] = "prepare" => mem[w].phase \notin Called
  /\ pc[w] = "savePrepared" => mem[w].phase # "synthesizing"
  /\ pc[w] = "synthesize" => mem[w].phase = "synthesizing"
  /\ pc[w] = "beginSynthesis" => mem[w].phase = "generating" /\ mem[w].todo = {}
  /\ pc[w] \in {"confirm", "publish"} => mem[w].phase = "synthesizing" /\ mem[w].targets = {}
  /\ pc[w] = "publish" => /\ unpublished[w] \subseteq mem[w].synthesized
                          /\ mem[w].synthesized \ unpublished[w] \subseteq published[job[w]]
  /\ pc[w] = "complete" /\ mem[w].phase \in Called =>
       /\ mem[w].phase = "synthesizing" /\ mem[w].targets = {}
       /\ mem[w].synthesized \subseteq published[job[w]]

Leased(w) ==
  /\ Held(w) => rev[w] <= attempts[job[w]]
  /\ Held(w) /\ Fenced(w) /\ pc[w] # "abort" =>
       /\ kept[w] = ck[job[w]]
       /\ IF pc[w] \in {"prepare", "savePrepared"} THEN ck[job[w]].phase \notin Called
          ELSE IF pc[w] = "saveStep" THEN /\ Extends(mem[w], ck[job[w]])
                                          /\ mem[w].phase = ck[job[w]].phase
          ELSE mem[w] = ck[job[w]]

Traced(w) ==
  pc[w] \notin {"idle", "savePrepared"} /\ mem[w].phase \in Called =>
    /\ mem[w].batches = snapshot[job[w]]
    /\ status[job[w]] \notin Ended => ck[job[w]].phase \in Called

WorkerInv ==
  /\ \A w \in Workers : Placed(w) /\ Leased(w) /\ Traced(w)
  /\ \A v, w \in Workers : Held(v) /\ Held(w) /\ job[v] = job[w] /\ rev[v] = rev[w] => v = w

SnapshotInv ==
  \A j \in Jobs :
    /\ published[j] \subseteq ReportsOf(snapshot[j]) /\ snapshot[j] \subseteq Feedbacks
    /\ status[j] \notin Ended => IF ck[j].phase \in Called THEN ck[j].batches = snapshot[j]
                                                           ELSE snapshot[j] = {}

ReportInv ==
  /\ ReportsAreWhole
  /\ DOMAIN report = Reports
  /\ \A r \in Reports : report[r] # NoReport => report[r].of \in Jobs

IInv == TypeInv /\ GoodInv /\ WorkerInv /\ SnapshotInv /\ ReportInv

Keeps ==
  \A j \in Jobs :
    Active(j)' /\ ck[j].phase \in {"generating", "synthesizing"} =>
      /\ ck[j]'.batches = ck[j].batches
      /\ ck[j]'.todo \subseteq ck[j].todo
      /\ ck[j].synthesized \subseteq ck[j]'.synthesized
      /\ ck[j].phase = "synthesizing" => ck[j]'.phase = "synthesizing"

LEMMA EmptyIsGood == Good(NoCheckpoint) /\ NoCheckpoint.phase = "none"
BY DEF Good, NoCheckpoint, Checkpoint, Called, Nothing

LEMMA InitHolds == Init => IInv
<1> SUFFICES ASSUME Init PROVE IInv
  OBVIOUS
<1>1. TypeInv /\ GoodInv
  BY EmptyIsGood DEF Init, TypeInv, GoodInv, Held, Ended
<1>2. WorkerInv
  BY DEF Init, WorkerInv, Placed, Leased, Traced, Held
<1>3. SnapshotInv /\ ReportInv
  BY EmptyIsGood DEF Init, SnapshotInv, ReportInv, ReportsAreWhole, ReportsOf,
    Called, Ended
<1> QED BY <1>1, <1>2, <1>3 DEF IInv

-----------------------------------------------------------------------------
(* The kinds of steps of a worker.                                           *)

LEMMA SameGood ==
  ASSUME UNCHANGED reportOf, NEW c PROVE Good(c)' <=> Good(c)
BY DEF Good, ReportsOf

\* A worker moves on without a write to the row of its job.
LEMMA MoveKeeps ==
  ASSUME IInv, NEW w \in Workers, NEW label, NEW c, Held(w), label # "idle", Good(c),
         GoTo(w, label), mem' = [mem EXCEPT ![w] = c],
         \E rs : unpublished' = [unpublished EXCEPT ![w] = rs],
         UNCHANGED <<reportOf, arrived, report, rowVars, job, rev, kept, historyVars>>,
         Placed(w)', Leased(w)', Traced(w)'
  PROVE  IInv' /\ Keeps
<1> USE DEF rowVars, historyVars
<1>1. TypeInv'
  BY DEF IInv, TypeInv, GoTo, Held
<1>2. GoodInv'
  <2>1. \A v \in Workers : Good(mem'[v]) /\ Good(kept'[v])
    BY DEF IInv, TypeInv, GoodInv
  <2>2. \A j \in Jobs : Good(ck'[j])
    BY DEF IInv, GoodInv
  <2> QED BY <2>1, <2>2, SameGood DEF GoodInv
<1>3. ASSUME NEW v \in Workers, v # w PROVE Placed(v)' /\ Leased(v)' /\ Traced(v)'
  <2>1. pc'[v] = pc[v] /\ mem'[v] = mem[v] /\ unpublished'[v] = unpublished[v]
    BY <1>3 DEF IInv, TypeInv, GoTo
  <2>2. Placed(v) /\ Leased(v) /\ Traced(v)
    BY DEF IInv, WorkerInv
  <2> QED BY <2>1, <2>2 DEF Placed, Leased, Traced, Held, Fenced
<1>4. WorkerInv'
  <2>1. \A v \in Workers : Held(v)' => Held(v)
    BY DEF IInv, TypeInv, GoTo, Held
  <2> QED BY <1>3, <2>1 DEF IInv, WorkerInv
<1>5. SnapshotInv' /\ ReportInv'
  BY DEF IInv, SnapshotInv, ReportInv, ReportsAreWhole, ReportsOf
<1>6. Keeps
  BY DEF Keeps
<1> QED BY <1>1, <1>2, <1>4, <1>5, <1>6 DEF IInv

\* A worker leaves its job, by itself or because it dies.
LEMMA LeaveKeeps ==
  ASSUME IInv, NEW w \in Workers, Leave(w),
         UNCHANGED <<reportOf, arrived, report, rowVars, historyVars>>
  PROVE  IInv' /\ Keeps
<1> USE DEF rowVars, historyVars
<1>1. TypeInv'
  BY DEF IInv, TypeInv, Leave, GoTo, Held
<1>2. GoodInv'
  <2>1. \A v \in Workers : Good(mem'[v]) /\ Good(kept'[v])
    BY EmptyIsGood DEF IInv, TypeInv, GoodInv, Leave
  <2>2. \A j \in Jobs : Good(ck'[j])
    BY DEF IInv, GoodInv
  <2> QED BY <2>1, <2>2, SameGood DEF GoodInv
<1>3. ASSUME NEW v \in Workers PROVE Placed(v)' /\ Leased(v)' /\ Traced(v)'
  <2>1. CASE v = w
    BY <2>1 DEF IInv, TypeInv, Leave, GoTo, Placed, Leased, Traced, Held
  <2>2. CASE v # w
    <3>1. /\ pc'[v] = pc[v] /\ mem'[v] = mem[v] /\ unpublished'[v] = unpublished[v]
          /\ job'[v] = job[v] /\ rev'[v] = rev[v] /\ kept'[v] = kept[v]
      BY <2>2 DEF IInv, TypeInv, Leave, GoTo
    <3>2. Placed(v) /\ Leased(v) /\ Traced(v)
      BY DEF IInv, WorkerInv
    <3> QED BY <3>1, <3>2 DEF Placed, Leased, Traced, Held, Fenced
  <2> QED BY <2>1, <2>2
<1>4. WorkerInv'
  <2>1. \A v \in Workers : Held(v)' => Held(v) /\ job'[v] = job[v] /\ rev'[v] = rev[v]
    BY DEF IInv, TypeInv, Leave, GoTo, Held
  <2> QED BY <1>3, <2>1 DEF IInv, WorkerInv
<1>5. SnapshotInv' /\ ReportInv'
  BY DEF IInv, SnapshotInv, ReportInv, ReportsAreWhole, ReportsOf
<1>6. Keeps
  BY DEF Keeps
<1> QED BY <1>1, <1>2, <1>4, <1>5, <1>6 DEF IInv

\* The worker that saves is the only one of its job with the lease, and what
\* it wrote is what a later worker starts from.
LEMMA OthersKeep ==
  ASSUME IInv, NEW w \in Workers, Held(w), NEW v \in Workers, v # w,
         NEW st, NEW c, NEW d, NEW t, NEW n, Save(w, st, c, d, t, n),
         st \in {"queued", "running"} \cup Ended,
         st \notin Ended => Extends(c, ck[job[w]]),
         pc'[v] = pc[v] /\ job'[v] = job[v] /\ rev'[v] = rev[v],
         mem'[v] = mem[v] /\ kept'[v] = kept[v] /\ unpublished'[v] = unpublished[v],
         published' = published,
         snapshot' = snapshot \/ /\ ck[job[w]].phase \notin Called
                                 /\ \E fs : snapshot' = [snapshot EXCEPT ![job[w]] = fs]
  PROVE  Placed(v)' /\ Leased(v)' /\ Traced(v)'
<1>1. Placed(v) /\ Leased(v) /\ Traced(v)
  BY DEF IInv, WorkerInv
<1>2. job[w] \in Jobs /\ status[job[w]] = "running" /\ attempts[job[w]] = rev[w]
  BY DEF IInv, TypeInv, Save, Fenced
<1>3. Placed(v)'
  BY <1>1 DEF Placed
<1>4. CASE ~Held(v)
  BY <1>4 DEF Placed, Leased, Traced, Held
<1>5. CASE Held(v) /\ job[v] # job[w]
  <2>1. /\ status'[job[v]] = status[job[v]] /\ ck'[job[v]] = ck[job[v]]
        /\ attempts'[job[v]] = attempts[job[v]] /\ snapshot'[job[v]] = snapshot[job[v]]
    BY <1>5 DEF IInv, TypeInv, Save
  <2> QED BY <1>1, <1>3, <2>1 DEF Leased, Traced, Held, Fenced
<1>6. CASE Held(v) /\ job[v] = job[w]
  <2>1. rev[v] # rev[w]
    BY <1>6 DEF IInv, WorkerInv
  <2>2. ~Fenced(v)' /\ rev'[v] <= attempts'[job'[v]]
    BY <1>1, <1>2, <1>6, <2>1 DEF Fenced, Save, Leased
  <2>3. /\ status'[job[w]] = st /\ ck'[job[w]] = c
    BY <1>2 DEF IInv, TypeInv, Save
  <2>4. Traced(v)'
    BY <1>1, <1>2, <1>6, <2>3 DEF Traced, Extends, Ended
  <2> QED BY <1>3, <2>2, <2>4 DEF Leased
<1> QED BY <1>3, <1>4, <1>5, <1>6

LEMMA SaveKeepsTable ==
  ASSUME IInv, NEW w \in Workers, Held(w),
         NEW st, NEW c, NEW d, NEW t, NEW n, Save(w, st, c, d, t, n), Good(c),
         st \in {"queued", "running"} \cup Ended,
         st \notin Ended => Extends(c, ck[job[w]]),
         st = "completed" => published[job[w]] = ReportsOf(snapshot[job[w]]),
         UNCHANGED <<reportOf, arrived, report, published>>,
         IF c.phase \in Called /\ ck[job[w]].phase \notin Called /\ st \notin Ended
           THEN snapshot' = [snapshot EXCEPT ![job[w]] = c.batches]
           ELSE snapshot' = snapshot
  PROVE  (\A j \in Jobs : Good(ck[j])') /\ SnapshotInv' /\ ReportInv' /\ Keeps
<1>1. job[w] \in Jobs /\ status[job[w]] = "running"
  BY DEF IInv, TypeInv, Save, Fenced
<1>2. \A j \in Jobs : IF j = job[w] THEN status'[j] = st /\ ck'[j] = c
                                    ELSE status'[j] = status[j] /\ ck'[j] = ck[j]
  BY DEF IInv, TypeInv, Save
<1>3. \A j \in Jobs : Good(ck[j])'
  <2>1. \A j \in Jobs : Good(ck'[j])
    BY <1>2 DEF IInv, GoodInv
  <2> QED BY <2>1, SameGood
<1>4. \A j \in Jobs : /\ snapshot'[j] = snapshot[j] \/ snapshot[j] = {}
                      /\ snapshot'[j] \subseteq Feedbacks
  <2>1. ck[job[w]].phase \notin Called => snapshot[job[w]] = {}
    BY <1>1 DEF IInv, SnapshotInv, Ended
  <2>2. c.batches \subseteq Feedbacks /\ \A j \in Jobs : snapshot[j] \subseteq Feedbacks
    BY DEF Good, IInv, SnapshotInv
  <2>3. DOMAIN snapshot = Jobs
    BY DEF IInv, TypeInv
  <2> QED BY <1>1, <2>1, <2>2, <2>3
<1>5. SnapshotInv'
  <2> SUFFICES ASSUME NEW j \in Jobs
               PROVE  /\ published'[j] \subseteq ReportsOf(snapshot[j])'
                      /\ status'[j] \notin Ended =>
                           IF ck'[j].phase \in Called THEN ck'[j].batches = snapshot'[j]
                                                      ELSE snapshot'[j] = {}
    BY <1>4 DEF SnapshotInv
  <2>1. published'[j] \subseteq ReportsOf(snapshot[j])'
    BY <1>4 DEF IInv, SnapshotInv, ReportsOf
  <2>2. CASE j # job[w]
    <3>1. snapshot'[j] = snapshot[j]
      BY <1>1, <2>2 DEF IInv, TypeInv
    <3> QED BY <1>2, <2>1, <2>2, <3>1 DEF IInv, SnapshotInv
  <2>3. ASSUME j = job[w], st \notin Ended
        PROVE  IF c.phase \in Called THEN c.batches = snapshot'[j] ELSE snapshot'[j] = {}
    <3>1. IF ck[j].phase \in Called THEN ck[j].batches = snapshot[j] ELSE snapshot[j] = {}
      BY <1>1, <2>3 DEF IInv, SnapshotInv, Ended
    <3>2. DOMAIN snapshot = Jobs
      BY DEF IInv, TypeInv
    <3>3. Extends(c, ck[j])
      BY <2>3
    <3>4. CASE ck[j].phase \in Called
      BY <2>3, <3>1, <3>3, <3>4 DEF Extends
    <3>5. CASE ck[j].phase \notin Called
      BY <2>3, <3>1, <3>2, <3>5
    <3> QED BY <3>4, <3>5
  <2> QED BY <1>2, <2>1, <2>2, <2>3
<1>6. ReportInv'
  <2>1. ASSUME NEW r \in Reports, report[r] # NoReport
        PROVE  /\ report[r].covers = {f \in snapshot'[report[r].of] : reportOf'[f] = r}
               /\ report[r].covers # {}
    <3>1. /\ report[r].of \in Jobs /\ report[r].covers # {}
          /\ report[r].covers = {f \in snapshot[report[r].of] : reportOf[f] = r}
      BY <2>1 DEF IInv, ReportInv, ReportsAreWhole
    <3> QED BY <1>4, <3>1
  <2>2. ASSUME NEW j \in Jobs, status'[j] = "completed"
        PROVE  published'[j] = ReportsOf(snapshot[j])'
    <3>1. published[j] = ReportsOf(snapshot[j])
      BY <1>2, <2>2 DEF IInv, ReportInv, ReportsAreWhole
    <3>2. snapshot'[j] = snapshot[j]
      BY <1>1, <1>2, <2>2 DEF IInv, TypeInv, Ended
    <3> QED BY <3>1, <3>2 DEF ReportsOf
  <2> QED BY <2>1, <2>2 DEF IInv, ReportInv, ReportsAreWhole
<1>7. Keeps
  BY <1>1, <1>2 DEF Keeps, Extends, Called, Ended, Active
<1> QED BY <1>3, <1>5, <1>6, <1>7

\* A worker saves and leaves, or saves and goes on.
LEMMA SaveAndLeave ==
  ASSUME IInv, NEW w \in Workers, Held(w),
         NEW st, NEW c, NEW d, NEW t, NEW n, Save(w, st, c, d, t, n), Leave(w), Good(c),
         st \in {"queued"} \cup Ended,
         st \notin Ended => Extends(c, ck[job[w]]) /\ (c.phase \in Called => ck[job[w]].phase \in Called),
         st = "completed" => published[job[w]] = ReportsOf(snapshot[job[w]]),
         UNCHANGED <<reportOf, arrived, report, historyVars>>
  PROVE  IInv' /\ Keeps
<1> USE DEF historyVars
<1>1. (\A j \in Jobs : Good(ck[j])') /\ SnapshotInv' /\ ReportInv' /\ Keeps
  BY SaveKeepsTable
<1>2. \A v \in Workers :
        IF v = w THEN pc'[v] = "idle" /\ mem'[v] = NoCheckpoint /\ kept'[v] = NoCheckpoint
        ELSE /\ pc'[v] = pc[v] /\ job'[v] = job[v] /\ rev'[v] = rev[v]
             /\ mem'[v] = mem[v] /\ kept'[v] = kept[v] /\ unpublished'[v] = unpublished[v]
  BY DEF IInv, TypeInv, Leave, GoTo
<1>3. GoodInv'
  <2>1. \A v \in Workers : Good(mem'[v]) /\ Good(kept'[v])
    BY <1>2, EmptyIsGood DEF IInv, GoodInv
  <2> QED BY <1>1, <2>1, SameGood DEF GoodInv
<1>4. TypeInv'
  <2>1. \A j \in Jobs : status'[j] = status[j] \/ status'[j] = st
    BY DEF IInv, TypeInv, Save
  <2>2. \A v \in Workers : Held(v)' => Held(v) /\ job'[v] = job[v]
    BY <1>2 DEF Held
  <2> QED BY <2>1, <2>2 DEF IInv, TypeInv, Save, Leave, GoTo, Held, Ended
<1>5. WorkerInv'
  <2>1. ASSUME NEW v \in Workers, v # w PROVE Placed(v)' /\ Leased(v)' /\ Traced(v)'
    BY <1>2, <2>1, OthersKeep
  <2>2. Placed(w)' /\ Leased(w)' /\ Traced(w)'
    BY <1>2 DEF Placed, Leased, Traced, Held
  <2> QED BY <1>2, <2>1, <2>2 DEF IInv, WorkerInv, Held
<1> QED BY <1>1, <1>3, <1>4, <1>5 DEF IInv

LEMMA SaveAndStay ==
  ASSUME IInv, NEW w \in Workers, Held(w), NEW label, label # "idle",
         NEW d, NEW t, NEW n, Save(w, "running", mem[w], d, t, n), Extends(mem[w], ck[job[w]]),
         GoTo(w, label),
         kept' = [kept EXCEPT ![w] = mem[w]] \/ kept' = kept,
         UNCHANGED <<reportOf, arrived, report, published, job, rev, mem, unpublished>>,
         IF mem[w].phase \in Called /\ ck[job[w]].phase \notin Called
           THEN snapshot' = [snapshot EXCEPT ![job[w]] = mem[w].batches]
           ELSE snapshot' = snapshot,
         Placed(w)', Leased(w)'
  PROVE  IInv' /\ Keeps
<1>0. Good(mem[w])
  BY DEF IInv, GoodInv
<1>1. (\A j \in Jobs : Good(ck[j])') /\ SnapshotInv' /\ ReportInv' /\ Keeps
  BY <1>0, SaveKeepsTable DEF Ended
<1>2. \A v \in Workers : v # w => pc'[v] = pc[v] /\ kept'[v] = kept[v]
  BY DEF IInv, TypeInv, GoTo
<1>3. GoodInv'
  <2>1. \A v \in Workers : Good(mem'[v]) /\ Good(kept'[v])
    BY DEF IInv, GoodInv, TypeInv
  <2> QED BY <1>1, <2>1, SameGood DEF GoodInv
<1>4. TypeInv'
  <2>1. \A j \in Jobs : status'[j] = status[j] \/ status'[j] = "running"
    BY DEF IInv, TypeInv, Save
  <2>2. \A v \in Workers : Held(v)' => Held(v)
    BY <1>2 DEF Held
  <2> QED BY <2>1, <2>2 DEF IInv, TypeInv, Save, GoTo, Held
<1>5. job[w] \in Jobs /\ status[job[w]] = "running"
  BY DEF IInv, TypeInv, Save, Fenced
<1>6. Traced(w)'
  <2>1. ck'[job[w]] = mem[w]
    BY <1>5 DEF IInv, TypeInv, Save
  <2>2. mem[w].phase \in Called => mem[w].batches = snapshot'[job[w]]
    BY <1>1, <1>5, <2>1, <1>4 DEF SnapshotInv, Save, IInv, TypeInv, Ended
  <2> QED BY <2>1, <2>2 DEF Traced
<1>7. WorkerInv'
  <2>1. ASSUME NEW v \in Workers, v # w PROVE Placed(v)' /\ Leased(v)' /\ Traced(v)'
    BY <1>2, <2>1, OthersKeep DEF Ended
  <2>2. \A v \in Workers : Held(v)' => Held(v)
    BY <1>2 DEF Held
  <2> QED BY <1>6, <2>1, <2>2 DEF IInv, WorkerInv
<1> QED BY <1>1, <1>3, <1>4, <1>7 DEF IInv

-----------------------------------------------------------------------------
(* The actions.                                                              *)

LEMMA Places ==
  ASSUME NEW j, NEW c
  PROVE  /\ Step(j, c) \in {"prepare", "batch", "synthesize", "beginSynthesis", "confirm", "complete"}
         /\ Step(j, c) = "prepare" => c.phase \notin Called
         /\ Step(j, c) = "synthesize" => c.phase = "synthesizing"
         /\ Step(j, c) = "beginSynthesis" => c.phase = "generating" /\ c.todo = {}
         /\ Step(j, c) = "confirm" => c.phase = "synthesizing" /\ c.targets = {}
         /\ Step(j, c) = "complete" => c.phase \notin Called
BY DEF Step, Called

LEMMA EnvironmentKeeps ==
  ASSUME IInv,
    (\E f \in Feedbacks : Arrive(f) \/ AnalyzedElsewhere(f)) \/ \E j \in Jobs : Request(j)
  PROVE  IInv' /\ Keeps
<1>1. UNCHANGED <<reportOf, report, attempts, ck, workerVars, historyVars>>
  BY DEF Arrive, AnalyzedElsewhere, Request, requestVars, rowVars
<1>2. /\ \A j \in Jobs : status'[j] = status[j] \/ (status[j] = "none" /\ status'[j] = "queued")
      /\ status' \in [Jobs -> {"none", "queued", "running"} \cup Ended]
      /\ arrived' \subseteq Feedbacks
  BY DEF Arrive, AnalyzedElsewhere, Request, requestVars, rowVars, dataVars, IInv,
    TypeInv
<1> USE DEF workerVars, copyVars, historyVars
<1>3. TypeInv'
  BY <1>1, <1>2 DEF IInv, TypeInv, Held
<1>4. GoodInv'
  BY <1>1, SameGood DEF IInv, GoodInv
<1>5. WorkerInv'
  <2>1. \A w \in Workers : Held(w) => job[w] \in Jobs /\ status'[job[w]] = status[job[w]]
    BY <1>2 DEF IInv, TypeInv
  <2>2. ASSUME NEW w \in Workers PROVE Placed(w)' /\ Leased(w)' /\ Traced(w)'
    BY <1>1, <2>1 DEF IInv, WorkerInv, Placed, Leased, Traced, Held, Fenced
  <2> QED BY <1>1, <2>2 DEF IInv, WorkerInv, Held
<1>6. SnapshotInv' /\ ReportInv'
  BY <1>1, <1>2 DEF IInv, SnapshotInv, ReportInv, ReportsAreWhole, ReportsOf, Ended
<1>7. Keeps
  BY <1>1 DEF Keeps
<1> QED BY <1>3, <1>4, <1>5, <1>6, <1>7 DEF IInv

LEMMA ClaimKeeps ==
  ASSUME IInv, NEW w \in Workers, NEW j \in Jobs, Claim(w, j)
  PROVE  IInv' /\ Keeps
<1>0. PICK label \in {"prepare", "batch", "synthesize", "beginSynthesis", "confirm", "complete"} :
        /\ GoTo(w, label)
        /\ label = IF ck[j].phase = "none" THEN "prepare" ELSE Step(j, ck[j])
  BY Places DEF Claim
<1>1. UNCHANGED <<reportOf, arrived, report, ck, unpublished, historyVars>>
  BY DEF Claim, dataVars, requestVars
<1>2. \A v \in Workers :
        IF v = w THEN /\ pc'[v] = label /\ job'[v] = j /\ rev'[v] = attempts[j] + 1
                      /\ mem'[v] = ck[j] /\ kept'[v] = ck[j]
        ELSE /\ pc'[v] = pc[v] /\ job'[v] = job[v] /\ rev'[v] = rev[v]
             /\ mem'[v] = mem[v] /\ kept'[v] = kept[v]
  BY <1>0 DEF IInv, TypeInv, Claim, GoTo
<1>3. /\ status[j] \in {"queued", "running"} /\ attempts'[j] = attempts[j] + 1 /\ status'[j] = "running"
      /\ \A i \in Jobs : i # j => attempts'[i] = attempts[i] /\ status'[i] = status[i]
  BY DEF IInv, TypeInv, Claim, Active
<1> USE DEF historyVars
<1>4. TypeInv'
  <2>1. \A v \in Workers : Held(v)' => job'[v] \in Jobs /\ status'[job'[v]] # "none"
    BY <1>2, <1>3 DEF IInv, TypeInv, Held
  <2>2. /\ status' \in [Jobs -> {"none", "queued", "running"} \cup Ended]
        /\ attempts' \in [Jobs -> Nat] /\ rev' \in [Workers -> Nat]
    BY DEF IInv, TypeInv, Claim
  <2>3. /\ DOMAIN pc' = Workers /\ DOMAIN job' = Workers /\ DOMAIN kept' = Workers
        /\ mem' = [v \in Workers |-> mem'[v]]
    BY DEF IInv, TypeInv, Claim, GoTo
  <2> QED BY <1>1, <2>1, <2>2, <2>3 DEF IInv, TypeInv
<1>5. GoodInv'
  <2>1. (\A i \in Jobs : Good(ck'[i])) /\ \A v \in Workers : Good(mem'[v]) /\ Good(kept'[v])
    BY <1>1, <1>2 DEF IInv, GoodInv
  <2> QED BY <1>1, <2>1, SameGood DEF GoodInv
<1>6. WorkerInv'
  <2>1. ASSUME NEW v \in Workers, v # w PROVE Placed(v)' /\ Leased(v)' /\ Traced(v)'
    <3>1. Placed(v) /\ Leased(v) /\ Traced(v)
      BY DEF IInv, WorkerInv
    <3>2. CASE ~Held(v)
      BY <1>2, <2>1, <3>2 DEF Placed, Leased, Traced, Held
    <3>3. CASE Held(v) /\ job[v] # j
      BY <1>1, <1>2, <1>3, <2>1, <3>1, <3>3 DEF IInv, TypeInv, Placed, Leased,
        Traced, Held, Fenced
    <3>4. CASE Held(v) /\ job[v] = j
      <4>1. rev[v] \in Nat /\ attempts[j] \in Nat /\ rev[v] <= attempts[j]
        BY <3>1, <3>4 DEF IInv, TypeInv, Leased
      <4>2. Leased(v)'
        BY <1>2, <1>3, <2>1, <3>4, <4>1 DEF Leased, Fenced
      <4>3. Placed(v)' /\ Traced(v)'
        BY <1>1, <1>2, <1>3, <2>1, <3>1, <3>4 DEF Placed, Traced, Ended
      <4> QED BY <4>2, <4>3
    <3> QED BY <3>2, <3>3, <3>4
  <2>2. Placed(w)'
    BY <1>0, <1>2, Places DEF Placed, Called
  <2>3. Leased(w)'
    <3>1. attempts[j] \in Nat
      BY DEF IInv, TypeInv
    <3> QED BY <1>0, <1>1, <1>2, <1>3, <3>1, Places DEF Leased, Called
  <2>4. Traced(w)'
    BY <1>1, <1>2, <1>3 DEF Traced, IInv, SnapshotInv, Ended
  <2>5. ASSUME NEW v \in Workers, v # w, Held(v), job[v] = j PROVE rev'[v] # rev'[w]
    <3>1. rev[v] \in Nat /\ attempts[j] \in Nat /\ rev[v] <= attempts[j]
      BY <2>5 DEF IInv, TypeInv, WorkerInv, Leased
    <3> QED BY <1>2, <2>5, <3>1
  <2>6. \A u, v \in Workers : Held(u)' /\ Held(v)' /\ job'[u] = job'[v] /\ rev'[u] = rev'[v] => u = v
    BY <1>2, <2>5 DEF IInv, WorkerInv, Held
  <2> QED BY <2>1, <2>2, <2>3, <2>4, <2>6 DEF WorkerInv
<1>7. SnapshotInv' /\ ReportInv'
  BY <1>1, <1>3 DEF IInv, SnapshotInv, ReportInv, ReportsAreWhole, ReportsOf, Ended
<1>8. Keeps
  BY <1>1 DEF Keeps
<1> QED BY <1>4, <1>5, <1>6, <1>7, <1>8 DEF IInv

\* Steps that write no row: the copy of the worker changes, or nothing.
LEMMA PrepareKeeps ==
  ASSUME IInv, NEW w \in Workers, Prepare(w)
  PROVE  IInv' /\ Keeps
<1>1. Held(w) /\ mem[w].phase \notin Called
  BY DEF Prepare, Held, IInv, WorkerInv, Placed
<1>2. UNCHANGED <<reportOf, arrived, report, rowVars, job, rev, kept, unpublished, historyVars>>
  BY DEF Prepare, dataVars, requestVars
<1>3. unpublished' = [unpublished EXCEPT ![w] = unpublished[w]]
  BY <1>2 DEF IInv, TypeInv
<1>4. PICK label \in {"abort", "savePrepared"} : GoTo(w, label)
  BY DEF Prepare
<1>5. Leased(w)'
  BY <1>1, <1>2, <1>4 DEF IInv, TypeInv, WorkerInv, Leased, Held, Fenced, GoTo,
    Prepare, rowVars
<1>6. pc'[w] = label
  BY <1>4 DEF IInv, TypeInv, GoTo
<1>7. CASE label = "abort"
  <2>1. mem' = [mem EXCEPT ![w] = mem[w]]
    BY <1>4, <1>7 DEF Prepare, GoTo, IInv, TypeInv
  <2>2. Traced(w)'
    BY <1>1, <2>1 DEF Traced, IInv, TypeInv
  <2>3. Placed(w)'
    BY <1>6, <1>7 DEF Placed
  <2> QED BY <1>1, <1>2, <1>3, <1>4, <1>5, <1>7, <2>1, <2>2, <2>3,
    MoveKeeps DEF IInv, GoodInv
<1>8. CASE label = "savePrepared"
  <2>1. mem' = [mem EXCEPT ![w] = Prepared(w)]
    BY <1>4, <1>8 DEF Prepare, GoTo, IInv, TypeInv
  <2>2. Good(Prepared(w)) /\ Prepared(w).phase # "synthesizing"
    <3>1. Pending \subseteq Feedbacks /\ Analyzed \subseteq Feedbacks
      BY DEF IInv, TypeInv, Pending, Analyzed
    <3>2. ASSUME NEW phase \in {"analyzing", "generating"}, NEW fs,
      fs \subseteq Feedbacks, NEW n
          PROVE  Good(Checkpoint(phase, fs, n)) /\ Checkpoint(phase, fs, n).phase = phase
      BY <3>2 DEF Good, Checkpoint, Nothing, Called
    <3> QED BY <3>1, <3>2, EmptyIsGood DEF Prepared
  <2>3. Traced(w)'
    BY <1>4, <1>8 DEF Traced, GoTo, IInv, TypeInv
  <2>4. Placed(w)'
    BY <1>6, <1>8, <2>1, <2>2 DEF Placed, IInv, TypeInv
  <2> QED BY <1>1, <1>2, <1>3, <1>4, <1>5, <1>8, <2>1, <2>2, <2>3, <2>4, MoveKeeps
<1> QED BY <1>4, <1>7, <1>8

LEMMA CallKeeps ==
  ASSUME IInv, NEW w \in Workers,
         \/ \E f \in Feedbacks : AnalyzeBatch(w, f) \/ GenerateBatch(w, f)
         \/ \E r \in Reports : Synthesize(w, r)
  PROVE  IInv' /\ Keeps
<1> DEFINE c == mem'[w]
<1>1. Held(w) /\ pc[w] \in {"batch", "synthesize"} /\ GoTo(w, "saveStep")
  BY DEF AnalyzeBatch, GenerateBatch, Synthesize, Held
<1>2. UNCHANGED <<reportOf, arrived, report, rowVars, job, rev, kept, unpublished, historyVars>>
  BY DEF AnalyzeBatch, GenerateBatch, Synthesize, dataVars, requestVars
<1>3. unpublished' = [unpublished EXCEPT ![w] = unpublished[w]]
  BY <1>2 DEF IInv, TypeInv
<1>4. Good(mem[w]) /\ DOMAIN mem = Workers
  BY DEF IInv, GoodInv, TypeInv
<1>5. /\ mem' = [mem EXCEPT ![w] = c] /\ Good(c) /\ Extends(c, mem[w])
      /\ c.phase = mem[w].phase /\ c.batches = mem[w].batches
  <2>1. CASE \E f \in Feedbacks : AnalyzeBatch(w, f)
    <3>1. PICK f \in Feedbacks : AnalyzeBatch(w, f)
      BY <2>1
    <3>2. mem[w].phase = "analyzing" /\ mem' = [mem EXCEPT ![w].todo = @ \ {f}]
      BY <3>1 DEF AnalyzeBatch
    <3>3. c = [mem[w] EXCEPT !.todo = @ \ {f}]
      BY <1>4, <3>2
    <3> QED BY <1>4, <3>2, <3>3 DEF Good, Extends, Called
  <2>2. CASE \E f \in Feedbacks : GenerateBatch(w, f)
    <3>1. PICK f \in Feedbacks : GenerateBatch(w, f)
      BY <2>2
    <3>2. /\ mem[w].phase = "generating" /\ f \in mem[w].todo
          /\ mem' = [mem EXCEPT ![w].todo = @ \ {f}, ![w].partial[f] = @ + 1]
      BY <3>1 DEF GenerateBatch, NextBatch
    <3>3. c = [mem[w] EXCEPT !.todo = @ \ {f}, !.partial[f] = @ + 1]
      BY <1>4, <3>2
    <3>4. /\ c.phase = mem[w].phase /\ c.batches = mem[w].batches /\ c.todo = mem[w].todo \ {f}
          /\ c.partial = [mem[w].partial EXCEPT ![f] = @ + 1]
          /\ c.synthesized = mem[w].synthesized
          /\ c = [phase |-> c.phase, batches |-> c.batches, todo |-> c.todo, partial |-> c.partial,
                  targets |-> c.targets, synthesized |-> c.synthesized, startedAt |-> c.startedAt]
      BY <1>4, <3>3 DEF Good
    <3>5. \A g \in Feedbacks : c.partial[g] = IF g \in c.batches \ c.todo THEN 1 ELSE 0
      BY <1>4, <3>2, <3>4 DEF Good, Called
    <3>6. c.partial \in [Feedbacks -> Nat]
      BY <1>4, <3>4 DEF Good
    <3>7. Good(c)
      BY <1>4, <3>2, <3>4, <3>5, <3>6 DEF Good, Called
    <3> QED BY <1>4, <3>2, <3>3, <3>4, <3>7 DEF Extends, Called
  <2>3. CASE \E r \in Reports : Synthesize(w, r)
    <3>1. PICK r \in Reports : Synthesize(w, r)
      BY <2>3
    <3>2. /\ mem[w].phase = "synthesizing" /\ r \in mem[w].targets
          /\ mem' = [mem EXCEPT ![w].targets = @ \ {r}, ![w].synthesized = @ \cup {r}]
      BY <3>1 DEF Synthesize, IInv, WorkerInv, Placed
    <3>3. c = [mem[w] EXCEPT !.targets = @ \ {r}, !.synthesized = @ \cup {r}]
      BY <1>4, <3>2
    <3>4. /\ c.phase = mem[w].phase /\ c.batches = mem[w].batches /\ c.todo = mem[w].todo
          /\ c.partial = mem[w].partial
          /\ c.targets = mem[w].targets \ {r} /\ c.synthesized = mem[w].synthesized \cup {r}
          /\ c = [phase |-> c.phase, batches |-> c.batches, todo |-> c.todo, partial |-> c.partial,
                  targets |-> c.targets, synthesized |-> c.synthesized, startedAt |-> c.startedAt]
      BY <1>4, <3>3 DEF Good
    <3>5. c.synthesized \cup c.targets = mem[w].synthesized \cup mem[w].targets
      BY <3>2, <3>4
    <3>6. Good(c)
      BY <1>4, <3>2, <3>4, <3>5 DEF Good, Called
    <3> QED BY <1>4, <3>2, <3>3, <3>4, <3>6 DEF Extends, Called
  <2> QED BY <2>1, <2>2, <2>3
<1>6. Placed(w)'
  BY <1>1 DEF Placed, GoTo, IInv, TypeInv
<1>7. Leased(w)'
  <2>1. Leased(w)
    BY DEF IInv, WorkerInv
  <2>2. pc'[w] = "saveStep"
    BY <1>1 DEF GoTo, IInv, TypeInv
  <2> QED BY <1>1, <1>2, <1>5, <2>1, <2>2 DEF Leased, Held, Fenced, rowVars
<1>8. Traced(w)'
  <2>1. Traced(w)
    BY DEF IInv, WorkerInv
  <2> QED BY <1>1, <1>2, <1>5, <2>1 DEF Traced, rowVars, historyVars
<1> HIDE DEF c
<1> QED BY <1>1, <1>2, <1>3, <1>5, <1>6, <1>7, <1>8, MoveKeeps

LEMMA CallFailsKeeps ==
  ASSUME IInv, NEW w \in Workers, CallFails(w)
  PROVE  IInv' /\ Keeps
<1>1. Held(w) /\ \E label \in {"retry", "abort"} :
         GoTo(w, label) /\ (label = "retry" => pc[w] \in {"batch", "synthesize"})
  BY DEF CallFails, NeedsCall, Held
<1>2. UNCHANGED <<reportOf, arrived, report, rowVars, job, rev, mem, kept, unpublished, historyVars>>
  BY DEF CallFails, dataVars, requestVars, copyVars
<1>3. unpublished' = [unpublished EXCEPT ![w] = unpublished[w]] /\ mem' = [mem EXCEPT ![w] = mem[w]]
  BY <1>2 DEF IInv, TypeInv
<1>4. PICK label \in {"retry", "abort"} :
        GoTo(w, label) /\ (label = "retry" => pc[w] \in {"batch", "synthesize"})
  BY <1>1
<1>5. pc'[w] = label /\ pc[w] \in {"prepare", "batch", "synthesize"}
  BY <1>4 DEF IInv, TypeInv, GoTo, CallFails, NeedsCall
<1>6. Placed(w) /\ Leased(w) /\ Traced(w) /\ Good(mem[w])
  BY DEF IInv, WorkerInv, GoodInv
<1>7. Placed(w)' /\ Leased(w)' /\ Traced(w)'
  BY <1>1, <1>2, <1>4, <1>5, <1>6 DEF Placed, Leased, Traced, Held, Fenced, rowVars,
    historyVars
<1> QED BY <1>1, <1>2, <1>3, <1>4, <1>6, <1>7, MoveKeeps

LEMMA ConfirmKeeps ==
  ASSUME IInv, NEW w \in Workers, Confirm(w)
  PROVE  IInv' /\ Keeps
<1>1. /\ Held(w) /\ pc[w] = "confirm" /\ GoTo(w, "publish")
      /\ unpublished' = [unpublished EXCEPT ![w] = mem[w].synthesized]
      /\ UNCHANGED <<reportOf, arrived, report, rowVars, job, rev, mem, kept, historyVars>>
  BY DEF Confirm, Held, dataVars, requestVars, copyVars
<1>2. mem' = [mem EXCEPT ![w] = mem[w]] /\ unpublished'[w] = mem[w].synthesized /\ pc'[w] = "publish"
  BY <1>1 DEF IInv, TypeInv, GoTo
<1>3. Placed(w) /\ Leased(w) /\ Traced(w) /\ Good(mem[w])
  BY DEF IInv, WorkerInv, GoodInv
<1>4. Placed(w)' /\ Leased(w)' /\ Traced(w)'
  BY <1>1, <1>2, <1>3 DEF Placed, Leased, Traced, Held, Fenced, rowVars, historyVars
<1> QED BY <1>1, <1>2, <1>3, <1>4, MoveKeeps

LEMMA SavePreparedKeeps ==
  ASSUME IInv, NEW w \in Workers, SavePrepared(w)
  PROVE  IInv' /\ Keeps
<1>1. /\ Held(w) /\ pc[w] = "savePrepared" /\ Fenced(w)
      /\ Save(w, "running", mem[w], count[w], size[w], failures[job[w]])
  BY DEF SavePrepared, Held, Save
<1>2. /\ mem[w].phase # "synthesizing" /\ ck[job[w]].phase \notin Called
      /\ job[w] \in Jobs /\ rev[w] <= attempts[job[w]]
  BY <1>1 DEF IInv, TypeInv, WorkerInv, Placed, Leased
<1>3. PICK label \in {"prepare", "batch", "synthesize", "beginSynthesis", "confirm", "complete", "abort"} :
        /\ GoTo(w, label)
        /\ label # "abort" => label = Step(job[w], mem[w]) /\ kept' = [kept EXCEPT ![w] = mem[w]]
        /\ label = "abort" => kept' = kept
  BY Places DEF SavePrepared, Confirmed
<1>4. UNCHANGED <<reportOf, arrived, report, published, job, rev, mem, unpublished>>
  BY DEF SavePrepared, dataVars, requestVars
<1>5. IF mem[w].phase \in Called /\ ck[job[w]].phase \notin Called
        THEN snapshot' = [snapshot EXCEPT ![job[w]] = mem[w].batches]
        ELSE snapshot' = snapshot
  <2>1. snapshot' = [snapshot EXCEPT ![job[w]] = IF mem[w].phase = "generating"
                                                   THEN mem[w].batches ELSE @]
    BY DEF SavePrepared
  <2> QED BY <1>2, <2>1 DEF IInv, TypeInv, Called
<1>6. pc'[w] = label /\ ck'[job[w]] = mem[w] /\ UNCHANGED attempts /\ (label # "abort" => kept'[w] = mem[w])
  BY <1>1, <1>2, <1>3 DEF IInv, TypeInv, GoTo, Save
<1>7. Placed(w)'
  BY <1>3, <1>4, <1>6, Places DEF Placed, Called
<1>8. Leased(w)'
  BY <1>2, <1>3, <1>4, <1>6, Places DEF Leased, Called
<1>9. Extends(mem[w], ck[job[w]])
  BY <1>2 DEF Extends
<1> QED BY <1>1, <1>3, <1>4, <1>5, <1>7, <1>8, <1>9, SaveAndStay

LEMMA SaveStepKeeps ==
  ASSUME IInv, NEW w \in Workers, SaveStep(w)
  PROVE  IInv' /\ Keeps
<1>1. /\ Held(w) /\ pc[w] = "saveStep" /\ Fenced(w)
      /\ Save(w, "running", mem[w], count[w], total[job[w]], 0)
  BY DEF SaveStep, Held, Save
<1>2. /\ Extends(mem[w], ck[job[w]]) /\ mem[w].phase = ck[job[w]].phase
      /\ job[w] \in Jobs /\ rev[w] <= attempts[job[w]]
  BY <1>1 DEF IInv, TypeInv, WorkerInv, Leased
<1>3. PICK label \in {"requeue", "beginSynthesis", "confirm", "complete", "abort"} :
        /\ GoTo(w, label)
        /\ label # "abort" => /\ label = AfterStep(job[w], mem[w])
                              /\ kept' = [kept EXCEPT ![w] = mem[w]]
        /\ label = "abort" => kept' = kept
  BY Places DEF SaveStep, Confirmed, AfterStep
<1>4. UNCHANGED <<reportOf, arrived, report, published, snapshot, job, rev, mem, unpublished>>
  BY DEF SaveStep, dataVars, requestVars, historyVars
<1>5. pc'[w] = label /\ ck'[job[w]] = mem[w] /\ UNCHANGED attempts /\ (label # "abort" => kept'[w] = mem[w])
  BY <1>1, <1>2, <1>3 DEF IInv, TypeInv, GoTo, Save
<1>6. Placed(w)'
  BY <1>3, <1>4, <1>5, Places DEF Placed, AfterStep
<1>7. Leased(w)'
  BY <1>2, <1>3, <1>4, <1>5 DEF Leased
<1> QED BY <1>1, <1>2, <1>3, <1>4, <1>6, <1>7, SaveAndStay

LEMMA BeginSynthesisKeeps ==
  ASSUME IInv, NEW w \in Workers, BeginSynthesis(w)
  PROVE  IInv' /\ Keeps
<1> DEFINE c == [mem[w] EXCEPT !.phase = "synthesizing",
                   !.targets = ReportsOf({f \in mem[w].batches : mem[w].partial[f] > 0})]
<1>1. /\ Held(w) /\ Fenced(w) /\ Leave(w)
      /\ Save(w, "queued", c, count[w], Size(c), failures[job[w]])
      /\ UNCHANGED <<reportOf, arrived, report, historyVars>>
  BY DEF BeginSynthesis, Held, Save, dataVars, requestVars
<1>2. /\ mem[w] = ck[job[w]] /\ mem[w].phase = "generating" /\ mem[w].todo = {} /\ Good(mem[w])
  BY <1>1 DEF BeginSynthesis, IInv, GoodInv, WorkerInv, Placed, Leased
<1>3. {f \in mem[w].batches : mem[w].partial[f] > 0} = mem[w].batches
  BY <1>2 DEF Good, Called
<1>4. /\ c.phase = "synthesizing" /\ c.targets = ReportsOf(mem[w].batches)
      /\ c.batches = mem[w].batches /\ c.todo = mem[w].todo /\ c.partial = mem[w].partial
      /\ c.synthesized = mem[w].synthesized
      /\ c = [phase |-> c.phase, batches |-> c.batches, todo |-> c.todo, partial |-> c.partial,
              targets |-> c.targets, synthesized |-> c.synthesized, startedAt |-> c.startedAt]
  <2>1. c = [mem[w] EXCEPT !.phase = "synthesizing", !.targets = ReportsOf(mem[w].batches)]
    BY <1>3
  <2> HIDE DEF c
  <2> QED BY <1>2, <2>1 DEF Good
<1> HIDE DEF c
<1>5. Good(c)
  BY <1>2, <1>4 DEF Good, Called
<1>6. Extends(c, ck[job[w]]) /\ ck[job[w]].phase \in Called
  BY <1>2, <1>4 DEF Extends, Called
<1> QED BY <1>1, <1>5, <1>6, SaveAndLeave DEF Ended

LEMMA CompleteKeeps ==
  ASSUME IInv, NEW w \in Workers, Complete(w)
  PROVE  IInv' /\ Keeps
<1>1. /\ Held(w) /\ pc[w] = "complete" /\ Fenced(w) /\ Leave(w)
      /\ Save(w, "completed", NoCheckpoint, done[job[w]], total[job[w]], failures[job[w]])
      /\ UNCHANGED <<reportOf, arrived, report, historyVars>>
  BY DEF Complete, Held, Save, dataVars, requestVars
<1>2. /\ mem[w] = ck[job[w]] /\ job[w] \in Jobs /\ status[job[w]] \notin Ended
  BY <1>1 DEF IInv, TypeInv, WorkerInv, Leased, Fenced, Ended
<1>3. published[job[w]] \subseteq ReportsOf(snapshot[job[w]])
  BY <1>2 DEF IInv, SnapshotInv
<1>4. CASE mem[w].phase \in Called
  <2>1. /\ mem[w].phase = "synthesizing" /\ mem[w].targets = {}
        /\ mem[w].synthesized \subseteq published[job[w]]
    BY <1>1, <1>4 DEF IInv, WorkerInv, Placed
  <2>2. mem[w].synthesized = ReportsOf(snapshot[job[w]])
    <3>1. mem[w].batches = snapshot[job[w]]
      BY <1>2, <1>4 DEF IInv, SnapshotInv
    <3>2. mem[w].synthesized \cup mem[w].targets = ReportsOf(mem[w].batches)
      BY <2>1 DEF IInv, GoodInv, Good
    <3> QED BY <2>1, <3>1, <3>2
  <2>3. published[job[w]] = ReportsOf(snapshot[job[w]])
    BY <1>3, <2>1, <2>2
  <2> QED BY <1>1, <2>3, EmptyIsGood, SaveAndLeave DEF Ended
<1>5. CASE mem[w].phase \notin Called
  <2>1. snapshot[job[w]] = {}
    BY <1>2, <1>5 DEF IInv, SnapshotInv
  <2>2. published[job[w]] = ReportsOf(snapshot[job[w]])
    BY <1>3, <2>1 DEF ReportsOf
  <2> QED BY <1>1, <2>2, EmptyIsGood, SaveAndLeave DEF Ended
<1> QED BY <1>4, <1>5

LEMMA HandBackKeeps ==
  ASSUME IInv, NEW w \in Workers, Requeue(w) \/ SaveFailure(w) \/ BudgetExhausted(w)
  PROVE  IInv' /\ Keeps
<1>1. /\ Held(w) /\ Fenced(w) /\ Leave(w) /\ UNCHANGED <<reportOf, arrived, report, historyVars>>
  BY DEF Requeue, SaveFailure, BudgetExhausted, NeedsCall, Held, Save, dataVars,
    requestVars
<1>2. Good(ck[job[w]]) /\ Good(kept[w])
  BY <1>1 DEF IInv, TypeInv, GoodInv
<1>3. Extends(ck[job[w]], ck[job[w]])
  BY DEF Extends
<1>4. CASE Requeue(w) \/ BudgetExhausted(w)
  <2>1. Save(w, "queued", ck[job[w]], done[job[w]], total[job[w]], failures[job[w]])
    BY <1>4 DEF Requeue, BudgetExhausted
  <2> QED BY <1>1, <1>2, <1>3, <2>1, SaveAndLeave DEF Ended
<1>5. CASE SaveFailure(w)
  <2>1. PICK st \in {"queued", "failed"} :
          /\ Save(w, st, kept[w], done[job[w]], total[job[w]], fails[w] + 1)
          /\ st = "queued" => pc[w] = "retry"
    BY <1>5 DEF SaveFailure
  <2>2. st = "queued" => kept[w] = ck[job[w]]
    BY <1>1, <2>1 DEF IInv, WorkerInv, Leased
  <2> QED BY <1>1, <1>2, <1>3, <2>1, <2>2, SaveAndLeave DEF Ended
<1> QED BY <1>4, <1>5

\* What a worker publishes, with or without its lease, is whole.
LEMMA UpsertKeeps ==
  ASSUME IInv, NEW w \in Workers, pc[w] = "publish",
         NEW rs, rs \subseteq unpublished[w], Upsert(w, rs),
         UNCHANGED <<reportOf, ck, status, snapshot>>
  PROVE  /\ SnapshotInv' /\ ReportInv'
         /\ DOMAIN published' = Jobs /\ rs \subseteq published'[job[w]]
         /\ \A j \in Jobs : published[j] \subseteq published'[j]
<1>1. /\ job[w] \in Jobs /\ mem[w].phase = "synthesizing" /\ mem[w].batches = snapshot[job[w]]
      /\ unpublished[w] \subseteq mem[w].synthesized /\ Good(mem[w])
  BY DEF IInv, TypeInv, GoodInv, WorkerInv, Placed, Traced, Held, Called
<1>2. rs \subseteq ReportsOf(snapshot[job[w]])
  BY <1>1 DEF Good
<1>3. \A r : Covers(mem[w], r) = {f \in snapshot[job[w]] : reportOf[f] = r}
  BY <1>1 DEF Good, Covers, Called
<1>4. \A j \in Jobs : published'[j] = IF j = job[w] THEN published[j] \cup rs ELSE published[j]
  BY DEF Upsert, IInv, TypeInv
<1>5. \A j \in Jobs : /\ ReportsOf(snapshot[j])' = ReportsOf(snapshot[j])
                      /\ published'[j] \subseteq ReportsOf(snapshot[j])
  <2>1. \A j \in Jobs : ReportsOf(snapshot[j])' = ReportsOf(snapshot[j])
    BY DEF ReportsOf
  <2>2. \A j \in Jobs : published[j] \subseteq ReportsOf(snapshot[j])
    BY DEF IInv, SnapshotInv
  <2> QED BY <1>2, <1>4, <2>1, <2>2
<1>6. SnapshotInv'
  BY <1>5 DEF IInv, SnapshotInv
<1>7. ReportInv'
  <2>1. ASSUME NEW r \in Reports, report'[r] # NoReport
        PROVE  /\ report'[r].of \in Jobs /\ report'[r].covers # {}
               /\ report'[r].covers = {f \in snapshot[report'[r].of] : reportOf[f] = r}
    <3>1. CASE r \in rs
      <4>1. report'[r].covers = Covers(mem[w], r) /\ report'[r].of = job[w]
        BY <3>1 DEF Upsert
      <4>2. Covers(mem[w], r) # {}
        BY <1>2, <1>3, <3>1 DEF ReportsOf
      <4> QED BY <1>1, <1>3, <4>1, <4>2
    <3>2. CASE r \notin rs
      BY <2>1, <3>2 DEF Upsert, IInv, ReportInv, ReportsAreWhole
    <3> QED BY <3>1, <3>2
  <2>2. ASSUME NEW j \in Jobs, status[j] = "completed"
        PROVE published'[j] = ReportsOf(snapshot[j])
    <3>1. published[j] = ReportsOf(snapshot[j])
      BY <2>2 DEF IInv, ReportInv, ReportsAreWhole
    <3> QED BY <1>4, <1>5, <3>1
  <2>3. DOMAIN report' = Reports
    BY DEF Upsert
  <2> QED BY <1>5, <2>1, <2>2, <2>3 DEF ReportInv, ReportsAreWhole
<1> QED BY <1>1, <1>4, <1>6, <1>7 DEF Upsert, IInv, TypeInv

LEMMA PublishKeeps ==
  ASSUME IInv, NEW w \in Workers, PublishFails(w) \/ \E r \in Reports : Publish(w, r)
  PROVE  IInv' /\ Keeps
<1>1. PICK rs : /\ rs \subseteq unpublished[w] /\ Upsert(w, rs)
                /\ \/ GoTo(w, "abort") /\ UNCHANGED unpublished
                   \/ /\ unpublished' = [unpublished EXCEPT ![w] = @ \ rs]
                      /\ GoTo(w, IF unpublished[w] = rs THEN "complete" ELSE "publish")
  <2>1. CASE PublishFails(w)
    BY <2>1 DEF PublishFails
  <2>2. CASE \E r \in Reports : Publish(w, r)
    BY <2>2 DEF Publish
  <2> QED BY <2>1, <2>2
<1>2. /\ pc[w] = "publish" /\ Held(w)
      /\ UNCHANGED <<reportOf, arrived, status, attempts, ck, job, rev, mem, kept, snapshot>>
  BY DEF Publish, PublishFails, Held, dataVars, requestVars, rowVars, copyVars
<1>3. /\ SnapshotInv' /\ ReportInv'
      /\ DOMAIN published' = Jobs /\ rs \subseteq published'[job[w]]
      /\ \A j \in Jobs : published[j] \subseteq published'[j]
  BY <1>1, <1>2, UpsertKeeps
<1>4. PICK label \in {"abort", "complete", "publish"} : GoTo(w, label)
  BY <1>1
<1>5. TypeInv'
  BY <1>1, <1>2, <1>3, <1>4 DEF IInv, TypeInv, Held, GoTo
<1>6. GoodInv'
  BY <1>2, SameGood DEF IInv, GoodInv
<1>7. WorkerInv'
  <2>1. ASSUME NEW v \in Workers, v # w PROVE Placed(v)' /\ Leased(v)' /\ Traced(v)'
    <3>1. pc'[v] = pc[v] /\ unpublished'[v] = unpublished[v]
      BY <1>1, <2>1 DEF IInv, TypeInv, GoTo
    <3>2. Placed(v) /\ Leased(v) /\ Traced(v) /\ (Held(v) => job[v] \in Jobs)
      BY DEF IInv, TypeInv, WorkerInv
    <3> QED BY <1>2, <1>3, <3>1, <3>2 DEF Placed, Leased, Traced, Held, Fenced
  <2>2. Placed(w) /\ Leased(w) /\ Traced(w) /\ job[w] \in Jobs
    BY <1>2 DEF IInv, TypeInv, WorkerInv
  <2>3. pc'[w] \in {"abort", "complete", "publish"}
    BY <1>1 DEF IInv, TypeInv, GoTo
  <2>4. Leased(w)' /\ Traced(w)'
    BY <1>2, <2>2, <2>3 DEF Leased, Traced, Held, Fenced
  <2>5. Placed(w)'
    <3>1. CASE GoTo(w, "abort")
      BY <3>1 DEF Placed, GoTo, IInv, TypeInv
    <3>2. CASE /\ unpublished' = [unpublished EXCEPT ![w] = @ \ rs]
               /\ GoTo(w, IF unpublished[w] = rs THEN "complete" ELSE "publish")
      <4>1. /\ pc'[w] = IF unpublished[w] = rs THEN "complete" ELSE "publish"
            /\ unpublished'[w] = unpublished[w] \ rs
        BY <3>2 DEF GoTo, IInv, TypeInv
      <4>2. published[job[w]] \subseteq published'[job[w]]
        BY <1>3, <2>2
      <4> QED BY <1>2, <1>3, <2>2, <4>1, <4>2 DEF Placed
    <3> QED BY <1>1, <3>1, <3>2
  <2>6. \A v \in Workers : Held(v)' => Held(v)
    BY <1>2, <1>4 DEF IInv, TypeInv, GoTo, Held
  <2> QED BY <1>2, <2>1, <2>4, <2>5, <2>6 DEF IInv, WorkerInv
<1>8. Keeps
  BY <1>2 DEF Keeps
<1> QED BY <1>3, <1>5, <1>6, <1>7, <1>8 DEF IInv

-----------------------------------------------------------------------------

LEMMA NextKeeps == ASSUME IInv, Next PROVE IInv' /\ Keeps
<1>1. ASSUME NEW w \in Workers, LoseLease(w) \/ Crash(w) PROVE IInv' /\ Keeps
  BY <1>1, LeaveKeeps DEF LoseLease, Crash, dataVars, requestVars
<1> QED BY <1>1, EnvironmentKeeps, ClaimKeeps, CallKeeps, PublishKeeps, PrepareKeeps,
           SavePreparedKeeps, SaveStepKeeps, HandBackKeeps, BeginSynthesisKeeps,
           ConfirmKeeps,
           CompleteKeeps, CallFailsKeeps DEF Next

LEMMA StutterKeeps == ASSUME IInv, UNCHANGED vars PROVE IInv'
<1>1. UNCHANGED <<reportOf, arrived, report, rowVars, pc, job, rev, mem, kept, unpublished, historyVars>>
  BY DEF vars, dataVars, requestVars, workerVars, copyVars
<1>2. TypeInv' /\ SnapshotInv' /\ ReportInv'
  BY <1>1 DEF IInv, TypeInv, SnapshotInv, ReportInv, ReportsAreWhole, ReportsOf,
    rowVars,
              historyVars, Held
<1>3. GoodInv'
  BY <1>1, SameGood DEF IInv, GoodInv, rowVars
<1>4. WorkerInv'
  BY <1>1 DEF IInv, WorkerInv, Placed, Leased, Traced, Held, Fenced, rowVars,
    historyVars
<1> QED BY <1>2, <1>3, <1>4 DEF IInv

(* The three copies of a checkpoint agree as far as the lease goes, and a    *)
(* worker without lease still has the snapshot of its job (processJob).      *)
THEOREM Invariance == Spec => []IInv
<1>1. Init => IInv
  BY InitHolds
<1>2. IInv /\ [Next]_vars => IInv'
  BY NextKeeps, StutterKeeps
<1> QED BY <1>1, <1>2, PTL DEF Spec

(* The synthesis gets the partial insights of every batch exactly once       *)
(* (runInsightsBatch), whichever calls are repeated.                         *)
THEOREM NothingTwice == Spec => []PartialsOnce
<1>1. IInv => PartialsOnce
  BY DEF IInv, GoodInv, Good, PartialsOnce, Called
<1> QED BY <1>1, Invariance, PTL

(* Reports are published whole, also by a worker that lost its lease, and a  *)
(* completed job has published all of them (upsertFeedbackInsightsReports).  *)
THEOREM WholeReports == Spec => []ReportsAreWhole
<1>1. IInv => ReportsAreWhole
  BY DEF IInv, ReportInv
<1> QED BY <1>1, Invariance, PTL

(* While a job can go on, nothing it has paid for is lost: not by a retry,   *)
(* a lost acknowledgement or a second worker (saveClaimedIaJob).             *)
THEOREM NothingLost == Spec => GeneratedIsKept
<1>1. IInv /\ [Next]_vars => [Keeps]_vars
  BY NextKeeps
<1> QED BY <1>1, Invariance, PTL DEF Spec, GeneratedIsKept, Keeps

-----------------------------------------------------------------------------
(* CountedBatchesAreAnalyzed needs more than IInv: the counters of a row and  *)
(* of every worker follow the checkpoint beside them.                         *)

(* What a checkpoint says of the data: before the first confirmed preparation *)
(* it has no batch; while analysing, the batches already taken off "todo" have *)
(* a stored analysis; a report is never both waiting and written.             *)
Tidy(c) ==
  /\ c.phase \in {"none", "analyzing"} \cup Called
  /\ c.phase = "none" => c.batches = {}
  /\ c.phase \notin Called => c.synthesized = {}
  /\ c.targets \cap c.synthesized = {}
  /\ c.phase = "analyzing" => c.batches \subseteq arrived /\ c.batches \ c.todo \subseteq Analyzed

(* The counters of the job row are those of the checkpoint in the same row,   *)
(* until the job has ended and its checkpoint is cleared.                     *)
RowTally(j) ==
  /\ status[j] \notin Ended => done[j] = StepsIn(ck[j]) /\ total[j] = Size(ck[j])
  /\ done[j] <= total[j] /\ (status[j] = "completed" => done[j] = total[j])

(* A worker that carries on counts the steps of its own copy; the copy it is  *)
(* about to store is of the same phase and batches as the stored one, as long *)
(* as its lease holds, and it completes only with nothing left to do.         *)
WorkerTally(w) ==
  /\ pc[w] \notin {"idle", "prepare", "retry", "abort"} => count[w] = StepsIn(mem[w])
  /\ pc[w] = "savePrepared" => size[w] = Size(mem[w])
  /\ pc[w] = "saveStep" /\ Fenced(w) =>
       mem[w].phase = ck[job[w]].phase /\ mem[w].batches = ck[job[w]].batches
  /\ pc[w] = "complete" => mem[w].todo = {}

(* The counters are functions on their sets: the type invariant leaves their  *)
(* values open.                                                              *)
TallyShape ==
  /\ count = [w \in Workers |-> count[w]] /\ size = [w \in Workers |-> size[w]]
  /\ done = [j \in Jobs |-> done[j]] /\ total = [j \in Jobs |-> total[j]]
  /\ analyzedAt = [f \in Feedbacks |-> analyzedAt[f]]

TallyInv ==
  /\ TallyShape
  /\ \A j \in Jobs : Tidy(ck[j]) /\ RowTally(j)
  /\ \A w \in Workers : Tidy(mem[w]) /\ Tidy(kept[w]) /\ WorkerTally(w)

(* What every step does to the data: feedback is never taken back, an         *)
(* analysis once stored stays.                                               *)
Grows == UNCHANGED reportOf /\ arrived \subseteq arrived' /\ Analyzed \subseteq Analyzed'

(* What a step of w leaves alone: the other workers, and the rows of those     *)
(* whose lease still holds after it.                                          *)
Apart(w) ==
  \A v \in Workers \ {w} :
    /\ pc'[v] = pc[v] /\ job'[v] = job[v] /\ mem'[v] = mem[v] /\ kept'[v] = kept[v]
    /\ count'[v] = count[v] /\ size'[v] = size[v]
    /\ Held(v) /\ Fenced(v)' => Fenced(v) /\ ck'[job[v]] = ck[job[v]]

LEMMA ReportsAreFinite ==
  ASSUME TypeInv, NEW fs, fs \subseteq Feedbacks
  PROVE  IsFiniteSet(ReportsOf(fs)) /\ Cardinality(ReportsOf(fs)) \in Nat
<1>1. reportOf \in Surjection(Feedbacks, ReportsOf(Feedbacks))
  BY DEF TypeInv, Surjection, ReportsOf
<1>2. IsFiniteSet(ReportsOf(Feedbacks))
  BY <1>1, FS_Surjection, FeedbacksAssumption
<1>3. ReportsOf(fs) \subseteq ReportsOf(Feedbacks)
  BY DEF ReportsOf
<1> QED BY <1>2, <1>3, FS_Subset, FS_CardinalityType

LEMMA Fits ==
  ASSUME TypeInv, NEW c, Good(c), Tidy(c)
  PROVE  /\ StepsIn(c) \in Nat /\ Size(c) \in Nat /\ StepsIn(c) <= Size(c)
         /\ c.todo = {} /\ (c.phase \in Called => c.phase = "synthesizing" /\ c.targets = {})
            => StepsIn(c) = Size(c)
         /\ IsFiniteSet(c.batches \ c.todo) /\ IsFiniteSet(c.synthesized)
         /\ Cardinality(c.batches \ c.todo) \in Nat /\ Cardinality(c.synthesized) \in Nat
<1>1. c.batches \subseteq Feedbacks /\ c.todo \subseteq c.batches
  BY DEF Good
<1>2. /\ IsFiniteSet(c.batches) /\ IsFiniteSet(c.batches \ c.todo)
      /\ Cardinality(c.batches) \in Nat /\ Cardinality(c.batches \ c.todo) \in Nat
      /\ Cardinality(c.batches \ c.todo) <= Cardinality(c.batches)
  BY <1>1, FeedbacksAssumption, FS_Subset, FS_CardinalityType
<1>3. /\ IsFiniteSet(ReportsOf(c.batches)) /\ Cardinality(ReportsOf(c.batches)) \in Nat
  BY <1>1, ReportsAreFinite
<1>4. c.phase = "synthesizing" \/ c.synthesized = {}
  BY DEF Good, Tidy, Called
<1>5. c.synthesized \subseteq ReportsOf(c.batches)
  BY <1>4 DEF Good
<1>6. /\ IsFiniteSet(c.synthesized) /\ Cardinality(c.synthesized) \in Nat
      /\ Cardinality(c.synthesized) <= Cardinality(ReportsOf(c.batches))
  BY <1>3, <1>5, FS_Subset, FS_CardinalityType
<1>7. c.phase = "analyzing" => Cardinality(c.synthesized) = 0
  BY FS_EmptySet DEF Tidy, Called
<1>8. StepsIn(c) \in Nat /\ Size(c) \in Nat /\ StepsIn(c) <= Size(c)
  BY <1>2, <1>3, <1>6, <1>7 DEF StepsIn, Size
<1>9. ASSUME c.todo = {},
  c.phase \in Called => c.phase = "synthesizing" /\ c.targets = {}
      PROVE  StepsIn(c) = Size(c)
  <2>1. c.batches \ c.todo = c.batches BY <1>9
  <2>2. CASE c.phase = "analyzing"
    BY <1>2, <1>7, <2>1, <2>2 DEF StepsIn, Size
  <2>3. CASE c.phase = "none"
    <3>1. c.batches = {} /\ c.synthesized = {} BY <2>3 DEF Tidy, Called
    <3>2. ReportsOf({}) = {} BY DEF ReportsOf
    <3> QED BY <2>1, <2>3, <3>1, <3>2, FS_EmptySet DEF StepsIn, Size
  <2>4. CASE c.phase \in Called
    <3>1. c.synthesized = ReportsOf(c.batches) BY <1>9, <2>4 DEF Good
    <3> QED BY <1>9, <2>1, <2>4, <3>1 DEF StepsIn, Size
  <2> QED BY <2>2, <2>3, <2>4 DEF Tidy
<1> QED BY <1>2, <1>6, <1>8, <1>9

LEMMA SameTally ==
  ASSUME Grows, NEW c
  PROVE  /\ Tidy(c) => Tidy(c)'
         /\ StepsIn(c)' = StepsIn(c) /\ Size(c)' = Size(c)
BY DEF Grows, Tidy, StepsIn, Size, ReportsOf

LEMMA OthersTally ==
  ASSUME IInv, TallyInv, NEW w \in Workers, Apart(w), Grows, NEW v \in Workers, v # w
  PROVE  Tidy(mem[v])' /\ Tidy(kept[v])' /\ WorkerTally(v)'
<1>1. Tidy(mem[v]) /\ Tidy(kept[v]) /\ WorkerTally(v) BY DEF TallyInv
<1>2. Tidy(mem[v])' /\ Tidy(kept[v])'
  <2>1. mem'[v] = mem[v] /\ kept'[v] = kept[v] BY DEF Apart
  <2> QED BY <1>1, <2>1, SameTally DEF Tidy, Grows
<1>3. StepsIn(mem[v])' = StepsIn(mem[v]) /\ Size(mem[v])' = Size(mem[v])
  <2>1. mem'[v] = mem[v] BY DEF Apart
  <2> QED BY <2>1 DEF StepsIn, Size, ReportsOf, Grows
<1>4. WorkerTally(v)'
  BY <1>1, <1>3 DEF Apart, WorkerTally, Held
<1> QED BY <1>2, <1>4

LEMMA SaveTally ==
  ASSUME IInv, TallyInv, Grows, NEW w \in Workers, Held(w),
         NEW st, NEW c, NEW d, NEW t, NEW n, Save(w, st, c, d, t, n), Tidy(c),
         st \notin Ended => d = StepsIn(c) /\ t = Size(c),
         d <= t, st = "completed" => d = t
  PROVE  \A j \in Jobs : Tidy(ck[j])' /\ RowTally(j)'
<1>1. job[w] \in Jobs
  BY DEF IInv, TypeInv
<1>2. \A j \in Jobs : IF j = job[w] THEN status'[j] = st /\ ck'[j] = c /\ done'[j] = d /\ total'[j] = t
         ELSE status'[j] = status[j] /\ ck'[j] = ck[j] /\ done'[j] = done[j] /\ total'[j] = total[j]
  BY <1>1 DEF IInv, TypeInv, TallyInv, TallyShape, Save
<1>3. SUFFICES ASSUME NEW j \in Jobs PROVE Tidy(ck[j])' /\ RowTally(j)'
  OBVIOUS
<1>4. Tidy(ck[j]) /\ RowTally(j) BY DEF TallyInv
<1>5. Tidy(ck'[j]) BY <1>2, <1>4
<1>6. Tidy(ck[j])' BY <1>5, SameTally DEF Tidy, Grows
<1>7. StepsIn(ck[j])' = StepsIn(ck'[j]) /\ Size(ck[j])' = Size(ck'[j])
  BY DEF StepsIn, Size, ReportsOf, Grows
<1>8. CASE j = job[w] BY <1>2, <1>6, <1>7, <1>8 DEF RowTally
<1>9. CASE j # job[w] BY <1>2, <1>4, <1>6, <1>7, <1>9 DEF RowTally
<1> QED BY <1>8, <1>9

LEMMA AnalyzedGrow ==
  ASSUME IInv, TallyInv, [Next]_vars
  PROVE  Grows
<1>1. Now \in Nat
  <2>1. Analyzed \subseteq Feedbacks BY DEF Analyzed, IInv, TypeInv
  <2> QED BY <2>1, FeedbacksAssumption, FS_Subset, FS_CardinalityType DEF Now
<1>2. UNCHANGED reportOf /\ arrived \subseteq arrived'
  BY DEF Next, vars, Arrive, AnalyzedElsewhere, Request, Claim, AnalyzeBatch,
    GenerateBatch,
     Synthesize, Publish, Prepare, SavePrepared, SaveStep, Requeue, BeginSynthesis,
     Confirm,
     Complete, SaveFailure, LoseLease, CallFails, BudgetExhausted, PublishFails,
     Crash,
     dataVars, requestVars
<1>3. \/ analyzedAt' = analyzedAt
      \/ \E f \in Feedbacks : analyzedAt' = [analyzedAt EXCEPT ![f] = Now + 1]
  BY DEF Next, vars, Arrive, AnalyzedElsewhere, Request, Claim, AnalyzeBatch,
    GenerateBatch,
     Synthesize, Publish, Prepare, SavePrepared, SaveStep, Requeue, BeginSynthesis,
     Confirm,
     Complete, SaveFailure, LoseLease, CallFails, BudgetExhausted, PublishFails,
     Crash,
     dataVars, requestVars
<1>4. \A f \in Feedbacks : analyzedAt[f] # Never => analyzedAt'[f] # Never
  BY <1>1, <1>3 DEF TallyInv, TallyShape, Never
<1>5. arrived \subseteq Feedbacks BY DEF IInv, TypeInv
<1> QED BY <1>2, <1>4, <1>5 DEF Grows, Analyzed

(* The disjuncts of Next that are steps of worker w.                          *)
WorkerStep(w) ==
  \/ \E j \in Jobs : Claim(w, j)
  \/ \E f \in Feedbacks : AnalyzeBatch(w, f) \/ GenerateBatch(w, f)
  \/ \E r \in Reports : Synthesize(w, r) \/ Publish(w, r)
  \/ Prepare(w) \/ SavePrepared(w) \/ SaveStep(w) \/ Requeue(w) \/ BeginSynthesis(w)
  \/ Confirm(w) \/ Complete(w) \/ SaveFailure(w) \/ LoseLease(w)
  \/ CallFails(w) \/ BudgetExhausted(w) \/ PublishFails(w) \/ Crash(w)

LEMMA ShapeStays ==
  ASSUME IInv, TallyShape, NEW w \in Workers, WorkerStep(w)
  PROVE  TallyShape'
BY DEF TallyShape, WorkerStep, Leave, Save, Claim, AnalyzeBatch, GenerateBatch,
     Synthesize, Publish, Prepare, SavePrepared, SaveStep, Requeue, BeginSynthesis,
     Confirm,
     Complete, SaveFailure, LoseLease, CallFails, BudgetExhausted, PublishFails,
     Crash,
     dataVars, requestVars, rowVars, copyVars

LEMMA SaveApart ==
  ASSUME IInv, NEW w \in Workers, Held(w), NEW v \in Workers \ {w}, Held(v),
         NEW st, NEW c, NEW d, NEW t, NEW n, Save(w, st, c, d, t, n),
         job'[v] = job[v], rev'[v] = rev[v], Fenced(v)'
  PROVE  Fenced(v) /\ ck'[job[v]] = ck[job[v]]
<1>1. job[v] \in Jobs /\ job[w] \in Jobs BY DEF IInv, TypeInv
<1>2. job[v] # job[w]
  BY DEF IInv, WorkerInv, Save, Fenced
<1> QED BY <1>1, <1>2 DEF Save, Fenced, IInv, TypeInv

LEMMA StepApart ==
  ASSUME IInv, TallyShape, NEW w \in Workers, WorkerStep(w)
  PROVE  Apart(w)
<1> SUFFICES ASSUME NEW v \in Workers \ {w}
             PROVE /\ pc'[v] = pc[v] /\ job'[v] = job[v] /\ mem'[v] = mem[v] /\ kept'[v] = kept[v]
                   /\ count'[v] = count[v] /\ size'[v] = size[v]
                   /\ Held(v) /\ Fenced(v)' => Fenced(v) /\ ck'[job[v]] = ck[job[v]]
  BY DEF Apart
<1>1. /\ pc'[v] = pc[v] /\ job'[v] = job[v] /\ mem'[v] = mem[v] /\ kept'[v] = kept[v]
      /\ count'[v] = count[v] /\ size'[v] = size[v] /\ rev'[v] = rev[v]
  <2> USE DEF TallyShape, IInv, TypeInv, GoTo, copyVars
  <2>1. CASE Leave(w)
    BY <2>1 DEF Leave
  <2>2. CASE \E j \in Jobs : Claim(w, j)
    BY <2>2 DEF Claim
  <2>3. CASE \E f \in Feedbacks : AnalyzeBatch(w, f) \/ GenerateBatch(w, f)
    BY <2>3 DEF AnalyzeBatch, GenerateBatch
  <2>4. CASE \E r \in Reports : Synthesize(w, r) \/ Publish(w, r)
    BY <2>4 DEF Synthesize, Publish
  <2>5. CASE Prepare(w)
    BY <2>5 DEF Prepare
  <2>6. CASE SavePrepared(w) \/ SaveStep(w)
    BY <2>6 DEF SavePrepared, SaveStep, Confirmed
  <2>7. CASE Confirm(w) \/ CallFails(w) \/ PublishFails(w)
    BY <2>7 DEF Confirm, CallFails, PublishFails
  <2> QED
    BY <2>1, <2>2, <2>3, <2>4, <2>5, <2>6, <2>7
    DEF WorkerStep, Requeue, BeginSynthesis, Complete, SaveFailure, LoseLease,
      BudgetExhausted, Crash
<1>2. ASSUME Held(v), Fenced(v)' PROVE Fenced(v) /\ ck'[job[v]] = ck[job[v]]
  <2>1. CASE \E j \in Jobs : Claim(w, j)
    <3>1. PICK j \in Jobs : Claim(w, j) BY <2>1
    <3>2. rev[v] <= attempts[job[v]] /\ job[v] \in Jobs /\ rev[v] \in Nat /\ attempts[j] \in Nat
      BY <1>2 DEF IInv, TypeInv, WorkerInv, Leased
    <3>3. /\ attempts' = [attempts EXCEPT ![j] = @ + 1] /\ status' = [status EXCEPT ![j] = "running"]
          /\ UNCHANGED ck
      BY <3>1 DEF Claim
    <3>4. job[v] # j BY <1>1, <1>2, <3>2, <3>3 DEF Fenced, IInv, TypeInv
    <3> QED BY <1>1, <1>2, <3>2, <3>3, <3>4 DEF Fenced, IInv, TypeInv
  <2>2. CASE \/ SavePrepared(w) \/ SaveStep(w) \/ Requeue(w) \/ BeginSynthesis(w)
             \/ Complete(w) \/ SaveFailure(w) \/ BudgetExhausted(w)
    <3>1. Held(w)
      BY <2>2 DEF Held, NeedsCall, SavePrepared, SaveStep, Requeue, BeginSynthesis,
                  Complete, SaveFailure, BudgetExhausted
    <3>2. \E st, c, d, t, n : Save(w, st, c, d, t, n)
      BY <2>2 DEF SavePrepared, SaveStep, Requeue, BeginSynthesis, Complete,
        SaveFailure,
                  BudgetExhausted
    <3> QED BY <1>1, <1>2, <3>1, <3>2, SaveApart
  <2>3. CASE UNCHANGED rowVars
    BY <1>1, <1>2, <2>3 DEF rowVars, Fenced
  <2>4. UNCHANGED rowVars \/ (\E j \in Jobs : Claim(w, j))
        \/ SavePrepared(w) \/ SaveStep(w) \/ Requeue(w) \/ BeginSynthesis(w)
        \/ Complete(w) \/ SaveFailure(w) \/ BudgetExhausted(w)
    BY DEF WorkerStep, AnalyzeBatch, GenerateBatch, Synthesize, Publish, Prepare,
      Confirm,
           LoseLease, CallFails, PublishFails, Crash
  <2> QED BY <2>1, <2>2, <2>3, <2>4
<1> QED BY <1>1, <1>2

LEMMA RowsStay ==
  ASSUME TallyInv, Grows, UNCHANGED <<ck, done, total>>,
         \A j \in Jobs : status'[j] = status[j] \/ (status[j] \notin Ended /\ status'[j] \notin Ended)
  PROVE  \A j \in Jobs : Tidy(ck[j])' /\ RowTally(j)'
<1> SUFFICES ASSUME NEW j \in Jobs PROVE Tidy(ck[j])' /\ RowTally(j)'
  OBVIOUS
<1>1. Tidy(ck[j]) /\ RowTally(j) BY DEF TallyInv
<1>2. Tidy(ck[j])' BY <1>1, SameTally DEF Tidy, Grows
<1>3. StepsIn(ck[j])' = StepsIn(ck[j]) /\ Size(ck[j])' = Size(ck[j])
  BY DEF StepsIn, Size, ReportsOf, Grows
<1> QED BY <1>1, <1>2, <1>3 DEF RowTally, Ended

(* What a step of w must establish for w itself.                              *)
OwnTally(w) == Tidy(mem[w]) /\ Tidy(kept[w]) /\ WorkerTally(w)

LEMMA EmptyIsTidy == Tidy(NoCheckpoint)
BY DEF Tidy, NoCheckpoint, Checkpoint, Called

LEMMA LeaveTally ==
  ASSUME IInv, TallyInv, Grows, NEW w \in Workers, Leave(w)
  PROVE  OwnTally(w)'
<1>1. pc'[w] = "idle" /\ mem'[w] = NoCheckpoint /\ kept'[w] = NoCheckpoint
  BY DEF IInv, TypeInv, Leave, GoTo
<1>2. Tidy(NoCheckpoint)' BY EmptyIsTidy DEF Tidy, NoCheckpoint, Checkpoint
<1> QED BY <1>1, <1>2 DEF OwnTally, WorkerTally, Tidy

LEMMA EndOfSteps ==
  ASSUME NEW j, NEW c, Good(c), Tidy(c), Step(j, c) = "complete"
  PROVE  c.todo = {}
BY DEF Step, Good, Tidy, Called

LEMMA HandBackTally ==
  ASSUME IInv, TallyInv, Grows, NEW w \in Workers, Held(w), Fenced(w),
         NEW st, NEW n, NEW c, Save(w, st, c, done[job[w]], total[job[w]], n),
         st # "completed", Tidy(c), st \notin Ended => c = ck[job[w]]
  PROVE  \A j \in Jobs : Tidy(ck[j])' /\ RowTally(j)'
<1>1. job[w] \in Jobs /\ status[job[w]] \notin Ended
  BY DEF IInv, TypeInv, Fenced, Ended
<1>2. RowTally(job[w]) BY <1>1 DEF TallyInv
<1> QED BY <1>1, <1>2, SaveTally DEF RowTally

LEMMA CompleteTally ==
  ASSUME IInv, TallyInv, Grows, NEW w \in Workers, Complete(w)
  PROVE  \A j \in Jobs : Tidy(ck[j])' /\ RowTally(j)'
<1>1. /\ Held(w) /\ pc[w] = "complete" /\ Fenced(w)
      /\ Save(w, "completed", NoCheckpoint, done[job[w]], total[job[w]], failures[job[w]])
  BY DEF Complete, Held, Save
<1>2. /\ mem[w] = ck[job[w]] /\ job[w] \in Jobs /\ status[job[w]] \notin Ended
  BY <1>1 DEF IInv, TypeInv, WorkerInv, Leased, Fenced, Ended
<1>3. /\ mem[w].todo = {} /\ Good(mem[w]) /\ Tidy(mem[w])
      /\ mem[w].phase \in Called => mem[w].phase = "synthesizing" /\ mem[w].targets = {}
  BY <1>1 DEF TallyInv, WorkerTally, IInv, GoodInv, WorkerInv, Placed
<1>4. StepsIn(mem[w]) = Size(mem[w]) /\ Size(mem[w]) \in Nat
  BY <1>3, Fits DEF IInv
<1>5. done[job[w]] = total[job[w]] /\ total[job[w]] \in Nat
  BY <1>2, <1>4 DEF TallyInv, RowTally
<1> QED BY <1>1, <1>5, EmptyIsTidy, SaveTally DEF Ended

LEMMA BeginSynthesisTally ==
  ASSUME IInv, TallyInv, Grows, NEW w \in Workers, BeginSynthesis(w)
  PROVE  \A j \in Jobs : Tidy(ck[j])' /\ RowTally(j)'
<1> DEFINE c == [mem[w] EXCEPT !.phase = "synthesizing",
                   !.targets = ReportsOf({f \in mem[w].batches : mem[w].partial[f] > 0})]
<1>1. /\ Held(w) /\ pc[w] = "beginSynthesis" /\ Save(w, "queued", c, count[w], Size(c), failures[job[w]])
  BY DEF BeginSynthesis, Held
<1>2. /\ mem[w].phase = "generating" /\ mem[w].todo = {} /\ Good(mem[w]) /\ Tidy(mem[w])
      /\ mem[w].synthesized = {}
      /\ count[w] = StepsIn(mem[w])
  BY <1>1 DEF BeginSynthesis, IInv, GoodInv, WorkerInv, Placed, TallyInv,
    WorkerTally, Good
<1>3. /\ c.phase = "synthesizing" /\ c.batches = mem[w].batches /\ c.todo = mem[w].todo
      /\ c.synthesized = mem[w].synthesized
  BY <1>2 DEF Good
<1> HIDE DEF c
<1>4. Tidy(c) BY <1>2, <1>3 DEF Tidy, Called
<1>5. count[w] = StepsIn(c) BY <1>2, <1>3 DEF StepsIn
<1>6. Size(c) = Size(mem[w]) BY <1>2, <1>3 DEF Size
<1>7. count[w] <= Size(c) BY <1>2, <1>6, Fits DEF IInv
<1> QED BY <1>1, <1>4, <1>5, <1>7, SaveTally DEF Ended

LEMMA SavePreparedTally ==
  ASSUME IInv, TallyInv, Grows, NEW w \in Workers, SavePrepared(w)
  PROVE  (\A j \in Jobs : Tidy(ck[j])' /\ RowTally(j)') /\ OwnTally(w)'
<1>1. /\ Held(w) /\ pc[w] = "savePrepared" /\ job[w] \in Jobs
      /\ Save(w, "running", mem[w], count[w], size[w], failures[job[w]])
      /\ UNCHANGED <<job, mem, count>>
  BY DEF SavePrepared, Held, IInv, TypeInv
<1>2. count[w] = StepsIn(mem[w]) /\ size[w] = Size(mem[w]) /\ Tidy(mem[w]) /\ Tidy(kept[w]) /\ Good(mem[w])
  BY <1>1 DEF TallyInv, WorkerTally, IInv, GoodInv
<1>3. count[w] <= size[w] BY <1>2, Fits DEF IInv
<1>4. \A j \in Jobs : Tidy(ck[j])' /\ RowTally(j)'
  BY <1>1, <1>2, <1>3, SaveTally DEF Ended
<1>5. pc'[w] \in {Step(job[w], mem[w]), "abort"} /\ kept'[w] \in {mem[w], kept[w]}
  BY DEF SavePrepared, Confirmed, GoTo, IInv, TypeInv
<1>6. Tidy(mem[w])' /\ Tidy(kept[w])'
  BY <1>1, <1>2, <1>5 DEF Tidy, Grows
<1>7. StepsIn(mem[w])' = StepsIn(mem[w]) BY <1>1 DEF StepsIn
<1>8. pc'[w] \notin {"savePrepared", "saveStep"} BY <1>5, Places
<1>9. pc'[w] = "complete" => mem[w].todo = {} BY <1>2, <1>5, EndOfSteps
<1> QED BY <1>1, <1>2, <1>4, <1>6, <1>7, <1>8, <1>9 DEF OwnTally, WorkerTally

LEMMA SaveStepTally ==
  ASSUME IInv, TallyInv, Grows, NEW w \in Workers, SaveStep(w)
  PROVE  (\A j \in Jobs : Tidy(ck[j])' /\ RowTally(j)') /\ OwnTally(w)'
<1>1. /\ Held(w) /\ Fenced(w) /\ pc[w] = "saveStep" /\ job[w] \in Jobs /\ status[job[w]] \notin Ended
      /\ Save(w, "running", mem[w], count[w], total[job[w]], 0)
      /\ UNCHANGED <<job, mem, count>>
  BY DEF SaveStep, Held, IInv, TypeInv, Save, Fenced, Ended
<1>2. /\ count[w] = StepsIn(mem[w]) /\ Tidy(mem[w]) /\ Tidy(kept[w]) /\ Good(mem[w])
      /\ mem[w].phase = ck[job[w]].phase /\ mem[w].batches = ck[job[w]].batches
      /\ total[job[w]] = Size(ck[job[w]])
  BY <1>1 DEF TallyInv, WorkerTally, RowTally, IInv, GoodInv
<1>3. total[job[w]] = Size(mem[w]) BY <1>2 DEF Size
<1>4. count[w] <= total[job[w]] BY <1>2, <1>3, Fits DEF IInv
<1>5. \A j \in Jobs : Tidy(ck[j])' /\ RowTally(j)'
  BY <1>1, <1>2, <1>3, <1>4, SaveTally DEF Ended
<1>6. pc'[w] \in {AfterStep(job[w], mem[w]), "abort"} /\ kept'[w] \in {mem[w], kept[w]}
  BY DEF SaveStep, Confirmed, GoTo, IInv, TypeInv
<1>7. Tidy(mem[w])' /\ Tidy(kept[w])'
  BY <1>1, <1>2, <1>6 DEF Tidy, Grows
<1>8. StepsIn(mem[w])' = StepsIn(mem[w]) BY <1>1 DEF StepsIn
<1>9. pc'[w] \in {Step(job[w], mem[w]), "requeue", "abort"} BY <1>6 DEF AfterStep
<1>10. pc'[w] \notin {"savePrepared", "saveStep"} BY <1>9, Places
<1>11. pc'[w] = "complete" => mem[w].todo = {} BY <1>2, <1>9, EndOfSteps
<1> QED BY <1>1, <1>2, <1>5, <1>7, <1>8, <1>10, <1>11 DEF OwnTally, WorkerTally

LEMMA ClaimTally ==
  ASSUME IInv, TallyInv, Grows, NEW w \in Workers, NEW j \in Jobs, Claim(w, j)
  PROVE  (\A i \in Jobs : Tidy(ck[i])' /\ RowTally(i)') /\ OwnTally(w)'
<1>1. /\ UNCHANGED <<ck, done, total>> /\ status' = [status EXCEPT ![j] = "running"]
      /\ status[j] \in {"queued", "running"}
  BY DEF Claim, Active
<1>2. \A i \in Jobs : Tidy(ck[i])' /\ RowTally(i)'
  BY <1>1, RowsStay DEF Ended, IInv, TypeInv
<1>3. /\ pc'[w] = IF ck[j].phase = "none" THEN "prepare" ELSE Step(j, ck[j])
      /\ mem'[w] = ck[j] /\ kept'[w] = ck[j] /\ count'[w] = done[j]
  BY DEF Claim, GoTo, IInv, TypeInv, TallyInv, TallyShape
<1>4. Tidy(ck[j]) /\ Good(ck[j]) /\ done[j] = StepsIn(ck[j])
  BY <1>1 DEF TallyInv, RowTally, Ended, IInv, GoodInv
<1>5. Tidy(mem[w])' /\ Tidy(kept[w])'
  BY <1>3, <1>4 DEF Tidy, Grows
<1>6. count'[w] = StepsIn(mem[w])' BY <1>3, <1>4 DEF StepsIn
<1>7. pc'[w] \notin {"savePrepared", "saveStep"} BY <1>3, Places
<1>8. pc'[w] = "complete" => mem'[w].todo = {} BY <1>3, <1>4, EndOfSteps
<1> QED BY <1>2, <1>5, <1>6, <1>7, <1>8 DEF OwnTally, WorkerTally

LEMMA PrepareTally ==
  ASSUME IInv, TallyInv, Grows, NEW w \in Workers, Prepare(w)
  PROVE  OwnTally(w)'
<1>1. Tidy(mem[w]) /\ Tidy(kept[w]) /\ kept'[w] = kept[w] BY DEF TallyInv, Prepare
<1>2. Tidy(kept[w])' BY <1>1 DEF Tidy, Grows
<1>3. CASE TooFew(w)
  <2>1. pc'[w] = "abort" /\ mem'[w] = mem[w] BY <1>3 DEF Prepare, GoTo, IInv, TypeInv
  <2>2. Tidy(mem[w])' BY <1>1, <2>1 DEF Tidy, Grows
  <2> QED BY <1>2, <2>1, <2>2 DEF OwnTally, WorkerTally
<1>4. CASE ~TooFew(w)
  <2>1. /\ pc'[w] = "savePrepared" /\ mem'[w] = Prepared(w)
        /\ count'[w] = 0 /\ size'[w] = Size(Prepared(w))
    BY <1>4 DEF Prepare, GoTo, IInv, TypeInv, TallyInv, TallyShape
  <2>2. /\ Tidy(Prepared(w)) /\ Prepared(w).batches \ Prepared(w).todo = {}
        /\ Prepared(w).synthesized = {}
    <3>1. Prepared(w) \in {Checkpoint("analyzing", Pending, Now), NoCheckpoint, Checkpoint("generating", Analyzed, Now)}
      BY DEF Prepared
    <3>2. Pending \subseteq arrived BY DEF Pending
    <3> QED BY <3>1, <3>2 DEF Tidy, Checkpoint, NoCheckpoint, Called
  <2>3. Tidy(mem[w])' BY <2>1, <2>2 DEF Tidy, Grows
  <2>4. StepsIn(mem[w])' = 0 BY <2>1, <2>2, FS_EmptySet DEF StepsIn
  <2>5. Size(mem[w])' = size'[w] BY <2>1 DEF Size, ReportsOf, Grows
  <2> QED BY <1>2, <2>1, <2>3, <2>4, <2>5 DEF OwnTally, WorkerTally
<1> QED BY <1>3, <1>4

LEMMA CallTally ==
  ASSUME IInv, TallyInv, Grows, NEW w \in Workers,
         \/ \E f \in Feedbacks : AnalyzeBatch(w, f) \/ GenerateBatch(w, f)
         \/ \E r \in Reports : Synthesize(w, r)
  PROVE  OwnTally(w)'
<1> DEFINE c == mem[w]
           d == mem'[w]
<1>1. /\ pc[w] \in {"batch", "synthesize"} /\ pc'[w] = "saveStep" /\ kept'[w] = kept[w]
      /\ count'[w] = count[w] + 1 /\ UNCHANGED <<rowVars, job, rev>>
  BY DEF AnalyzeBatch, GenerateBatch, Synthesize, GoTo, IInv, TypeInv, TallyInv,
    TallyShape
<1>2. Tidy(c) /\ Tidy(kept[w]) /\ Good(c) /\ count[w] = StepsIn(c)
  BY <1>1 DEF TallyInv, WorkerTally, IInv, GoodInv
<1>3. /\ d.phase = c.phase /\ d.batches = c.batches
      /\ \/ \E f \in c.todo : /\ d.todo = c.todo \ {f} /\ d.targets = c.targets
                              /\ d.synthesized = c.synthesized
                              /\ c.phase = "analyzing" => analyzedAt'[f] # Never
         \/ \E r \in c.targets : /\ d.todo = c.todo /\ d.targets = c.targets \ {r}
                                 /\ d.synthesized = c.synthesized \cup {r}
                                 /\ c.phase = "synthesizing"
  <2>0. DOMAIN mem = Workers BY DEF IInv, TypeInv
  <2>1. CASE \E f \in Feedbacks : AnalyzeBatch(w, f)
    <3>1. PICK f \in Feedbacks : AnalyzeBatch(w, f) BY <2>1
    <3>2. d = [c EXCEPT !.todo = @ \ {f}] /\ f \in c.todo
      BY <2>0, <3>1 DEF AnalyzeBatch, NextBatch
    <3>3. Now + 1 # Never
      <4>1. Analyzed \subseteq Feedbacks BY DEF Analyzed, IInv, TypeInv
      <4>2. Now \in Nat
        BY <4>1, FeedbacksAssumption, FS_Subset, FS_CardinalityType DEF Now
      <4> QED BY <4>2 DEF Never
    <3>4. analyzedAt'[f] # Never
      BY <3>1, <3>3 DEF AnalyzeBatch, TallyInv, TallyShape
    <3> HIDE DEF d
    <3> QED BY <1>2, <3>2, <3>4 DEF Good
  <2>2. CASE \E f \in Feedbacks : GenerateBatch(w, f)
    <3>1. PICK f \in Feedbacks : GenerateBatch(w, f) BY <2>2
    <3>2. d = [c EXCEPT !.todo = @ \ {f}, !.partial[f] = @ + 1] /\ f \in c.todo /\ c.phase = "generating"
      BY <2>0, <3>1 DEF GenerateBatch, NextBatch
    <3> HIDE DEF d
    <3> QED BY <1>2, <3>2 DEF Good
  <2>3. CASE \E r \in Reports : Synthesize(w, r)
    <3>1. PICK r \in Reports : Synthesize(w, r) BY <2>3
    <3>2. d = [c EXCEPT !.targets = @ \ {r}, !.synthesized = @ \cup {r}] /\ r \in c.targets
      BY <2>0, <3>1 DEF Synthesize
    <3>3. c.phase = "synthesizing" BY <3>1 DEF Synthesize, IInv, WorkerInv, Placed
    <3> HIDE DEF d
    <3> QED BY <1>2, <3>2, <3>3 DEF Good
  <2> QED BY <2>1, <2>2, <2>3
<1> HIDE DEF d
<1>4. c.todo \subseteq c.batches BY <1>2 DEF Good
<1>5. /\ d.phase = "analyzing" => d.batches \subseteq arrived' /\ d.batches \ d.todo \subseteq Analyzed'
  BY <1>2, <1>3, <1>4 DEF Tidy, Grows, Analyzed, Called
<1>6. Tidy(mem[w])'
  <2>1. /\ d.phase \in {"none", "analyzing"} \cup Called
        /\ d.phase = "none" => d.batches = {}
        /\ d.phase \notin Called => d.synthesized = {}
        /\ d.targets \cap d.synthesized = {}
    BY <1>2, <1>3 DEF Tidy, Called
  <2> QED BY <1>5, <2>1 DEF Tidy, d
<1>7. StepsIn(d) = StepsIn(c) + 1
  <2>1. /\ IsFiniteSet(c.batches \ c.todo) /\ IsFiniteSet(c.synthesized)
        /\ Cardinality(c.batches \ c.todo) \in Nat /\ Cardinality(c.synthesized) \in Nat
    BY <1>2, Fits DEF IInv
  <2>2. ASSUME NEW f \in c.todo, d.todo = c.todo \ {f}, d.synthesized = c.synthesized
        PROVE  StepsIn(d) = StepsIn(c) + 1
    <3>1. d.batches \ d.todo = (c.batches \ c.todo) \cup {f} /\ f \notin c.batches \ c.todo
      BY <1>3, <1>4, <2>2
    <3>2. Cardinality(d.batches \ d.todo) = Cardinality(c.batches \ c.todo) + 1
      BY <2>1, <3>1, FS_AddElement
    <3> QED BY <2>1, <2>2, <3>2 DEF StepsIn
  <2>3. ASSUME NEW r \in c.targets, d.todo = c.todo,
    d.synthesized = c.synthesized \cup {r}
        PROVE  StepsIn(d) = StepsIn(c) + 1
    <3>1. r \notin c.synthesized BY <1>2 DEF Tidy
    <3>2. Cardinality(d.synthesized) = Cardinality(c.synthesized) + 1
      BY <2>1, <2>3, <3>1, FS_AddElement
    <3> QED BY <1>3, <2>1, <2>3, <3>2 DEF StepsIn
  <2> QED BY <1>3, <2>2, <2>3
<1>8. count'[w] = StepsIn(mem[w])' BY <1>1, <1>2, <1>7 DEF StepsIn, d
<1>9. Fenced(w)' => mem'[w].phase = ck'[job'[w]].phase /\ mem'[w].batches = ck'[job'[w]].batches
  BY <1>1, <1>3 DEF d, rowVars, Fenced, IInv, WorkerInv, Leased, Held
<1>10. Tidy(kept[w])' BY <1>1, <1>2 DEF Tidy, Grows
<1> QED BY <1>1, <1>6, <1>8, <1>9, <1>10 DEF OwnTally, WorkerTally

LEMMA MoveTally ==
  ASSUME IInv, TallyInv, Grows, NEW w \in Workers,
         CallFails(w) \/ Confirm(w) \/ PublishFails(w) \/ \E r \in Reports : Publish(w, r)
  PROVE  OwnTally(w)'
<1>1. /\ UNCHANGED <<mem, kept, count>> /\ pc'[w] \in {"retry", "abort", "publish", "complete"}
      /\ pc'[w] \in {"publish", "complete"} => pc[w] \in {"confirm", "publish"}
  BY DEF CallFails, Confirm, PublishFails, Publish, copyVars, GoTo, IInv, TypeInv
<1>2. Tidy(mem[w]) /\ Tidy(kept[w]) /\ WorkerTally(w) BY DEF TallyInv
<1>3. Tidy(mem[w])' /\ Tidy(kept[w])' BY <1>1, <1>2 DEF Tidy, Grows
<1>4. StepsIn(mem[w])' = StepsIn(mem[w]) BY <1>1 DEF StepsIn
<1>5. pc'[w] = "complete" => mem[w].todo = {}
  BY <1>1 DEF IInv, WorkerInv, Placed, GoodInv, Good
<1> QED BY <1>1, <1>2, <1>3, <1>4, <1>5 DEF OwnTally, WorkerTally

LEMMA WorkerTallyKept ==
  ASSUME IInv, TallyInv, NEW w \in Workers, WorkerStep(w)
  PROVE  TallyInv'
<1>1. Grows BY AnalyzedGrow DEF Next, WorkerStep
<1>2. Apart(w) /\ TallyShape' BY StepApart, ShapeStays DEF TallyInv
<1>3. ASSUME NEW v \in Workers, v # w PROVE OwnTally(v)'
  BY <1>1, <1>2, <1>3, OthersTally DEF OwnTally
<1>4. SUFFICES (\A j \in Jobs : Tidy(ck[j])' /\ RowTally(j)') /\ OwnTally(w)'
  BY <1>2, <1>3 DEF TallyInv, OwnTally
<1>5. CASE \E j \in Jobs : Claim(w, j) BY <1>1, <1>5, ClaimTally
<1>6. CASE SavePrepared(w) BY <1>1, <1>6, SavePreparedTally
<1>7. CASE SaveStep(w) BY <1>1, <1>7, SaveStepTally
<1>8. CASE Complete(w) BY <1>1, <1>8, CompleteTally, LeaveTally DEF Complete
<1>9. CASE BeginSynthesis(w)
  BY <1>1, <1>9, BeginSynthesisTally, LeaveTally DEF BeginSynthesis
<1>10. CASE Requeue(w) \/ BudgetExhausted(w)
  <2>1. /\ Held(w) /\ Fenced(w) /\ job[w] \in Jobs /\ Leave(w)
        /\ Save(w, "queued", ck[job[w]], done[job[w]], total[job[w]], failures[job[w]])
    BY <1>10 DEF Requeue, BudgetExhausted, NeedsCall, Held, Save, IInv, TypeInv
  <2>2. Tidy(ck[job[w]]) BY <2>1 DEF TallyInv
  <2> QED BY <1>1, <2>1, <2>2, HandBackTally, LeaveTally
<1>11. CASE SaveFailure(w)
  <2>1. PICK st \in {"queued", "failed"} :
          /\ Save(w, st, kept[w], done[job[w]], total[job[w]], fails[w] + 1)
          /\ st = "queued" => pc[w] = "retry"
    BY <1>11 DEF SaveFailure
  <2>2. Held(w) /\ Fenced(w) /\ Leave(w) BY <1>11, <2>1 DEF SaveFailure, Held, Save
  <2>3. st = "queued" => kept[w] = ck[job[w]]
    BY <2>1, <2>2 DEF IInv, WorkerInv, Leased
  <2>4. Tidy(kept[w]) BY DEF TallyInv
  <2> QED BY <1>1, <2>1, <2>2, <2>3, <2>4, HandBackTally, LeaveTally DEF Ended
<1>12. CASE LoseLease(w) \/ Crash(w)
  BY <1>1, <1>12, LeaveTally, RowsStay DEF LoseLease, Crash, rowVars
<1>13. CASE Prepare(w) BY <1>1, <1>13, PrepareTally, RowsStay DEF Prepare, rowVars
<1>14. CASE \/ \E f \in Feedbacks : AnalyzeBatch(w, f) \/ GenerateBatch(w, f)
            \/ \E r \in Reports : Synthesize(w, r)
  <2>1. UNCHANGED rowVars BY <1>14 DEF AnalyzeBatch, GenerateBatch, Synthesize
  <2> QED BY <1>1, <1>14, <2>1, CallTally, RowsStay DEF rowVars
<1>15. CASE CallFails(w) \/ Confirm(w) \/ PublishFails(w) \/ \E r \in Reports : Publish(w, r)
  <2>1. UNCHANGED rowVars BY <1>15 DEF CallFails, Confirm, PublishFails, Publish
  <2> QED BY <1>1, <1>15, <2>1, MoveTally, RowsStay DEF rowVars
<1> QED BY <1>5, <1>6, <1>7, <1>8, <1>9, <1>10, <1>11, <1>12, <1>13, <1>14,
  <1>15 DEF WorkerStep

LEMMA IdleTally ==
  ASSUME IInv, TallyInv,
         \/ \E f \in Feedbacks : Arrive(f) \/ AnalyzedElsewhere(f)
         \/ \E j \in Jobs : Request(j)
         \/ UNCHANGED vars
  PROVE  TallyInv'
<1>1. Grows BY AnalyzedGrow DEF Next
<1>2. /\ UNCHANGED <<attempts, ck, done, total, workerVars>>
      /\ \A j \in Jobs : status'[j] = status[j] \/ (status[j] = "none" /\ status'[j] = "queued")
  BY DEF Arrive, AnalyzedElsewhere, Request, requestVars, rowVars, vars, IInv, TypeInv
<1>3. \A j \in Jobs : Tidy(ck[j])' /\ RowTally(j)'
  BY <1>1, <1>2, RowsStay DEF Ended
<1>4. TallyShape'
  BY <1>2 DEF TallyInv, TallyShape, Arrive, AnalyzedElsewhere, Request, dataVars,
    vars, workerVars, copyVars
<1>5. ASSUME NEW w \in Workers PROVE Tidy(mem[w])' /\ Tidy(kept[w])' /\ WorkerTally(w)'
  <2>1. Tidy(mem[w]) /\ Tidy(kept[w]) /\ WorkerTally(w) BY DEF TallyInv
  <2>2. Tidy(mem[w])' /\ Tidy(kept[w])'
    BY <1>1, <1>2, <2>1 DEF Tidy, Grows, workerVars, copyVars
  <2>3. StepsIn(mem[w])' = StepsIn(mem[w]) /\ Size(mem[w])' = Size(mem[w])
    BY <1>1, <1>2 DEF StepsIn, Size, ReportsOf, Grows, workerVars, copyVars
  <2>4. Held(w) /\ Fenced(w)' => Fenced(w)
    BY <1>2 DEF Fenced, Held, IInv, TypeInv, workerVars, copyVars
  <2> QED BY <1>2, <2>1, <2>2, <2>3, <2>4 DEF WorkerTally, Held, workerVars, copyVars
<1> QED BY <1>3, <1>4, <1>5 DEF TallyInv

LEMMA InitTally == Init => TallyInv
<1> SUFFICES ASSUME Init PROVE TallyInv OBVIOUS
<1>1. TallyShape BY DEF Init, TallyShape
<1>2. StepsIn(NoCheckpoint) = 0 /\ Size(NoCheckpoint) = 0
  <2>1. ReportsOf({}) = {} BY DEF ReportsOf
  <2>2. {} \ {} = {} OBVIOUS
  <2> QED BY <2>1, <2>2, FS_EmptySet DEF StepsIn, Size, NoCheckpoint, Checkpoint
<1>3. ASSUME NEW j \in Jobs PROVE Tidy(ck[j]) /\ RowTally(j)
  BY <1>2, EmptyIsTidy DEF Init, RowTally
<1>4. ASSUME NEW w \in Workers PROVE Tidy(mem[w]) /\ Tidy(kept[w]) /\ WorkerTally(w)
  BY EmptyIsTidy DEF Init, WorkerTally
<1> QED BY <1>1, <1>3, <1>4 DEF TallyInv

(* The progress shown for a job is real (runAnalysisBatch, saveStep): done    *)
(* never exceeds total, a completed job shows all of it, and every batch an   *)
(* analysis has counted has its analysis stored, whichever worker counted it. *)
THEOREM Progress == Spec => []CountedBatchesAreAnalyzed
<1>1. Init => IInv /\ TallyInv BY InitHolds, InitTally
<1>2. ASSUME IInv /\ TallyInv, [Next]_vars PROVE (IInv /\ TallyInv)'
  <2>1. IInv' BY <1>2, NextKeeps, StutterKeeps
  <2>2. TallyInv' BY <1>2, WorkerTallyKept, IdleTally DEF Next, WorkerStep
  <2> QED BY <2>1, <2>2
<1>3. IInv /\ TallyInv => CountedBatchesAreAnalyzed
  BY DEF TallyInv, RowTally, Tidy, CountedBatchesAreAnalyzed, Active, Ended
<1> QED BY <1>1, <1>2, <1>3, PTL DEF Spec
=============================================================================
