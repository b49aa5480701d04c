-------------------------- MODULE QrFeedbackProofs --------------------------
(***************************************************************************)
(* QrFeedback for any number of requests, devices, points and e-mails and   *)
(* any clock.  Nothing is unique by an index, so that each property says    *)
(* that a pair of requests met; the invariant says it before the harm is    *)
(* done: whoever found nothing has met whoever has created it since.        *)
(*                                                                         *)
(* A step of a request changes what is its own and lets the tables grow by  *)
(* what it created (StepOf), and then it is in flight: OthersKeep derives   *)
(* from this alone what the other requests know.  What the request itself   *)
(* knows is shown action by action.                                         *)
(***************************************************************************)
EXTENDS QrFeedback, FiniteSetTheorems, TLAPS

\* Nothing of the request is stored but its customer.
Before == {"new", "device", "today", "customer", "create", "open", "write"}

\* What the position of a request says of the tables.
PhaseOf(r) ==
  /\ pc[r] \in Before => r \notin rows /\ r \notin feedbacks
  /\ pc[r] \in Before \ {"open", "write"} => r \notin customers
  /\ pc[r] \in {"new", "device"} => row[r] = Nobody
  /\ pc[r] = "today" => row[r] # Nobody
  /\ pc[r] \in {"link", "count"} =>
       r \in feedbacks /\ r \notin counted /\ row[r] # Nobody /\ rowOf[r] = row[r]

\* It found no row of its device, no customer of its e-mail.
FreshDevice(r) ==
  pc[r] \in {"customer", "create", "open", "write"} /\ row[r] = Nobody =>
    \A d \in RowsOf(r) : Together(d, r)

FreshCustomer(r) ==
  pc[r] = "create" /\ email[r] \in Emails => \A c \in CustomersOf(r) : Together(c, r)

\* It found no feedback of the day at the point.  The day it writes may be a later one.
NoneToday(r) ==
  row[r] # Nobody /\ pc[r] \in {"customer", "create", "open", "write"} =>
    \A f \in FeedbacksOf(row[r]) :
      point[f] = point[r] =>
        \/ Together(f, r)
        \/ Day(stamp[f]) < Day(IF pc[r] = "write" THEN stamp[r] ELSE hour)

\* The counter of the device as it read it, if nobody came in between.
Alone(F) == F \subseteq counted /\ \A f, g \in F : f # g => ~Together(f, g)
OthersOf(r) == FeedbacksOf(row[r]) \ {r}

PriorCount(r) ==
  row[r] # Nobody /\ r \in InFlight =>
    /\ prior[r] <= Cardinality(OthersOf(r))
    /\ Alone(OthersOf(r)) /\ (\A f \in OthersOf(r) : ~Together(f, r))
       => prior[r] = Cardinality(OthersOf(r))

\* It read its device without a customer.
ReadUnlinked(r) ==
  /\ row[r] # Nobody /\ r \in InFlight /\ pc[r] # "count"
  /\ ~linked[r] /\ link[row[r]] # Nobody
  => Together(linkedBy[row[r]], r)

OverlapInv == \A q, r \in InFlight : q # r => Together(q, r)
CountInv == \A d \in Requests : d \notin rows => count[d] = 0

IInv ==
  /\ TypeOK /\ IsFiniteSet(feedbacks)
  /\ OverlapInv /\ CountInv
  /\ TwoADayMeanOverlap /\ TwinsMeanOverlap /\ CountFollowsFeedbacks
  /\ \A r \in Requests :
       /\ PhaseOf(r) /\ FreshDevice(r) /\ FreshCustomer(r) /\ NoneToday(r)
       /\ PriorCount(r) /\ ReadUnlinked(r)

\* What a step of r may change.
StepOf(r) ==
  /\ hour' = hour
  /\ \A q \in Requests \ {r} :
       /\ pc'[q] = pc[q] /\ device'[q] = device[q] /\ point'[q] = point[q]
       /\ email'[q] = email[q] /\ row'[q] = row[q] /\ prior'[q] = prior[q]
       /\ linked'[q] = linked[q] /\ stamp'[q] = stamp[q] /\ rowOf'[q] = rowOf[q]
  /\ rows \subseteq rows' /\ rows' \subseteq rows \cup {r}
  /\ customers \subseteq customers' /\ customers' \subseteq customers \cup {r}
  /\ feedbacks \subseteq feedbacks' /\ feedbacks' \subseteq feedbacks \cup {r}
  /\ counted \subseteq counted' /\ counted' \subseteq counted \cup {r}
  /\ overlaps \subseteq overlaps'
  /\ r \in rows => device'[r] = device[r]
  /\ r \in customers => email'[r] = email[r]
  /\ r \in feedbacks =>
       point'[r] = point[r] /\ rowOf'[r] = rowOf[r] /\ stamp'[r] = stamp[r]
  /\ r \notin InFlight => /\ rows' = rows /\ customers' = customers /\ feedbacks' = feedbacks
                          /\ counted' = counted /\ linkedBy' = linkedBy /\ link' = link
  /\ \A d \in rows : linkedBy'[d] = r \/ (linkedBy'[d] = linkedBy[d] /\ link'[d] = link[d])

RequestStep(r) ==
  \/ Submit(r) \/ FindDevice(r) \/ FindToday(r) \/ FindCustomer(r)
  \/ CreateCustomer(r) \/ OpenWrite(r) \/ Persist(r) \/ PersistFails(r)
  \/ Link(r) \/ UpdateCounters(r) \/ Fails(r) \/ Block(r)

LEMMA DayGrows ==
  ASSUME NEW a \in Nat, NEW b \in Nat, a <= b
  PROVE  Day(a) <= Day(b) /\ Day(a) \in Int
BY ClockAssumption DEF Day

\* What is older than the start of today is of an earlier day.
LEMMA BeforeToday ==
  ASSUME NEW a \in Nat, NEW b \in Nat, a < StartOfToday(b)
  PROVE  Day(a) < Day(b)
BY ClockAssumption DEF Day, StartOfToday

LEMMA TypeStep ==
  ASSUME TypeOK, \A q \in Requests : PhaseOf(q), NEW r \in Requests, RequestStep(r)
  PROVE  TypeOK'
<1> USE AbsentAssumption, ClockAssumption, MishapsAssumption DEF TypeOK, tableVars,
      payloadVars, readVars, historyVars, GoTo, Mishap, Pcs, Ends, InFlight
<1>1. CASE Submit(r)
  <2>1. overlaps' = overlaps \cup {{r, q} : q \in InFlight} BY <1>1 DEF Submit
  <2>2. overlaps' \in SUBSET SUBSET Requests
    <3>1. \A q \in InFlight : {r, q} \in SUBSET Requests OBVIOUS
    <3>2. {{r, q} : q \in InFlight} \in SUBSET SUBSET Requests BY ONLY <3>1
    <3> QED BY <2>1, <3>2
  <2>3. device' \in [Requests -> Devices] /\ point' \in [Requests -> Points]
        /\ email' \in [Requests -> Emails \cup {NoEmail, Anonymous}]
    BY <1>1 DEF Submit
  <2>4. pc' \in [Requests -> Pcs] BY <1>1 DEF Submit
  <2> QED BY <1>1, <2>2, <2>3, <2>4 DEF Submit
<1>2. CASE FindDevice(r)
  <2> USE <1>2 DEF FindDevice, RowsOf
  <2>1. pc' \in [Requests -> Pcs] OBVIOUS
  <2>2. row' \in [Requests -> rows \cup {Nobody}] OBVIOUS
  <2>3. prior' \in [Requests -> Nat] OBVIOUS
  <2>4. linked' \in [Requests -> BOOLEAN]
    <3>1. linked' = linked \/ \E d \in rows : linked' = [linked EXCEPT ![r] = link[d] # Nobody]
      OBVIOUS
    <3>2. \A d \in rows : [linked EXCEPT ![r] = link[d] # Nobody] \in [Requests -> BOOLEAN]
      BY Zenon
    <3> QED BY ONLY <3>1, <3>2, TypeOK DEF TypeOK
  <2> QED BY <2>1, <2>2, <2>3, <2>4
<1>3. CASE FindToday(r) BY <1>3 DEF FindToday
<1>4. CASE FindCustomer(r) BY <1>4 DEF FindCustomer, CustomersOf
<1>5. CASE CreateCustomer(r) BY <1>5 DEF CreateCustomer
<1>6. CASE OpenWrite(r) BY <1>6 DEF OpenWrite
<1>7. CASE Persist(r)
  <2> USE <1>7 DEF Persist, NewRow, FirstCount
  <2>1. rows \subseteq rows' /\ rows' \subseteq Requests OBVIOUS
  <2>2. (IF row[r] = Nobody THEN r ELSE row[r]) \in rows' OBVIOUS
  <2>3. rowOf' \in [Requests -> rows' \cup {Nobody}] BY <2>1, <2>2
  <2>4. \A f \in feedbacks' : rowOf'[f] \in rows' BY <2>1, <2>2
  <2>5. row' \in [Requests -> rows' \cup {Nobody}] BY <2>1, <2>2
  <2>6. link' \in [Requests -> customers' \cup {Nobody}] OBVIOUS
  <2>7. linkedBy' \in [Requests -> Requests \cup {Nobody}] OBVIOUS
  <2>8. prior' \in [Requests -> Nat] /\ linked' \in [Requests -> BOOLEAN] OBVIOUS
  <2>9. pc' \in [Requests -> Pcs] /\ mishaps' \in 0 .. MaxMishaps OBVIOUS
  <2> QED BY <2>1, <2>3, <2>4, <2>5, <2>6, <2>7, <2>8, <2>9
<1>8. CASE PersistFails(r) BY <1>8 DEF PersistFails
<1>9. CASE Link(r) BY <1>9 DEF Link, MayLink
<1>10. CASE UpdateCounters(r) BY <1>10 DEF UpdateCounters, PhaseOf
<1>11. CASE Fails(r) BY <1>11 DEF Fails
<1>12. CASE Block(r) BY <1>12 DEF Block
<1> QED BY <1>1, <1>2, <1>3, <1>4, <1>5, <1>6, <1>7, <1>8, <1>9, <1>10, <1>11,
  <1>12 DEF RequestStep

LEMMA StepOfRequest ==
  ASSUME TypeOK, \A q \in Requests : PhaseOf(q), NEW r \in Requests, RequestStep(r)
  PROVE  StepOf(r)
<1> USE AbsentAssumption DEF TypeOK, tableVars, payloadVars, readVars, historyVars,
      GoTo, Mishap, Pcs, Ends, InFlight, StepOf, PhaseOf, Before
<1>1. CASE Submit(r) BY <1>1 DEF Submit
<1>2. CASE FindDevice(r) BY <1>2 DEF FindDevice, RowsOf
<1>3. CASE FindToday(r) BY <1>3 DEF FindToday
<1>4. CASE FindCustomer(r) BY <1>4 DEF FindCustomer, CustomersOf
<1>5. CASE CreateCustomer(r) BY <1>5 DEF CreateCustomer
<1>6. CASE OpenWrite(r) BY <1>6 DEF OpenWrite
<1>7. CASE Persist(r) BY <1>7 DEF Persist, NewRow, FirstCount
<1>8. CASE PersistFails(r) BY <1>8 DEF PersistFails
<1>9. CASE Link(r) BY <1>9 DEF Link, MayLink
<1>10. CASE UpdateCounters(r) BY <1>10 DEF UpdateCounters
<1>11. CASE Fails(r) BY <1>11 DEF Fails
<1>12. CASE Block(r) BY <1>12 DEF Block
<1> QED BY <1>1, <1>2, <1>3, <1>4, <1>5, <1>6, <1>7, <1>8, <1>9, <1>10, <1>11,
  <1>12 DEF RequestStep

\* Who starts meets all that are in flight, and only a start puts one in flight.
LEMMA OverlapKept ==
  ASSUME TypeOK, OverlapInv, NEW r \in Requests, RequestStep(r), StepOf(r)
  PROVE  OverlapInv'
<1> USE DEF TypeOK, OverlapInv, InFlight, Together, Pcs, Ends, GoTo
<1>1. CASE Submit(r)
  <2>1. overlaps' = overlaps \cup {{r, q} : q \in InFlight} BY <1>1 DEF Submit
  <2>2. \A q \in InFlight : {r, q} \in overlaps' /\ {q, r} \in overlaps' BY <2>1
  <2>3. InFlight' \subseteq InFlight \cup {r} BY <1>1 DEF StepOf
  <2> QED BY <2>2, <2>3 DEF StepOf
<1>2. CASE ~Submit(r)
  <2>1. pc[r] \notin {"new"} \cup Ends \/ pc'[r] = pc[r] 
   BY <1>2 DEF RequestStep, FindDevice, FindToday, FindCustomer, CreateCustomer,
     OpenWrite, Persist, PersistFails, Link, UpdateCounters, Fails, Block
  <2>2. InFlight' \subseteq InFlight BY <2>1 DEF StepOf
  <2> QED BY <2>2 DEF StepOf
<1> QED BY <1>1, <1>2

\* What a step of r leaves of the knowledge of another request.
LEMMA OthersKeep ==
  ASSUME TypeOK, OverlapInv, OverlapInv', IsFiniteSet(feedbacks),
    IsFiniteSet(feedbacks'),
         NEW r \in Requests, StepOf(r), NEW q \in Requests \ {r}
  PROVE /\ FreshDevice(q) => FreshDevice(q)'
        /\ FreshCustomer(q) => FreshCustomer(q)'
        /\ NoneToday(q) => NoneToday(q)'
        /\ PriorCount(q) => PriorCount(q)'
        /\ ReadUnlinked(q) => ReadUnlinked(q)'
<1>1. FreshDevice(q) => FreshDevice(q)'
  BY DEF FreshDevice, TypeOK, StepOf, OverlapInv, InFlight, Ends, RowsOf, Together
<1>2. FreshCustomer(q) => FreshCustomer(q)'
  BY DEF FreshCustomer, TypeOK, StepOf, OverlapInv, InFlight, Ends, CustomersOf,
    Together
<1>3. NoneToday(q) => NoneToday(q)'
  <2> SUFFICES ASSUME NoneToday(q), row'[q] # Nobody, pc'[q] \in {"customer",
    "create", "open", "write"},
        NEW f \in FeedbacksOf(row[q])', point'[f] = point'[q]
        PROVE Together(f, q)' \/ (Day(stamp[f]) < Day(IF pc[q] = "write" THEN stamp[q] ELSE hour))'
    BY DEF NoneToday, StepOf
  <2>1. CASE f \in feedbacks
    BY <2>1 DEF NoneToday, StepOf, FeedbacksOf, Together, TypeOK
  <2>2. CASE f \notin feedbacks
    BY <2>2 DEF StepOf, FeedbacksOf, Together, OverlapInv, InFlight, Ends
  <2> QED BY <2>1, <2>2
<1>4. PriorCount(q) => PriorCount(q)'
  <2> SUFFICES ASSUME PriorCount(q), row'[q] # Nobody, q \in InFlight'
      PROVE /\ prior'[q] <= Cardinality(OthersOf(q)')
            /\ Alone(OthersOf(q))' /\ (\A f \in OthersOf(q)' : ~Together(f, q)')
               => prior'[q] = Cardinality(OthersOf(q)')
    BY DEF PriorCount
  <2>1. row[q] # Nobody /\ q \in InFlight /\ prior'[q] = prior[q] /\ prior[q] \in Nat
    BY DEF StepOf, InFlight, TypeOK
  <2>2. OthersOf(q) \subseteq OthersOf(q)' /\ OthersOf(q)' \subseteq OthersOf(q) \cup {r}
    BY DEF OthersOf, FeedbacksOf, StepOf, TypeOK
  <2>3. IsFiniteSet(OthersOf(q)') /\ IsFiniteSet(OthersOf(q))
    BY FS_Subset DEF OthersOf, FeedbacksOf
  <2>4. Cardinality(OthersOf(q)) <= Cardinality(OthersOf(q)') 
        /\ Cardinality(OthersOf(q)) \in Nat /\ Cardinality(OthersOf(q)') \in Nat
    BY <2>2, <2>3, FS_Subset, FS_CardinalityType
  <2>5. r \in InFlight => Together(r, q)'
    BY DEF OverlapInv, StepOf, InFlight, Together
  <2>6. ASSUME Alone(OthersOf(q))', \A f \in OthersOf(q)' : ~Together(f, q)'
        PROVE prior'[q] = Cardinality(OthersOf(q)')
    <3>1. r \notin InFlight \/ r \notin OthersOf(q)' BY <2>5, <2>6
    <3>2. OthersOf(q)' = OthersOf(q) BY <3>1, <2>2 DEF StepOf, OthersOf, FeedbacksOf
    <3>3. Alone(OthersOf(q)) BY <2>6, <3>1, <3>2 DEF Alone, Together, StepOf
    <3>4. \A f \in OthersOf(q) : ~Together(f, q) BY <2>6, <3>2 DEF Together, StepOf
    <3> QED BY <3>2, <3>3, <3>4, <2>1 DEF PriorCount
  <2> QED BY <2>1, <2>4, <2>6 DEF PriorCount
<1>5. ReadUnlinked(q) => ReadUnlinked(q)'
  BY DEF ReadUnlinked, TypeOK, StepOf, OverlapInv, InFlight, Ends, Together
<1> QED BY <1>1, <1>2, <1>3, <1>4, <1>5

LEMMA OwnPhase ==
  ASSUME TypeOK, TypeOK', NEW r \in Requests, RequestStep(r), PhaseOf(r)
  PROVE  PhaseOf(r)'
<1> USE AbsentAssumption DEF TypeOK, tableVars, payloadVars, readVars, historyVars,
      GoTo, Mishap, Ends, InFlight, PhaseOf, Before
<1>1. CASE Submit(r) BY <1>1 DEF Submit
<1>2. CASE FindDevice(r) BY <1>2 DEF FindDevice, RowsOf
<1>3. CASE FindToday(r) BY <1>3 DEF FindToday
<1>4. CASE FindCustomer(r) BY <1>4 DEF FindCustomer, CustomersOf
<1>5. CASE CreateCustomer(r) BY <1>5 DEF CreateCustomer
<1>6. CASE OpenWrite(r) BY <1>6 DEF OpenWrite
<1>7. CASE Persist(r) BY <1>7 DEF Persist, NewRow, FirstCount
<1>8. CASE PersistFails(r) BY <1>8 DEF PersistFails
<1>9. CASE Link(r) BY <1>9 DEF Link, MayLink
<1>10. CASE UpdateCounters(r) BY <1>10 DEF UpdateCounters
<1>11. CASE Fails(r) BY <1>11 DEF Fails
<1>12. CASE Block(r) BY <1>12 DEF Block
<1> QED BY <1>1, <1>2, <1>3, <1>4, <1>5, <1>6, <1>7, <1>8, <1>9, <1>10, <1>11,
  <1>12 DEF RequestStep

LEMMA PhaseKept ==
  ASSUME TypeOK, TypeOK', NEW r \in Requests, RequestStep(r), StepOf(r),
    \A p \in Requests : PhaseOf(p)
  PROVE \A p \in Requests : PhaseOf(p)'
<1>1. PhaseOf(r)' BY OwnPhase
<1>2. ASSUME NEW q \in Requests \ {r} PROVE PhaseOf(q)' BY DEF PhaseOf, StepOf
<1> QED BY <1>1, <1>2

LEMMA OwnFresh ==
  ASSUME TypeOK, TypeOK', NEW r \in Requests, RequestStep(r), StepOf(r), PhaseOf(r),
    FreshDevice(r), FreshCustomer(r)
  PROVE FreshDevice(r)' /\ FreshCustomer(r)'
<1> USE AbsentAssumption DEF TypeOK, tableVars, payloadVars, readVars, historyVars,
      GoTo, Mishap, Ends, InFlight, PhaseOf, Before, FreshDevice, FreshCustomer,
      RowsOf, CustomersOf, Together
<1>1. CASE Submit(r) BY <1>1 DEF Submit
<1>2. CASE FindDevice(r) BY <1>2 DEF FindDevice
<1>3. CASE FindToday(r) BY <1>3 DEF FindToday
<1>4. CASE FindCustomer(r) BY <1>4 DEF FindCustomer
<1>5. CASE CreateCustomer(r) BY <1>5 DEF CreateCustomer
<1>6. CASE OpenWrite(r) BY <1>6 DEF OpenWrite
<1>7. CASE Persist(r) BY <1>7 DEF Persist, NewRow, FirstCount
<1>8. CASE PersistFails(r) BY <1>8 DEF PersistFails
<1>9. CASE Link(r) BY <1>9 DEF Link, MayLink
<1>10. CASE UpdateCounters(r) BY <1>10 DEF UpdateCounters
<1>11. CASE Fails(r) BY <1>11 DEF Fails
<1>12. CASE Block(r) BY <1>12 DEF Block
<1> QED BY <1>1, <1>2, <1>3, <1>4, <1>5, <1>6, <1>7, <1>8, <1>9, <1>10, <1>11,
  <1>12 DEF RequestStep

LEMMA OwnToday ==
  ASSUME TypeOK, TypeOK', NEW r \in Requests, RequestStep(r), PhaseOf(r), NoneToday(r)
  PROVE NoneToday(r)'
<1> USE AbsentAssumption, ClockAssumption DEF TypeOK, tableVars, payloadVars,
      readVars, historyVars, GoTo, Mishap, Ends, InFlight, PhaseOf, Before, NoneToday, FeedbacksOf, Together
<1>1. CASE Submit(r) BY <1>1 DEF Submit
<1>2. CASE FindDevice(r) BY <1>2 DEF FindDevice, RowsOf
<1>3. CASE FindToday(r)
  <2> SUFFICES ASSUME pc'[r] = "customer", NEW f \in FeedbacksOf(row[r])',
    point'[f] = point'[r]
               PROVE Day(stamp[f])' < Day(hour)'
    BY <1>3 DEF FindToday
  <2>1. /\ f \in feedbacks /\ rowOf[f] = row[r] /\ point[f] = point[r]
        /\ stamp'[f] = stamp[f] /\ hour' = hour
    BY <1>3 DEF FindToday
  <2>2. ~(stamp[f] >= StartOfToday(hour)) BY <1>3, <2>1 DEF FindToday
  <2>3. StartOfToday(hour) \in Int BY DEF StartOfToday, Day
  <2>4. stamp[f] < StartOfToday(hour) BY <2>1, <2>2, <2>3
  <2>5. Day(stamp[f]) < Day(hour) BY <2>1, <2>4, BeforeToday
  <2> QED BY <2>1, <2>5
<1>4. CASE FindCustomer(r) BY <1>4 DEF FindCustomer, CustomersOf
<1>5. CASE CreateCustomer(r) BY <1>5 DEF CreateCustomer
<1>6. CASE OpenWrite(r) BY <1>6 DEF OpenWrite
<1>7. CASE Persist(r) BY <1>7 DEF Persist, NewRow, FirstCount
<1>8. CASE PersistFails(r) BY <1>8 DEF PersistFails
<1>9. CASE Link(r) BY <1>9 DEF Link, MayLink
<1>10. CASE UpdateCounters(r) BY <1>10 DEF UpdateCounters
<1>11. CASE Fails(r) BY <1>11 DEF Fails
<1>12. CASE Block(r) BY <1>12 DEF Block
<1> QED BY <1>1, <1>2, <1>3, <1>4, <1>5, <1>6, <1>7, <1>8, <1>9, <1>10, <1>11,
  <1>12 DEF RequestStep

LEMMA ExceptAt ==
  ASSUME NEW S, NEW T, NEW f \in [S -> T], NEW x \in S, NEW v
  PROVE [f EXCEPT ![x] = v][x] = v
OBVIOUS

LEMMA OwnUnlinked ==
  ASSUME TypeOK, TypeOK', NEW r \in Requests, RequestStep(r), PhaseOf(r),
    ReadUnlinked(r)
  PROVE ReadUnlinked(r)'
<1> USE AbsentAssumption DEF TypeOK, tableVars, payloadVars, readVars, historyVars,
      GoTo, Mishap, Ends, InFlight, PhaseOf, Before, ReadUnlinked, Together
<1>1. CASE Submit(r) BY <1>1 DEF Submit
<1>2. CASE FindDevice(r) BY <1>2 DEF FindDevice, RowsOf
<1>3. CASE FindToday(r) BY <1>3 DEF FindToday
<1>4. CASE FindCustomer(r) BY <1>4 DEF FindCustomer, CustomersOf
<1>5. CASE CreateCustomer(r) BY <1>5 DEF CreateCustomer
<1>6. CASE OpenWrite(r) BY <1>6 DEF OpenWrite
<1>7. CASE Persist(r)
  <2>1. CASE row[r] = Nobody
    <3>1. linked' = [linked EXCEPT ![r] = linked[r] \/ row[r] = Nobody]
      BY <1>7, Zenon DEF Persist
    <3>2. linked'[r] = (linked[r] \/ row[r] = Nobody)
      BY ONLY <3>1, ExceptAt, TypeOK, r \in Requests, Zenon DEF TypeOK
    <3>3. linked'[r] BY ONLY <3>2, <2>1, Zenon
    <3> QED BY <3>3
  <2>2. CASE row[r] # Nobody
    <3>0. linked' = [linked EXCEPT ![r] = linked[r] \/ row[r] = Nobody]
      BY <1>7, Zenon DEF Persist
    <3>4. linked'[r] = (linked[r] \/ row[r] = Nobody)
      BY ONLY <3>0, ExceptAt, TypeOK, r \in Requests, Zenon DEF TypeOK
    <3>5. linked[r] => linked'[r] BY ONLY <3>4, Zenon
    <3>2. row'[r] = row[r] /\ pc[r] = "write" /\ overlaps' = overlaps
      BY <1>7, <2>2 DEF Persist
    <3>3. link'[row[r]] = link[row[r]] /\ linkedBy'[row[r]] = linkedBy[row[r]]
      BY <1>7, <2>2 DEF Persist, NewRow
    <3> QED BY <3>5, <3>2, <3>3
  <2> QED BY <2>1, <2>2
<1>8. CASE PersistFails(r) BY <1>8 DEF PersistFails
<1>9. CASE Link(r) BY <1>9 DEF Link, MayLink
<1>10. CASE UpdateCounters(r) BY <1>10 DEF UpdateCounters
<1>11. CASE Fails(r) BY <1>11 DEF Fails
<1>12. CASE Block(r) BY <1>12 DEF Block
<1> QED BY <1>1, <1>2, <1>3, <1>4, <1>5, <1>6, <1>7, <1>8, <1>9, <1>10, <1>11,
  <1>12 DEF RequestStep

LEMMA OwnPrior ==
  ASSUME TypeOK, TypeOK', IsFiniteSet(feedbacks), NEW r \in Requests, RequestStep(r),
    StepOf(r), PhaseOf(r), PriorCount(r), CountFollowsFeedbacks
  PROVE PriorCount(r)'
<1> USE AbsentAssumption DEF TypeOK, PhaseOf, Before
<1>1. CASE FindDevice(r)
  <2> SUFFICES ASSUME row'[r] # Nobody PROVE PriorCount(r)'
    BY DEF PriorCount
  <2>1. PICK d \in rows : row'[r] = d /\ prior'[r] = count[d]
    BY <1>1 DEF FindDevice, RowsOf, GoTo, readVars
  <2>2. OthersOf(r)' = FeedbacksOf(d)
    BY <1>1, <2>1 DEF FindDevice, OthersOf, FeedbacksOf, tableVars
  <2>4. overlaps' = overlaps /\ counted' = counted BY <1>1 DEF FindDevice, historyVars
  <2>3. Alone(OthersOf(r))' => Alone(FeedbacksOf(d))
    BY ONLY <2>2, <2>4 DEF Alone, Together
  <2>5. /\ count[d] <= Cardinality(FeedbacksOf(d))
        /\ Alone(FeedbacksOf(d)) => count[d] = Cardinality(FeedbacksOf(d))
    BY ONLY CountFollowsFeedbacks, d \in rows DEF CountFollowsFeedbacks, Alone
  <2> QED BY ONLY <2>1, <2>2, <2>3, <2>5 DEF PriorCount
<1>2. CASE Persist(r)
  <2>0. /\ prior'[r] = (IF row[r] = Nobody THEN 0 ELSE prior[r])
        /\ row'[r] = (IF row[r] = Nobody THEN r ELSE row[r]) /\ rowOf'[r] = row'[r]
        /\ \A q \in Requests \ {r} : rowOf'[q] = rowOf[q]
        /\ feedbacks' = feedbacks \cup {r} /\ r \notin feedbacks
        /\ overlaps' = overlaps /\ counted' = counted /\ r \in InFlight
    BY <1>2 DEF Persist, FirstCount, InFlight, Ends
  <2>1. CASE row[r] = Nobody
    <3>1. OthersOf(r)' = {} BY <1>2, <2>0, <2>1 DEF Persist, OthersOf, FeedbacksOf
    <3> QED BY <3>1, <2>0, <2>1, FS_EmptySet DEF PriorCount
  <2>2. CASE row[r] # Nobody
    <3>1. OthersOf(r)' = OthersOf(r) BY <2>0, <2>2 DEF OthersOf, FeedbacksOf
    <3> QED BY <3>1, <2>0, <2>2 DEF PriorCount, Alone, Together
  <2> QED BY <2>1, <2>2
<1>3. CASE ~FindDevice(r) /\ ~Persist(r)
  <2>1. row' = row /\ prior' = prior /\ feedbacks' = feedbacks /\ rowOf' = rowOf
        /\ (pc'[r] \in Ends \/ counted' = counted) /\ overlaps \subseteq overlaps'
        /\ (r \in InFlight \/ pc[r] = "new" \/ pc'[r] = pc[r])
    BY <1>3 DEF RequestStep, Submit, FindToday, FindCustomer, CreateCustomer,
      OpenWrite, PersistFails, Link, UpdateCounters, Fails, Block, tableVars,
      readVars, historyVars, InFlight, Pcs, Ends, GoTo
  <2>2. OthersOf(r)' = OthersOf(r) BY <2>1 DEF OthersOf, FeedbacksOf
  <2> QED BY <2>1, <2>2 DEF PriorCount, Alone, Together, InFlight
<1> QED BY <1>1, <1>2, <1>3

LEMMA CountKept ==
  ASSUME TypeOK, IsFiniteSet(feedbacks), NEW r \in Requests, RequestStep(r),
         PhaseOf(r), PriorCount(r), CountFollowsFeedbacks, CountInv
  PROVE CountFollowsFeedbacks' /\ CountInv' /\ IsFiniteSet(feedbacks')
<1>t. /\ rows \subseteq Requests /\ count \in [Requests -> Nat] /\ counted \subseteq feedbacks
      /\ \A f \in feedbacks : rowOf[f] \in rows
      /\ rowOf \in [Requests -> rows \cup {Nobody}] /\ prior[r] \in Nat
      /\ row \in [Requests -> rows \cup {Nobody}]
  BY DEF TypeOK
<1>0. \A d \in rows : IsFiniteSet(FeedbacksOf(d)) /\ Cardinality(FeedbacksOf(d)) \in Nat
  BY FS_Subset, FS_CardinalityType DEF FeedbacksOf
<1>1. CASE Persist(r)
  <2>0. /\ count' = count /\ overlaps' = overlaps /\ counted' = counted
        /\ rowOf'[r] = (IF row[r] = Nobody THEN r ELSE row[r])
        /\ \A q \in feedbacks : rowOf'[q] = rowOf[q]
        /\ feedbacks' = feedbacks \cup {r} /\ r \notin feedbacks
        /\ rows' = rows \cup {rowOf'[r]} /\ rows' \subseteq Requests
    BY <1>1, <1>t DEF Persist, NewRow, PhaseOf, Before
  <2>1. CountInv' BY <2>0 DEF CountInv
  <2>2. IsFiniteSet(feedbacks') BY <2>0, FS_AddElement
  <2>3. SUFFICES ASSUME NEW d \in rows'
                 PROVE /\ count[d] <= Cardinality(FeedbacksOf(d)')
                       /\ FeedbacksOf(d)' \subseteq counted /\ Alone(FeedbacksOf(d))'
                          => count[d] = Cardinality(FeedbacksOf(d)')
    BY <2>0, <2>1, <2>2 DEF CountFollowsFeedbacks, Alone
  <2>4. CASE d # rowOf'[r]
    <3>1. FeedbacksOf(d)' = FeedbacksOf(d) BY <2>0, <2>4 DEF FeedbacksOf
    <3>2. Alone(FeedbacksOf(d))' => Alone(FeedbacksOf(d))
      BY ONLY <3>1, <2>0 DEF Alone, Together
    <3>3. d \in rows BY <2>0, <2>4
    <3> QED BY ONLY <3>1, <3>2, <3>3,
      CountFollowsFeedbacks DEF CountFollowsFeedbacks, Alone
  <2>5. CASE d = rowOf'[r]
    <3>1. FeedbacksOf(d)' = FeedbacksOf(d) \cup {r} /\ r \notin FeedbacksOf(d)
      BY ONLY <2>0, <2>5 DEF FeedbacksOf
    <3>2. r \notin counted BY <2>0, <1>t
    <3>3. IsFiniteSet(FeedbacksOf(d)) BY FS_Subset DEF FeedbacksOf
    <3>4. Cardinality(FeedbacksOf(d)') = Cardinality(FeedbacksOf(d)) + 1
          /\ Cardinality(FeedbacksOf(d)) \in Nat
      BY ONLY <3>1, <3>3, FS_AddElement, FS_CardinalityType
    <3>6. count[d] \in Nat BY ONLY <1>t, <2>0, d \in rows'
    <3>5. count[d] <= Cardinality(FeedbacksOf(d))
      <4>1. CASE d \in rows
        BY ONLY <4>1, CountFollowsFeedbacks DEF CountFollowsFeedbacks
      <4>2. CASE d \notin rows 
        <5>1. count[d] = 0 BY ONLY <4>2, <2>0, CountInv, d \in rows' DEF CountInv
        <5> QED BY ONLY <5>1, <3>4
      <4> QED BY <4>1, <4>2
    <3>7. count[d] <= Cardinality(FeedbacksOf(d)') BY ONLY <3>4, <3>5, <3>6
    <3> QED BY ONLY <3>7, <3>1, <3>2
  <2> QED BY <2>4, <2>5
<1>2. CASE UpdateCounters(r) /\ counted' # counted
  <2>p. PICK d \in rows : d = row[r] /\ d # Nobody
    BY <1>2, <1>t DEF UpdateCounters, PhaseOf
  <2>0. /\ count' = [count EXCEPT ![d] = prior[r] + 1] /\ counted' = counted \cup {r}
        /\ overlaps' = overlaps /\ feedbacks' = feedbacks /\ rowOf' = rowOf /\ rows' = rows
        /\ r \in FeedbacksOf(d) /\ r \in InFlight /\ d \in rows
    BY <1>2, <2>p, <1>t DEF UpdateCounters, InFlight, Ends, FeedbacksOf, PhaseOf
  <2>1. count'[d] = prior[r] + 1 /\ \A e \in Requests \ {d} : count'[e] = count[e]
    BY ONLY <2>0, <1>t
  <2>2. \A e \in rows : FeedbacksOf(e)' = FeedbacksOf(e) BY ONLY <2>0 DEF FeedbacksOf
  <2>3. \A e \in rows \ {d} : r \notin FeedbacksOf(e) BY ONLY <2>0 DEF FeedbacksOf
  <2>4. /\ Cardinality(OthersOf(r)) = Cardinality(FeedbacksOf(d)) - 1
        /\ Cardinality(FeedbacksOf(d)) \in Nat
    BY ONLY <2>p, <2>0, <1>0, FS_RemoveElement DEF OthersOf
  <2>5. /\ prior[r] <= Cardinality(OthersOf(r))
        /\ Alone(OthersOf(r)) /\ (\A f \in OthersOf(r) : ~Together(f, r))
           => prior[r] = Cardinality(OthersOf(r))
    BY ONLY <2>p, <2>0, PriorCount(r) DEF PriorCount
  <2>6. ASSUME Alone(FeedbacksOf(d))'
        PROVE count'[d] = Cardinality(FeedbacksOf(d)')
    <3>0. FeedbacksOf(d)' = FeedbacksOf(d) BY <2>0, <2>2
    <3>1. Alone(OthersOf(r))
      BY ONLY <2>p, <3>0, <2>0, <2>6 DEF Alone, OthersOf, Together
    <3>2. \A f \in OthersOf(r) : ~Together(f, r)
      BY ONLY <2>p, <3>0, <2>0, <2>6 DEF Alone, OthersOf, Together
    <3> QED BY ONLY <3>0, <2>1, <2>4, <2>5, <3>1, <3>2
  <2>7. count'[d] <= Cardinality(FeedbacksOf(d)') 
    <3>0. FeedbacksOf(d)' = FeedbacksOf(d) BY <2>0, <2>2
    <3> QED BY ONLY <3>0, <2>1, <2>4, <2>5, <1>t
  <2>8. ASSUME NEW e \in rows \ {d}
        PROVE /\ count'[e] <= Cardinality(FeedbacksOf(e)')
              /\ Alone(FeedbacksOf(e))' => count'[e] = Cardinality(FeedbacksOf(e)')
    <3>0. FeedbacksOf(e)' = FeedbacksOf(e) /\ r \notin FeedbacksOf(e)
      BY ONLY <2>2, <2>3, e \in rows \ {d}
    <3>1. Alone(FeedbacksOf(e))' => Alone(FeedbacksOf(e))
      BY ONLY <3>0, <2>0 DEF Alone, Together
    <3>2. count'[e] = count[e] BY ONLY <2>1, <1>t, e \in rows \ {d}
    <3> QED BY ONLY <3>0, <3>1, <3>2, CountFollowsFeedbacks, e \in rows \ {d}
            DEF CountFollowsFeedbacks, Alone
  <2>9. CountFollowsFeedbacks'
    <3> SUFFICES ASSUME NEW e \in rows'
                 PROVE /\ count'[e] <= Cardinality(FeedbacksOf(e)')
                       /\ Alone(FeedbacksOf(e))' => count'[e] = Cardinality(FeedbacksOf(e)')
      BY DEF CountFollowsFeedbacks, Alone
    <3>1. CASE e = d BY ONLY <3>1, <2>6, <2>7
    <3>2. CASE e # d BY ONLY <3>2, <2>8, <2>0, e \in rows'
    <3> QED BY ONLY <3>1, <3>2
  <2>10. CountInv' BY ONLY <2>0, <2>1, CountInv DEF CountInv
  <2> QED BY <2>0, <2>9, <2>10
<1>3. CASE ~Persist(r) /\ ~(UpdateCounters(r) /\ counted' # counted)
  <2>1. /\ rows' = rows /\ feedbacks' = feedbacks /\ rowOf' = rowOf
        /\ overlaps \subseteq overlaps' /\ counted' = counted
    BY <1>3 DEF RequestStep, Submit, FindDevice, FindToday, FindCustomer,
      CreateCustomer,
         OpenWrite, PersistFails, Link, UpdateCounters, Fails, Block, tableVars,
         historyVars
  <2>2. count' = count
    <3>1. CASE UpdateCounters(r)
      <4>1. r \notin counted BY <3>1 DEF UpdateCounters, PhaseOf
      <4> QED BY <3>1, <4>1, <2>1 DEF UpdateCounters
    <3>2. CASE ~UpdateCounters(r)
      BY <3>2, <1>3 DEF RequestStep, Submit, FindDevice, FindToday, FindCustomer,
        CreateCustomer,
         OpenWrite, PersistFails, Link, Fails, Block, tableVars
    <3> QED BY <3>1, <3>2
  <2>3. \A e \in rows : FeedbacksOf(e)' = FeedbacksOf(e) BY ONLY <2>1 DEF FeedbacksOf
  <2>4. CountFollowsFeedbacks'
    BY ONLY <2>1, <2>2, <2>3, CountFollowsFeedbacks DEF CountFollowsFeedbacks,
      Together
  <2>5. CountInv' BY ONLY <2>1, <2>2, CountInv DEF CountInv
  <2> QED BY <2>1, <2>4, <2>5
<1> QED BY <1>1, <1>2, <1>3

LEMMA TwinsKept ==
  ASSUME TypeOK, NEW r \in Requests, RequestStep(r), StepOf(r), PhaseOf(r),
    FreshDevice(r), FreshCustomer(r), TwinsMeanOverlap
  PROVE TwinsMeanOverlap'
<1>1. CASE rows' # rows
  <2>1. /\ row[r] = Nobody /\ rows' = rows \cup {r} /\ pc[r] = "write" /\ r \notin rows
        /\ customers' = customers /\ overlaps' = overlaps /\ device' = device /\ email' = email
    BY <1>1 DEF RequestStep, Submit, FindDevice, FindToday, FindCustomer,
      CreateCustomer,
         OpenWrite, Persist, NewRow, PersistFails, Link, UpdateCounters, Fails,
         Block, tableVars, payloadVars, PhaseOf, Before
  <2> QED BY <2>1 DEF TwinsMeanOverlap, Together, FreshDevice, RowsOf
<1>2. CASE customers' # customers
  <2>1. /\ rows' = rows /\ pc[r] = "create" /\ customers' = customers \cup {r}
        /\ r \notin customers
        /\ overlaps' = overlaps /\ device' = device /\ email' = email
    BY <1>2 DEF RequestStep, Submit, FindDevice, FindToday, FindCustomer,
      CreateCustomer,
         OpenWrite, Persist, PersistFails, Link, UpdateCounters, Fails, Block,
         tableVars, payloadVars, historyVars, PhaseOf, Before
  <2> QED BY <2>1 DEF TwinsMeanOverlap, Together, FreshCustomer, CustomersOf
<1>3. CASE rows' = rows /\ customers' = customers
  BY <1>3 DEF StepOf, TwinsMeanOverlap, TypeOK, Together
<1> QED BY <1>1, <1>2, <1>3

LEMMA TwoADayKept ==
  ASSUME TypeOK, NEW r \in Requests, RequestStep(r), StepOf(r), PhaseOf(r),
    NoneToday(r), TwoADayMeanOverlap
  PROVE TwoADayMeanOverlap'
<1>1. CASE feedbacks' = feedbacks
  BY <1>1 DEF StepOf, TwoADayMeanOverlap, TypeOK, Together
<1>2. CASE feedbacks' # feedbacks
  <2>1. Persist(r)
    BY <1>2 DEF RequestStep, Submit, FindDevice, FindToday, FindCustomer,
      CreateCustomer,
         OpenWrite, PersistFails, Link, UpdateCounters, Fails, Block, tableVars
  <2>2. /\ pc[r] = "write" /\ feedbacks' = feedbacks \cup {r}
        /\ rowOf'[r] = (IF row[r] = Nobody THEN r ELSE row[r])
        /\ \A f \in feedbacks : rowOf'[f] = rowOf[f] /\ rowOf[f] \in rows
        /\ r \notin feedbacks /\ r \notin rows
        /\ point' = point /\ stamp' = stamp /\ overlaps' = overlaps
    BY <2>1 DEF Persist, TypeOK, PhaseOf, Before, payloadVars
  <2>3. ASSUME NEW f \in feedbacks, rowOf'[f] = rowOf'[r], point[f] = point[r],
    Day(stamp[f]) = Day(stamp[r])
        PROVE Together(f, r)
    <3>1. row[r] # Nobody /\ f \in FeedbacksOf(row[r]) BY <2>2, <2>3 DEF FeedbacksOf
    <3>2. Together(f, r) \/ Day(stamp[f]) < Day(stamp[r])
      BY <3>1, <2>2, <2>3 DEF NoneToday
    <3>3. stamp[f] \in Nat /\ stamp[r] \in Nat BY DEF TypeOK
    <3>4. Day(stamp[f]) \in Int /\ Day(stamp[r]) \in Int BY <3>3, DayGrows
    <3> QED BY <3>2, <3>4, <2>3
  <2>4. SUFFICES ASSUME NEW f \in feedbacks', NEW g \in feedbacks', f # g,
    rowOf'[f] = rowOf'[g], point[f] = point[g], Day(stamp[f]) = Day(stamp[g])
        PROVE Together(f, g)
    BY <2>2 DEF TwoADayMeanOverlap, Together, Day
  <2>5. CASE f = r BY <2>5, <2>4, <2>3, <2>2 DEF Together
  <2>6. CASE g = r BY <2>6, <2>4, <2>3, <2>2 DEF Together
  <2>7. CASE f # r /\ g # r BY <2>7, <2>4, <2>2 DEF TwoADayMeanOverlap
  <2> QED BY <2>5, <2>6, <2>7
<1> QED BY <1>1, <1>2

LEMMA RequestKeeps ==
  ASSUME IInv, NEW r \in Requests, RequestStep(r)
  PROVE  IInv'
<1>1. TypeOK' /\ StepOf(r) BY TypeStep, StepOfRequest DEF IInv
<1>2. CountFollowsFeedbacks' /\ CountInv' /\ IsFiniteSet(feedbacks') BY CountKept DEF IInv
<1>3. TwinsMeanOverlap' /\ TwoADayMeanOverlap'
  BY <1>1, TwinsKept, TwoADayKept DEF IInv
<1>4. OverlapInv' BY <1>1, OverlapKept DEF IInv
<1>5. \A p \in Requests : PhaseOf(p)' BY <1>1, PhaseKept DEF IInv
<1>6. FreshDevice(r)' /\ FreshCustomer(r)' BY <1>1, OwnFresh DEF IInv
<1>7. NoneToday(r)' BY <1>1, OwnToday DEF IInv
<1>8. PriorCount(r)' BY <1>1, OwnPrior DEF IInv
<1>9. ReadUnlinked(r)' BY <1>1, OwnUnlinked DEF IInv
<1>10. ASSUME NEW q \in Requests \ {r}
       PROVE /\ FreshDevice(q)' /\ FreshCustomer(q)' /\ NoneToday(q)'
             /\ PriorCount(q)' /\ ReadUnlinked(q)'
  BY <1>1, <1>2, <1>4, <1>5, OthersKeep DEF IInv
<1> QED BY <1>1, <1>2, <1>3, <1>4, <1>5, <1>6, <1>7, <1>8, <1>9, <1>10 DEF IInv

\* The clock moves on, or nothing happens.
LEMMA TimeKeeps ==
  ASSUME IInv, hour' \in 0 .. LastHour, hour <= hour',
         UNCHANGED <<tableVars, stamp, pc, payloadVars, readVars, customer, historyVars, mishaps>>
  PROVE IInv'
<1> USE DEF tableVars, payloadVars, readVars, historyVars
<1>0. hour \in Nat /\ hour' \in Nat BY ClockAssumption DEF IInv, TypeOK
<1>1. TypeOK' BY DEF IInv, TypeOK
<1>2. OverlapInv' /\ CountInv' /\ IsFiniteSet(feedbacks')
  BY DEF IInv, OverlapInv, CountInv, InFlight, Together
<1>3. TwoADayMeanOverlap' /\ TwinsMeanOverlap'
  BY DEF IInv, TwoADayMeanOverlap, TwinsMeanOverlap, Together, Day
<1>4. CountFollowsFeedbacks' BY DEF IInv, CountFollowsFeedbacks, FeedbacksOf, Together
<1>5. ASSUME NEW r \in Requests PROVE PhaseOf(r)' BY DEF IInv, PhaseOf
<1>6. ASSUME NEW r \in Requests PROVE FreshDevice(r)' /\ FreshCustomer(r)'
  BY DEF IInv, FreshDevice, FreshCustomer, RowsOf, CustomersOf, Together
<1>7. ASSUME NEW r \in Requests PROVE PriorCount(r)'
  BY DEF IInv, PriorCount, OthersOf, FeedbacksOf, InFlight, Alone, Together
<1>8. ASSUME NEW r \in Requests PROVE ReadUnlinked(r)'
  BY DEF IInv, ReadUnlinked, InFlight, Together
<1>9. ASSUME NEW r \in Requests PROVE NoneToday(r)'
  <2> SUFFICES ASSUME row[r] # Nobody, pc[r] \in {"customer", "create", "open",
    "write"},
                      NEW f \in FeedbacksOf(row[r]), point[f] = point[r], ~Together(f, r)
               PROVE Day(stamp[f]) < Day(IF pc[r] = "write" THEN stamp[r] ELSE hour')
    BY DEF NoneToday, FeedbacksOf, Together, Day
  <2>1. Day(stamp[f]) < Day(IF pc[r] = "write" THEN stamp[r] ELSE hour)
    BY DEF IInv, NoneToday
  <2>2. stamp[f] \in Nat BY DEF IInv, TypeOK, FeedbacksOf
  <2>3. /\ Day(stamp[f]) \in Int /\ Day(hour) \in Int /\ Day(hour') \in Int
        /\ Day(hour) <= Day(hour')
    BY <1>0, <2>2, DayGrows
  <2> QED BY <2>1, <2>3
<1> QED BY <1>1, <1>2, <1>3, <1>4, <1>5, <1>6, <1>7, <1>8, <1>9 DEF IInv

LEMMA InitHolds == Init => IInv
<1> SUFFICES ASSUME Init PROVE IInv OBVIOUS
<1>1. TypeOK
  BY PayloadAssumption, AbsentAssumption, ClockAssumption,
    MishapsAssumption DEF Init, TypeOK, Pcs, Ends
<1>2. IsFiniteSet(feedbacks) BY FS_EmptySet DEF Init
<1>3. OverlapInv /\ CountInv /\ TwoADayMeanOverlap /\ TwinsMeanOverlap /\ CountFollowsFeedbacks
  BY DEF Init, OverlapInv, CountInv, TwoADayMeanOverlap, TwinsMeanOverlap,
    CountFollowsFeedbacks, InFlight
<1>4. ASSUME NEW r \in Requests
      PROVE  /\ PhaseOf(r) /\ FreshDevice(r) /\ FreshCustomer(r) /\ NoneToday(r)
             /\ PriorCount(r) /\ ReadUnlinked(r)
  BY DEF Init, PhaseOf, FreshDevice, FreshCustomer, NoneToday, PriorCount,
    ReadUnlinked
<1> QED BY <1>1, <1>2, <1>3, <1>4 DEF IInv

(* The inductive invariant: from what the handler has read and from whom it  *)
(* has met since follows what it may write.                                  *)
THEOREM Invariant == Spec => []IInv
<1>1. ASSUME IInv, [Next]_vars PROVE IInv'
  <2>1. ASSUME NEW r \in Requests, RequestStep(r) PROVE IInv'
    BY <1>1, <2>1, RequestKeeps
  <2>2. CASE Tick
    <3>1. hour' \in 0 .. LastHour /\ hour <= hour'
      BY <1>1, <2>2, ClockAssumption DEF Tick, IInv, TypeOK
    <3> QED BY <1>1, <2>2, <3>1, TimeKeeps DEF Tick
  <2>3. CASE UNCHANGED vars
    <3>1. hour' \in 0 .. LastHour /\ hour <= hour'
      BY <1>1, <2>3 DEF vars, IInv, TypeOK
    <3> QED BY <1>1, <2>3, <3>1, TimeKeeps DEF vars
  <2> QED BY <1>1, <2>1, <2>2, <2>3 DEF Next, RequestStep
<1> QED BY InitHolds, <1>1, PTL DEF Spec

(* TwoADayMeanOverlap: two feedbacks of one device row, point and day of     *)
(* Brasilia come only from requests that were in progress together, also     *)
(* when the day changes between the look-up and the transaction.             *)
THEOREM TwoADay == Spec => []TwoADayMeanOverlap
<1>1. IInv => TwoADayMeanOverlap BY DEF IInv
<1> QED BY Invariant, <1>1, PTL

(* TwinsMeanOverlap: a second row of a browser and a second customer of an   *)
(* e-mail are made only by requests in progress together.                    *)
THEOREM Twins == Spec => []TwinsMeanOverlap
<1>1. IInv => TwinsMeanOverlap BY DEF IInv
<1> QED BY Invariant, <1>1, PTL

(* CountFollowsFeedbacks: the counter of a device is at most the number of   *)
(* its feedbacks, and that number when no two of its requests met and none   *)
(* lost its update; the reads and writes of other devices do not matter.     *)
THEOREM CountFollows == Spec => []CountFollowsFeedbacks
<1>1. IInv => CountFollowsFeedbacks BY DEF IInv
<1> QED BY Invariant, <1>1, PTL

(* FirstCustomerStays: a device changes its customer only by a request that  *)
(* was in progress together with the one that linked the first.              *)
THEOREM FirstCustomer == Spec => FirstCustomerStays
<1>1. ASSUME IInv, [Next]_vars
      PROVE [\A d \in rows : link[d] # Nobody /\ link'[d] # link[d]
                       => Together(linkedBy[d], linkedBy'[d])]_vars
  <2>1. ASSUME NEW r \in Requests, RequestStep(r), NEW d \in rows, link[d] # Nobody,
    link'[d] # link[d]
        PROVE Together(linkedBy[d], linkedBy'[d])
    <3>1. CASE Link(r)
      BY <1>1, <2>1, <3>1 DEF Link, MayLink, IInv, ReadUnlinked, PhaseOf, InFlight,
        Ends, TypeOK
    <3>2. CASE Persist(r)
      BY <1>1, <2>1, <3>2 DEF Persist, NewRow, IInv, PhaseOf, Before, TypeOK
    <3>3. CASE ~Link(r) /\ ~Persist(r)
      BY <2>1, <3>3 DEF RequestStep, Submit, FindDevice, FindToday, FindCustomer,
        CreateCustomer,
         OpenWrite, PersistFails, UpdateCounters, Fails, Block, tableVars
    <3> QED BY <3>1, <3>2, <3>3
  <2>2. CASE Tick BY <2>2 DEF Tick, tableVars
  <2> QED BY <1>1, <2>1, <2>2 DEF Next, RequestStep
<1> QED BY Invariant, <1>1, PTL DEF Spec, FirstCustomerStays
=============================================================================
