----------------------------- MODULE QrFeedback -----------------------------
(***************************************************************************)
(* submitQrCodeFeedbackController: the public form of one company.  A       *)
(* request looks its device up by fingerprint, looks for a feedback of the  *)
(* day, finds or creates the customer, writes device and feedback in one    *)
(* transaction, and then links the customer and counts, each a statement of *)
(* its own.                                                                *)
(*                                                                         *)
(* Neither tracked_devices nor customer has a unique index on what is       *)
(* looked up.  A request creates at most one device row, one customer and   *)
(* one feedback, so that its own id names all three.                       *)
(*                                                                         *)
(* The clock counts hours in UTC; a day begins at Midnight (3, in Brasilia) *)
(*                                                                         *)
(* An operator F_Bug is F with a plausible bug.  No specification uses it:  *)
(* put in the place of F, it shows that the properties notice.              *)
(***************************************************************************)
EXTENDS Integers, FiniteSets

CONSTANTS Requests,     \* submissions of the form
          Nobody,       \* no device row, no customer
          Devices,      \* fingerprints: md5 of browser and address
          Points,       \* collection points
          Emails,
          NoEmail,      \* a customer with a name only
          Anonymous,    \* neither name nor e-mail
          HoursPerDay, Midnight,
          LastHour,     \* bound: the clock stops there
          MaxMishaps    \* bound: crashes and statements that fail

ASSUME AbsentAssumption ==
  Nobody \notin Requests /\ NoEmail \notin Emails /\ Anonymous \notin Emails \cup {NoEmail}
ASSUME ClockAssumption ==
  /\ HoursPerDay \in Nat \ {0} /\ Midnight \in 0 .. HoursPerDay - 1
  /\ LastHour \in Nat
ASSUME MishapsAssumption == MaxMishaps \in Nat
ASSUME PayloadAssumption == Devices # {} /\ Points # {}

VARIABLES
  hour,
  rows, blocked, count, link, \* tracked_devices; its id is that of its creator
  customers,                  \* customer
  feedbacks, rowOf, stamp,    \* feedback, tracked_device_id, created_at
  pc, device, point, email,   \* a request and its payload
  row, prior, linked, customer, \* what it read of its device; its customer
  overlaps, counted, linkedBy, \* history, see the properties
  mishaps

tableVars == <<rows, blocked, count, link, customers, feedbacks, rowOf>>
payloadVars == <<device, point, email>>
readVars == <<row, prior, linked>>
historyVars == <<overlaps, counted, linkedBy>>
vars == <<hour, tableVars, stamp, pc, payloadVars, readVars, customer, historyVars, mishaps>>

Ends == {"ok", "refused", "failed", "unknown", "lost"}
Pcs == {"new", "device", "today", "customer", "create", "open", "write", "link", "count"}
       \cup Ends
InFlight == {r \in Requests : pc[r] \notin {"new"} \cup Ends}

Day(h) == (h - Midnight) \div HoursPerDay
StartOfToday_Utc(h) == (h \div HoursPerDay) * HoursPerDay
\* startOfTodayInBrasilia
StartOfToday(h) == Day(h) * HoursPerDay + Midnight

TypeOK ==
  /\ hour \in 0 .. LastHour
  /\ rows \subseteq Requests /\ blocked \subseteq rows
  /\ count \in [Requests -> Nat]
  /\ link \in [Requests -> customers \cup {Nobody}]
  /\ customers \subseteq Requests /\ feedbacks \subseteq Requests
  /\ rowOf \in [Requests -> rows \cup {Nobody}] /\ \A f \in feedbacks : rowOf[f] \in rows
  /\ stamp \in [Requests -> 0 .. LastHour]
  /\ pc \in [Requests -> Pcs]
  /\ device \in [Requests -> Devices] /\ point \in [Requests -> Points]
  /\ email \in [Requests -> Emails \cup {NoEmail, Anonymous}]
  /\ row \in [Requests -> rows \cup {Nobody}]
  /\ prior \in [Requests -> Nat] /\ linked \in [Requests -> BOOLEAN]
  /\ customer \in [Requests -> customers \cup {Nobody}]
  /\ overlaps \in SUBSET SUBSET Requests
  /\ counted \subseteq feedbacks /\ linkedBy \in [Requests -> Requests \cup {Nobody}]
  /\ mishaps \in 0 .. MaxMishaps

Init ==
  /\ hour = 0
  /\ rows = {} /\ blocked = {} /\ customers = {} /\ feedbacks = {}
  /\ count = [r \in Requests |-> 0] /\ link = [r \in Requests |-> Nobody]
  /\ rowOf = [r \in Requests |-> Nobody] /\ stamp = [r \in Requests |-> 0]
  /\ pc = [r \in Requests |-> "new"]
  /\ device = [r \in Requests |-> CHOOSE d \in Devices : TRUE]
  /\ point = [r \in Requests |-> CHOOSE p \in Points : TRUE]
  /\ email = [r \in Requests |-> Anonymous]
  /\ row = [r \in Requests |-> Nobody] /\ prior = [r \in Requests |-> 0]
  /\ linked = [r \in Requests |-> FALSE] /\ customer = [r \in Requests |-> Nobody]
  /\ overlaps = {} /\ counted = {} /\ linkedBy = [r \in Requests |-> Nobody]
  /\ mishaps = 0

GoTo(r, label) == pc' = [pc EXCEPT ![r] = label]
Mishap == mishaps < MaxMishaps /\ mishaps' = mishaps + 1

-----------------------------------------------------------------------------
(* Reads.  Steps 1 to 6 of the handler only read company, point and          *)
(* questions: a payload that does not fit them is refused there.             *)

Submit(r) ==
  /\ pc[r] = "new" /\ (GoTo(r, "device") \/ GoTo(r, "refused"))
  /\ \E d \in Devices : device' = [device EXCEPT ![r] = d]
  /\ \E p \in Points : point' = [point EXCEPT ![r] = p]
  /\ \E e \in Emails \cup {NoEmail, Anonymous} : email' = [email EXCEPT ![r] = e]
  /\ overlaps' = overlaps \cup {{r, q} : q \in InFlight}
  /\ UNCHANGED <<hour, tableVars, stamp, readVars, customer, counted, linkedBy, mishaps>>

RowsOf_NotBlocked(r) == {d \in rows \ blocked : device[d] = device[r]}
RowsOf(r) == {d \in rows : device[d] = device[r]}

\* findTrackedDevice: LIMIT 1, in no order.
FindDevice(r) ==
  /\ pc[r] = "device"
  /\ \/ RowsOf(r) = {} /\ GoTo(r, "customer") /\ UNCHANGED readVars
     \/ \E d \in RowsOf(r) :
          /\ GoTo(r, IF d \in blocked THEN "refused" ELSE "today")
          /\ row' = [row EXCEPT ![r] = d]
          /\ prior' = [prior EXCEPT ![r] = count[d]]
          /\ linked' = [linked EXCEPT ![r] = link[d] # Nobody]
  /\ UNCHANGED <<hour, tableVars, stamp, payloadVars, customer, historyVars, mishaps>>

\* hasFeedbackSince
FindToday(r) ==
  /\ pc[r] = "today"
  /\ GoTo(r, IF \E f \in feedbacks : /\ rowOf[f] = row[r] /\ point[f] = point[r]
                                     /\ stamp[f] >= StartOfToday(hour)
               THEN "refused" ELSE "customer")
  /\ UNCHANGED <<hour, tableVars, stamp, payloadVars, readVars, customer, historyVars,
                 mishaps>>

CustomersOf(r) == {c \in customers : email[c] = email[r]}

\* findCustomerByEmail, for whom gave one; who gave only a name is new.
FindCustomer(r) ==
  /\ pc[r] = "customer"
  /\ \/ email[r] = Anonymous /\ GoTo(r, "open") /\ UNCHANGED customer
     \/ email[r] = NoEmail /\ GoTo(r, "create") /\ UNCHANGED customer
     \/ /\ email[r] \in Emails /\ CustomersOf(r) = {}
        /\ GoTo(r, "create") /\ UNCHANGED customer
     \/ /\ email[r] \in Emails
        /\ \E c \in CustomersOf(r) : customer' = [customer EXCEPT ![r] = c]
        /\ GoTo(r, "open")
  /\ UNCHANGED <<hour, tableVars, stamp, payloadVars, readVars, historyVars, mishaps>>

-----------------------------------------------------------------------------
(* Writes.                                                                   *)

\* insertCustomer: an error is logged and the feedback goes on without.
CreateCustomer(r) ==
  /\ pc[r] = "create" /\ GoTo(r, "open")
  /\ \/ /\ customers' = customers \cup {r}
        /\ customer' = [customer EXCEPT ![r] = r]
        /\ UNCHANGED mishaps
     \/ Mishap /\ UNCHANGED <<customers, customer>>
  /\ UNCHANGED <<hour, rows, blocked, count, link, feedbacks, rowOf, stamp, payloadVars,
                 readVars, historyVars>>

\* The transaction begins: now() and nowIso.
OpenWrite(r) ==
  /\ pc[r] = "open" /\ GoTo(r, "write")
  /\ stamp' = [stamp EXCEPT ![r] = hour]
  /\ UNCHANGED <<hour, tableVars, payloadVars, readVars, customer, historyVars, mishaps>>

\* The device row that the transaction inserts.
NewRow(r) == IF row[r] = Nobody THEN {r} ELSE {}

FirstCount_One == 1
FirstCount == 0

\* persistQrFeedback.  The acknowledgement of its commit may be lost.
Persist(r) ==
  /\ pc[r] = "write"
  /\ \/ GoTo(r, "link") /\ UNCHANGED mishaps
     \/ GoTo(r, "unknown") /\ Mishap
  /\ rows' = rows \cup NewRow(r)
  /\ link' = [d \in Requests |-> IF d \in NewRow(r) THEN customer[r] ELSE link[d]]
  /\ linkedBy' = [d \in Requests |-> IF d \in NewRow(r) THEN r ELSE linkedBy[d]]
  /\ feedbacks' = feedbacks \cup {r}
  /\ rowOf' = [rowOf EXCEPT ![r] = IF row[r] = Nobody THEN r ELSE row[r]]
  /\ row' = [row EXCEPT ![r] = rowOf'[r]]
  /\ prior' = [prior EXCEPT ![r] = IF row[r] = Nobody THEN FirstCount ELSE @]
  /\ linked' = [linked EXCEPT ![r] = @ \/ row[r] = Nobody]
  /\ UNCHANGED <<hour, blocked, count, customers, stamp, payloadVars, customer, overlaps,
                 counted>>

\* device_creation, feedback_insert: the transaction is rolled back.
PersistFails(r) ==
  /\ Mishap
  /\ pc[r] = "write" /\ GoTo(r, "failed")
  /\ UNCHANGED <<hour, tableVars, stamp, payloadVars, readVars, customer, historyVars>>

MayLink_Always(r) == customer[r] # Nobody
\* trackedDevice && customerId && !trackedDevice.customerId
MayLink(r) == customer[r] # Nobody /\ ~linked[r]

\* linkTrackedDeviceCustomer; an error is logged.
Link(r) ==
  /\ pc[r] = "link" /\ GoTo(r, "count")
  /\ \/ /\ MayLink(r)
        /\ link' = [link EXCEPT ![row[r]] = customer[r]]
        /\ linkedBy' = [linkedBy EXCEPT ![row[r]] = r]
        /\ UNCHANGED mishaps
     \/ ~MayLink(r) /\ UNCHANGED <<link, linkedBy, mishaps>>
     \/ MayLink(r) /\ Mishap /\ UNCHANGED <<link, linkedBy>>
  /\ UNCHANGED <<hour, rows, blocked, count, customers, feedbacks, rowOf, stamp,
                 payloadVars, readVars, customer, overlaps, counted>>

\* updateTrackedDeviceCounters; an error is logged.
UpdateCounters(r) ==
  /\ pc[r] = "count" /\ GoTo(r, "ok")
  /\ \/ /\ count' = [count EXCEPT ![row[r]] = prior[r] + 1]
        /\ counted' = counted \cup {r}
        /\ UNCHANGED mishaps
     \/ Mishap /\ UNCHANGED <<count, counted>>
  /\ UNCHANGED <<hour, rows, blocked, link, customers, feedbacks, rowOf, stamp,
                 payloadVars, readVars, customer, overlaps, linkedBy>>

-----------------------------------------------------------------------------
(* The environment.                                                          *)

\* A read fails (500), or the process dies.
Fails(r) ==
  /\ Mishap
  /\ \/ pc[r] \in {"device", "today", "customer"} /\ GoTo(r, "failed")
     \/ r \in InFlight /\ GoTo(r, "lost")
  /\ UNCHANGED <<hour, tableVars, stamp, payloadVars, readVars, customer, historyVars>>

\* By hand, in the database.
Block(d) ==
  /\ d \in rows \ blocked /\ blocked' = blocked \cup {d}
  /\ UNCHANGED <<hour, rows, count, link, customers, feedbacks, rowOf, stamp, pc,
                 payloadVars, readVars, customer, historyVars, mishaps>>

Tick ==
  /\ hour < LastHour /\ hour' = hour + 1
  /\ UNCHANGED <<tableVars, stamp, pc, payloadVars, readVars, customer, historyVars,
                 mishaps>>

Next ==
  \/ \E r \in Requests :
       \/ Submit(r) \/ FindDevice(r) \/ FindToday(r) \/ FindCustomer(r)
       \/ CreateCustomer(r) \/ OpenWrite(r) \/ Persist(r) \/ PersistFails(r)
       \/ Link(r) \/ UpdateCounters(r) \/ Fails(r) \/ Block(r)
  \/ Tick

Spec == Init /\ [][Next]_vars

-----------------------------------------------------------------------------
(* Properties.                                                               *)

Together(q, r) == {q, r} \in overlaps
FeedbacksOf(d) == {f \in feedbacks : rowOf[f] = d}

(* Two feedbacks of one device row at one point on one day of Brasilia come  *)
(* only from requests that were in progress together: who waits for the      *)
(* answer never gives two, also around midnight.                             *)
TwoADayMeanOverlap ==
  \A f, g \in feedbacks :
    f # g /\ rowOf[f] = rowOf[g] /\ point[f] = point[g] /\ Day(stamp[f]) = Day(stamp[g])
      => Together(f, g)

(* A browser gets a second device row, and an e-mail a second customer, only *)
(* by requests in progress together: no index keeps either apart.            *)
TwinsMeanOverlap ==
  /\ \A c, d \in rows : c # d /\ device[c] = device[d] => Together(c, d)
  /\ \A b, c \in customers : b # c /\ email[b] = email[c] /\ email[b] \in Emails
                             => Together(b, c)

(* The counter of a device never says more than the feedbacks there are, and *)
(* says as many when none of its requests met and none lost its update.      *)
CountFollowsFeedbacks ==
  \A d \in rows :
    /\ count[d] <= Cardinality(FeedbacksOf(d))
    /\ /\ FeedbacksOf(d) \subseteq counted
       /\ \A f, g \in FeedbacksOf(d) : f # g => ~Together(f, g)
       => count[d] = Cardinality(FeedbacksOf(d))

(* A device keeps its customer: another takes its place only from a request  *)
(* that read the device before the first was linked.                         *)
FirstCustomerStays ==
  [][\A d \in rows : link[d] # Nobody /\ link'[d] # link[d]
                       => Together(linkedBy[d], linkedBy'[d])]_vars

(* The API document on the answer 409: a device gives one feedback a day at  *)
(* a point.                                                                  *)
OneADay ==
  \A f, g \in feedbacks :
    f # g /\ device[f] = device[g] /\ point[f] = point[g] => Day(stamp[f]) # Day(stamp[g])

(* The API document on the answers 500: nothing is stored.                   *)
FailedMeansNothingStored ==
  \A r \in Requests : pc[r] = "failed" => r \notin feedbacks \cup rows \cup customers
=============================================================================
