-------------------------- MODULE CollectionPoints --------------------------
(***************************************************************************)
(* The QR points of one company: enabling and disabling the one of the      *)
(* company and those of catalog items (collectionPointsQr.repository.ts),   *)
(* against what the public form resolves and what the manager is shown.     *)
(*                                                                         *)
(* No unique index keeps a scope to one point and no transaction holds the  *)
(* statements of a request together.  A request inserts at most one point,  *)
(* whose id is that of the request.  A statement that writes sees the rows  *)
(* and the time (now(), also that of the trigger set_updated_at) of its     *)
(* start, and takes effect at its end.                                      *)
(*                                                                         *)
(* An operator F_Bug is F with a plausible bug.  No specification uses it:  *)
(* put in the place of F, it shows that the properties notice.              *)
(***************************************************************************)
EXTENDS Integers, FiniteSets

CONSTANTS Requests, NoPoint,
          Company,       \* the scope without catalog item
          Items

ASSUME ScopesAssumption == NoPoint \notin Requests /\ Company \notin Items

Scopes == Items \cup {Company}

VARIABLES
  now,                              \* start of the latest statement that writes
  points, active, created, updated, \* collection_points of type QR_CODE
  pc, op, scope,                    \* a request
  target, start, answer,            \* rows and time of its statement; the id returned
  newest, overlaps                  \* history: newest request of a scope

tableVars == <<points, active, created, updated>>
vars == <<now, tableVars, pc, op, scope, target, start, answer, newest, overlaps>>

Ends == {"done", "failed", "refused"}
InFlight == {r \in Requests : pc[r] \notin {"new"} \cup Ends}
Together(q, r) == {q, r} \in overlaps

PointsOf_Active(s) == {p \in active : scope[p] = s}
PointsOf(s) == {p \in points : scope[p] = s}
ActiveOf(s) == PointsOf(s) \cap active

TypeOK ==
  /\ now \in Nat
  /\ points \subseteq Requests /\ active \subseteq points
  /\ created \in [Requests -> 0 .. now] /\ updated \in [Requests -> 0 .. now]
  /\ \A p \in points : 0 < created[p] /\ created[p] <= updated[p]
  /\ pc \in [Requests -> {"new", "active", "any", "write", "commit"} \cup Ends]
  /\ op \in [Requests -> {"enable", "disable"}] /\ scope \in [Requests -> Scopes]
  /\ \A r \in Requests : target[r] \subseteq PointsOf(scope[r])
  /\ start \in [Requests -> 0 .. now]
  /\ answer \in [Requests -> points \cup {NoPoint}]
  /\ newest \in [Scopes -> Requests \cup {NoPoint}]
  /\ overlaps \in SUBSET SUBSET Requests

Init ==
  /\ now = 0
  /\ points = {} /\ active = {}
  /\ created = [r \in Requests |-> 0] /\ updated = [r \in Requests |-> 0]
  /\ pc = [r \in Requests |-> "new"] /\ op = [r \in Requests |-> "enable"]
  /\ scope = [r \in Requests |-> Company]
  /\ target = [r \in Requests |-> {}] /\ start = [r \in Requests |-> 0]
  /\ answer = [r \in Requests |-> NoPoint]
  /\ newest = [s \in Scopes |-> NoPoint] /\ overlaps = {}

-----------------------------------------------------------------------------
GoTo(r, label) == pc' = [pc EXCEPT ![r] = label]

\* enableQrController, disableQrController and those of the catalog.  Enabling
\* an item asks whether the item is active.  Disabling one is one statement.
Begin(r) ==
  /\ pc[r] = "new"
  /\ \E o \in {"enable", "disable"}, s \in Scopes :
       /\ op' = [op EXCEPT ![r] = o] /\ scope' = [scope EXCEPT ![r] = s]
       /\ newest' = [newest EXCEPT ![s] = r]
       /\ overlaps' = overlaps \cup {{q, r} : q \in {x \in InFlight : scope[x] = s}}
       /\ \/ GoTo(r, IF o = "disable" /\ s \in Items THEN "write" ELSE "active")
          \/ o = "enable" /\ s \in Items /\ GoTo(r, "refused")
  /\ UNCHANGED <<now, tableVars, target, start, answer>>

\* findActiveCompanyQrPoint, and the first SELECT of activateOrCreateCatalogQr:
\* LIMIT 1, in no order.
FindActive(r) ==
  /\ pc[r] = "active"
  /\ \/ /\ ActiveOf(scope[r]) = {}
        /\ GoTo(r, IF op[r] = "enable" THEN "any" ELSE "done")
        /\ UNCHANGED <<target, answer>>
     \/ \E p \in ActiveOf(scope[r]) :
          IF op[r] = "enable"
            THEN GoTo(r, "done") /\ answer' = [answer EXCEPT ![r] = p] /\ UNCHANGED target
            ELSE GoTo(r, "write") /\ target' = [target EXCEPT ![r] = {p}] /\ UNCHANGED answer
  /\ UNCHANGED <<now, tableVars, op, scope, start, newest, overlaps>>

\* ORDER BY updated_at DESC, created_at DESC
Before(p, q) == \/ updated[p] < updated[q]
                \/ updated[p] = updated[q] /\ created[p] < created[q]
LatestOf(s) == {p \in PointsOf(s) : \A q \in PointsOf(s) : ~Before(p, q)}

\* The second SELECT: a point to reuse, the latest one of an item, any one of
\* the company; with none, a new one.
FindAny(r) ==
  /\ pc[r] = "any" /\ GoTo(r, "write")
  /\ \/ PointsOf(scope[r]) = {} /\ UNCHANGED target
     \/ \E p \in IF scope[r] = Company THEN PointsOf(Company) ELSE LatestOf(scope[r]) :
          target' = [target EXCEPT ![r] = {p}]
  /\ UNCHANGED <<now, tableVars, op, scope, start, answer, newest, overlaps>>

Rows_One(r) ==
  IF op[r] = "disable" /\ scope[r] \in Items /\ ActiveOf(scope[r]) # {}
    THEN {CHOOSE p \in ActiveOf(scope[r]) : TRUE} ELSE target[r]
\* deactivateCatalogQr finds its rows itself; the others write by id.
Rows(r) == IF op[r] = "disable" /\ scope[r] \in Items THEN ActiveOf(scope[r]) ELSE target[r]

StartWrite(r) ==
  /\ pc[r] = "write" /\ GoTo(r, "commit")
  /\ now' = now + 1
  /\ start' = [start EXCEPT ![r] = now']
  /\ target' = [target EXCEPT ![r] = Rows(r)]
  /\ UNCHANGED <<tableVars, op, scope, answer, newest, overlaps>>

\* Rows that another request changed meanwhile are looked at again.
StillMatching(r) ==
  IF op[r] = "disable" /\ scope[r] \in Items THEN target[r] \cap active ELSE target[r]

\* set_updated_at, and the default of a new row.
Touch(rows, t) == updated' = [p \in Requests |-> IF p \in rows THEN t ELSE updated[p]]

CommitEnable(r) ==
  /\ pc[r] = "commit" /\ op[r] = "enable" /\ GoTo(r, "done")
  /\ LET rows == IF target[r] = {} THEN {r} ELSE target[r] IN
       /\ points' = points \cup rows
       /\ active' = active \cup rows
       /\ created' = IF target[r] = {} THEN [created EXCEPT ![r] = start[r]] ELSE created
       /\ Touch(rows, start[r])
       /\ \E p \in rows : answer' = [answer EXCEPT ![r] = p]
  /\ UNCHANGED <<now, op, scope, target, start, newest, overlaps>>

CommitDisable(r) ==
  /\ pc[r] = "commit" /\ op[r] = "disable" /\ GoTo(r, "done")
  /\ active' = active \ StillMatching(r)
  /\ Touch(StillMatching(r), start[r])
  /\ UNCHANGED <<now, points, created, op, scope, target, start, answer, newest, overlaps>>

\* QrPointWriteError, or an error 500.
Fails(r) ==
  /\ r \in InFlight /\ GoTo(r, "failed")
  /\ UNCHANGED <<now, tableVars, op, scope, target, start, answer, newest, overlaps>>

Next ==
  \E r \in Requests :
    \/ Begin(r) \/ FindActive(r) \/ FindAny(r) \/ StartWrite(r)
    \/ CommitEnable(r) \/ CommitDisable(r) \/ Fails(r)

Spec == Init /\ [][Next]_vars

-----------------------------------------------------------------------------
(* Properties.                                                               *)

\* resolveQrCollectionPoint without an id: any active point of the scope.
Open(s) == \E p \in active : scope[p] = s
\* getQrCatalogController: the status of the latest point.
Shown(s) == \E p \in LatestOf(s) : p \in active

(* r has answered, nobody overlapped it, and nobody came after it.           *)
LastAlone(r) ==
  /\ pc[r] = "done" /\ newest[scope[r]] = r
  /\ \A q \in Requests : ~Together(q, r)

(* A scope gets a second point only by requests in progress together: alone, *)
(* enabling reuses what disabling left, and a printed code keeps working.    *)
TwinPointsMeanOverlap ==
  \A p, q \in points : p # q /\ scope[p] = scope[q] => Together(p, q)

(* Who disables an item, alone, has closed its form, twins included; and the *)
(* list of the catalog, which looks at one point while the form takes any,   *)
(* is wrong only after a disabling that overlapped an enabling.              *)
DisabledItemIsClosed ==
  /\ \A r \in Requests : LastAlone(r) /\ op[r] = "disable" /\ scope[r] \in Items => ~Open(scope[r])
  /\ \A s \in Items : Shown(s) # Open(s) =>
       \E d, e \in Requests : /\ op[d] = "disable" /\ op[e] = "enable"
                              /\ scope[d] = s /\ Together(d, e)

(* The API document on POST .../qr/disable: it disables the point of the     *)
(* company and answers active: false.                                        *)
DisabledCompanyIsClosed ==
  \A r \in Requests :
    LastAlone(r) /\ op[r] = "disable" /\ scope[r] = Company => ~Open(Company)
=============================================================================
