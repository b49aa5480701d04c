--------------------------- MODULE FeedbackTable ---------------------------
(***************************************************************************)
(* The tables the screens read, and everybody who writes them meanwhile:    *)
(* customers submit feedback, the AI analyses comments, managers create     *)
(* collection points.  The readers are FeedbackViews and FeedbackList.      *)
(*                                                                         *)
(* created_at is now(), the start of the transaction that inserts the       *)
(* feedback, so a feedback may become visible after a newer one.  Nothing   *)
(* here is ever deleted while the account exists.                           *)
(*                                                                         *)
(* One unit of time is a band of the day (six hours); two feedbacks of the  *)
(* same unit have the same created_at.  Time zones are whole units.         *)
(*                                                                         *)
(* An operator F_Bug is F with a plausible bug.  No specification uses it:  *)
(* put in the place of F, it shows that the properties notice.              *)
(***************************************************************************)
EXTENDS Integers, FiniteSets, Sequences

CONSTANTS
  Company,                \* whose manager reads
  FirstTick,              \* when a reader may begin
  Points, Items,          \* collection points and catalog items
  Owner, ItemOf, KindOf,  \* company of each, item of a point (or Null), kind of an item
  Null

Kinds == {"PRODUCT", "SERVICE", "DEPARTMENT"}
Channels == {"QR", "LINK", "NFC", "TEST", Null}
Comments == {"none", "short", "long"}

ASSUME CatalogIsWhole ==
  /\ DOMAIN Owner = Points \cup Items
  /\ \A p \in Points : ItemOf[p] # Null => ItemOf[p] \in Items /\ Owner[ItemOf[p]] = Owner[p]
  /\ KindOf \in [Items -> Kinds]
ASSUME TicksAreNumbers == FirstTick \in Int
\* NULL is no company, kind or item, and no list of points.
ASSUME NullIsNothing ==
  /\ Null \notin Kinds \cup {"COMPANY"} \cup Items
  /\ \A points \in SUBSET Points : Null # points
  /\ Null \notin Int

VARIABLES
  content,   \* the feedbacks of the run, numbered as their ids: [point, channel, comment, device]
  life,      \* of a feedback: "future", "open" (not committed) or "saved"
  created,   \* created_at
  analyzed,  \* the feedbacks with a row in feedback_analysis
  made,      \* the points and items that exist
  clock

Feedbacks == DOMAIN content

tableVars == <<content, life, created, analyzed, made, clock>>

\* What a run begins with: feedbacks to submit, numbered, and a catalog that is whole.
CanStart(c) ==
  /\ IsFiniteSet(DOMAIN c.content) /\ DOMAIN c.content \subseteq Nat
  /\ \A f \in DOMAIN c.content : c.content[f].point \in Points /\ c.content[f].channel \in Channels
  /\ \A p \in Points \cap c.made : ItemOf[p] \in c.made \cup {Null}

TableInit(c) ==
  /\ content = c.content /\ made = c.made
  /\ life = [f \in Feedbacks |-> "future"] /\ created = [f \in Feedbacks |-> 0]
  /\ analyzed = {} /\ clock = FirstTick

Saved == {f \in Feedbacks : life[f] = "saved"}
CompanyOf(f) == Owner[content[f].point]
HasComment(f) == content[f].comment # "none"

-----------------------------------------------------------------------------
(* Conditions of db/tenantScope.ts.                                          *)

NotTest(f) == content[f].channel # "TEST"

InPeriod(f, start, end) ==
  /\ start # Null => created[f] >= start
  /\ end # Null => created[f] < end

\* An empty list of points does not restrict: the caller must have returned.
ScopedFeedbackWhere(company, ids, start, end) ==
  {f \in Saved : /\ CompanyOf(f) = company /\ NotTest(f)
                 /\ ids \notin {Null, {}} => content[f].point \in ids
                 /\ InPeriod(f, start, end)}

PointsOfItem(company, item) ==
  {p \in Points \cap made : Owner[p] = company /\ ItemOf[p] = item}
PointsOfItems(company, items) ==
  {p \in Points \cap made : Owner[p] = company /\ (items # {} => ItemOf[p] \in items)}
ItemsOfKind(company, kind) ==
  {i \in Items \cap made : Owner[i] = company /\ KindOf[i] = kind}

-----------------------------------------------------------------------------
(* The writers.                                                              *)

Submit(f) ==
  /\ life[f] = "future" /\ content[f].point \in made
  /\ life' = [life EXCEPT ![f] = "open"]
  /\ created' = [created EXCEPT ![f] = clock]
  /\ UNCHANGED <<content, analyzed, made, clock>>

Commit(f) ==
  /\ life[f] = "open"
  /\ life' = [life EXCEPT ![f] = "saved"]
  /\ UNCHANGED <<content, created, analyzed, made, clock>>

\* Only written comments of customers are sent to the AI.
Analyze(f) ==
  /\ f \in Saved \ analyzed /\ HasComment(f) /\ NotTest(f)
  /\ analyzed' = analyzed \cup {f}
  /\ UNCHANGED <<content, life, created, made, clock>>

Make(x) ==
  /\ x \notin made
  /\ x \in Points => ItemOf[x] \in made \cup {Null}
  /\ made' = made \cup {x}
  /\ UNCHANGED <<content, life, created, analyzed, clock>>

Tick(last) ==
  /\ clock < last
  /\ clock' = clock + 1
  /\ UNCHANGED <<content, life, created, analyzed, made>>

Write(last) ==
  \/ \E f \in Feedbacks : Submit(f) \/ Commit(f) \/ Analyze(f)
  \/ \E x \in Points \cup Items : Make(x)
  \/ Tick(last)
=============================================================================
