--------------------------- MODULE ScreensProofs ---------------------------
(***************************************************************************)
(* What the screens show, for any feedback, points and items, any request   *)
(* and any writers in between.                                              *)
(*                                                                         *)
(* The table only grows (Grows).  FeedbackViews: ScopeInv and IdsInv say    *)
(* that the list of points found query by query covers what was there when  *)
(* the request began, and nothing that was not meant, so that each query    *)
(* lies between two sets of rows (Between); TodoInv keeps their order.  The *)
(* timeline: today is read after the rows (TodayInv), so every row is in a  *)
(* bucket between the first and the last, and the loop passes by them all.  *)
(*                                                                         *)
(* AnalysisSelection: LeftInv says who a limit may leave, BatchesInv that   *)
(* batches share no comment.  QuestionMetrics: MetricsInv says that the     *)
(* rows read are all answers of the feedbacks of the request, which no edit *)
(* changes.  FeedbackList: WalkInv gives a row that was not shown yet as    *)
(* many newer rows as the pages before have, and their number only grows.   *)
(***************************************************************************)
EXTENDS FeedbackViews, FeedbackList, QuestionMetrics, AnalysisSelection, FiniteSetTheorems,
        WellFoundedInduction, TLAPS

-----------------------------------------------------------------------------
(* FeedbackTable.                                                            *)

TableInv ==
  /\ IsFiniteSet(Feedbacks) /\ Feedbacks \subseteq Nat
  /\ \A f \in Feedbacks : content[f].point \in Points /\ content[f].channel \in Channels
  /\ life = [f \in Feedbacks |-> life[f]]
  /\ created \in [Feedbacks -> Int] /\ clock \in Int
  /\ \A p \in Points \cap made : ItemOf[p] \in made \cup {Null}
  /\ \A f \in Feedbacks : life[f] # "future" => content[f].point \in made
  /\ analyzed \subseteq {f \in Saved : HasComment(f) /\ NotTest(f)}

\* What is in the table stays there.
Grows ==
  /\ content' = content /\ made \subseteq made'
  /\ Saved \subseteq Saved' /\ analyzed \subseteq analyzed'
  /\ \A f \in Saved : created'[f] = created[f]

LEMMA TableStarts == ASSUME NEW c, CanStart(c), TableInit(c) PROVE TableInv
BY TicksAreNumbers DEF CanStart, TableInit, TableInv, Feedbacks, Saved

LEMMA TableKept ==
  ASSUME TableInv, NEW last, Write(last)
  PROVE  TableInv' /\ Grows
<1> USE DEF TableInv, Grows, Saved, Feedbacks, HasComment, NotTest
<1>1. ASSUME NEW f \in Feedbacks, Submit(f) PROVE TableInv' /\ Grows
  <2>1. life' = [life EXCEPT ![f] = "open"] /\ created' = [created EXCEPT ![f] = clock]
        /\ life[f] = "future" /\ content[f].point \in made /\ UNCHANGED <<content, analyzed, made, clock>>
    BY <1>1 DEF Submit
  <2>2. /\ life' = [g \in Feedbacks |-> life'[g]] /\ life'[f] = "open"
        /\ \A g \in Feedbacks \ {f} : life'[g] = life[g] /\ created'[g] = created[g]
    BY <2>1
  <2>3. created' \in [Feedbacks -> Int]
    BY <2>1
  <2>4. \A g \in Saved : g # f /\ life'[g] = "saved" /\ created'[g] = created[g]
    BY <2>1, <2>2
  <2> QED BY <2>1, <2>2, <2>3, <2>4
<1>2. CASE \E f \in Feedbacks : Commit(f)
  BY <1>2 DEF Commit
<1>3. CASE \E f \in Feedbacks : Analyze(f)
  BY <1>3 DEF Analyze
<1>4. CASE \E x \in Points \cup Items : Make(x)
  BY <1>4 DEF Make
<1>5. CASE Tick(last)
  BY <1>5 DEF Tick
<1> QED BY <1>1, <1>2, <1>3, <1>4, <1>5 DEF Write

LEMMA TableStays ==
  ASSUME TableInv, UNCHANGED tableVars
  PROVE  TableInv' /\ Grows
BY DEF TableInv, Grows, Saved, Feedbacks, HasComment, NotTest, tableVars

LEMMA SavedIsFinite == ASSUME TableInv, NEW S, S \subseteq Saved PROVE IsFiniteSet(S) /\ Cardinality(S) \in Nat
BY FS_Subset, FS_CardinalityType DEF TableInv, Saved

-----------------------------------------------------------------------------
(* FeedbackViews.                                                            *)

Running == outcome \in {"reading", "answered"}
Left == {todo[i] : i \in DOMAIN todo}

\* The points the request means: those of the company, of the chosen item or kind.
MeantPoints ==
  {p \in Points :
     /\ Owner[p] = Company
     /\ request.scope = "COMPANY" => ItemOf[p] = Null
     /\ request.scope \in Kinds => ItemOf[p] # Null /\ KindOf[ItemOf[p]] = request.scope
     /\ request.item # Null => ItemOf[p] = request.item}

RequestInv ==
  /\ request.scope \in Kinds \cup {"COMPANY", Null}
  /\ outcome \in {"idle", "reading", "answered", "refused", "failed"}
  /\ outcome \in {"idle", "answered"} => todo = <<>>
  /\ Running =>
       /\ before.saved \subseteq Saved /\ before.analyzed \subseteq analyzed \cap before.saved
       /\ request.kind = "heatmap" => request.tz \in Zones

QueriesOf(kind) ==
  CASE kind = "stats"     -> {"ratings", "analysis", "comments", "channels"}
    [] kind = "package"   -> {"ratings", "analysis", "comments", "channels", "count"}
    [] kind = "timeline"  -> {"rows", "today"}
    [] kind = "customers" -> {"visits", "devices"}
    [] OTHER              -> {"rows"}

\* What is left is asked in the order of the code, and nothing twice.
TodoInv ==
  /\ todo \in Seq({"items", "points"} \cup QueriesOf(request.kind))
  /\ \A i, j \in DOMAIN todo : todo[i] = todo[j] => i = j
  /\ \A i \in DOMAIN todo : todo[i] = "items" => i = 1 /\ Len(todo) > 1 /\ todo[2] = "points"
  /\ \A i \in DOMAIN todo : todo[i] = "points" => i = 1 \/ (i = 2 /\ todo[1] = "items")
  /\ \A i, j \in DOMAIN todo : todo[i] = "comments" /\ todo[j] = "analysis" => j < i
  /\ outcome = "reading" /\ "points" \in Left => QueriesOf(request.kind) \subseteq Left
  /\ outcome = "reading" /\ "comments" \notin Left /\ request.kind \in {"stats", "package"} => "analysis" \notin Left

\* Between the query of the items and that of the points.
ScopeInv ==
  \/ request.scope = "COMPANY" /\ request.item = Null
  \/ /\ request.item # Null
     /\ request.scope # Null =>
          /\ request.scope \in Kinds /\ request.item \in Items
          /\ KindOf[request.item] = request.scope
  \/ /\ request.scope \in Kinds /\ request.item = Null
     /\ found # {} /\ found \subseteq {i \in Items : KindOf[i] = request.scope}
     /\ \A f \in before.saved : content[f].point \in MeantPoints => ItemOf[content[f].point] \in found

\* The points cover what was there at the beginning, and nothing that is not meant.
IdsInv ==
  \/ ids = Null /\ request.scope = Null /\ request.item = Null
  \/ /\ ids \subseteq MeantPoints
     /\ \A f \in before.saved : content[f].point \in MeantPoints => content[f].point \in ids

PointsInv ==
  outcome = "reading" =>
    /\ "items" \notin Left /\ "points" \in Left => ScopeInv
    /\ "points" \notin Left => IdsInv

LEMMA MeantMeans == ASSUME NEW f \in Feedbacks, content[f].point \in Points
  PROVE Meant(f) <=> content[f].point \in MeantPoints /\ NotTest(f) /\ InPeriod(f, request.start, request.end)
BY DEF Meant, MeantPoints, CompanyOf

LEMMA MeaningKept ==
  ASSUME TableInv, Grows, request' = request, before' = before, before.saved \subseteq Saved
  PROVE  /\ MeantPoints' = MeantPoints
         /\ \A f \in Saved : Meant(f)' <=> Meant(f)
         /\ \A S : S \subseteq Saved => Meaning(S)' = Meaning(S)
         /\ Meaning(Saved) \subseteq Meaning(Saved)' /\ Meaning(analyzed) \subseteq Meaning(analyzed)'
<1>1. MeantPoints' = MeantPoints
  BY DEF MeantPoints
<1>2. ASSUME NEW f \in Saved PROVE Meant(f)' <=> Meant(f)
  BY <1>2 DEF Meant, CompanyOf, NotTest, InPeriod, Grows
<1>3. analyzed \subseteq Saved
  BY DEF TableInv
<1>4. ASSUME NEW S, S \subseteq Saved PROVE Meaning(S)' = Meaning(S)
  BY <1>2, <1>4 DEF Meaning
<1>5. Meaning(Saved) \subseteq Meaning(Saved)' /\ Meaning(analyzed) \subseteq Meaning(analyzed)'
  BY <1>2, <1>3 DEF Meaning, Grows
<1> QED BY <1>1, <1>2, <1>4, <1>5

\* What a query of the scope selects.
Between(S) == Meaning(before.saved) \subseteq S /\ S \subseteq Meaning(Saved)

LEMMA SelectIsBetween ==
  ASSUME TableInv, RequestInv, Running, IdsInv PROVE Between(Select)
<1>1. Saved \subseteq Feedbacks /\ before.saved \subseteq Saved
  BY DEF Saved, RequestInv
<1>2. ASSUME NEW f \in Saved
      PROVE  Meant(f) <=> content[f].point \in MeantPoints /\ NotTest(f) /\ InPeriod(f, request.start, request.end)
  BY <1>1, MeantMeans DEF TableInv
<1>3. CASE ids = Null /\ request.scope = Null /\ request.item = Null
  <2>1. Select = {f \in Saved : CompanyOf(f) = Company /\ NotTest(f) /\ InPeriod(f, request.start, request.end)}
    BY <1>3, NullIsNothing DEF Select, ScopedFeedbackWhere
  <2>2. \A f \in Saved : content[f].point \in MeantPoints <=> CompanyOf(f) = Company
    BY <1>1, <1>3, NullIsNothing DEF MeantPoints, CompanyOf, TableInv, Kinds
  <2> QED BY <1>1, <1>2, <2>1, <2>2 DEF Between, Meaning
<1>4. CASE /\ ids \subseteq MeantPoints
           /\ \A f \in before.saved : content[f].point \in MeantPoints => content[f].point \in ids
  <2>1. ids # Null
    BY <1>4, NullIsNothing DEF MeantPoints
  <2>2. Select = {f \in Saved : content[f].point \in ids /\ NotTest(f) /\ InPeriod(f, request.start, request.end)}
    BY <1>4, <2>1 DEF Select, ScopedFeedbackWhere, CompanyOf, MeantPoints
  <2> QED BY <1>1, <1>2, <1>4, <2>2 DEF Between, Meaning
<1> QED BY <1>3, <1>4 DEF IdsInv

LEMMA SelectGrows == ASSUME TableInv, Grows, ids' = ids, request' = request
  PROVE /\ Select \subseteq Select' /\ Select \subseteq Saved
        /\ Saved' = Saved => Select' = Select
BY DEF Select, ScopedFeedbackWhere, CompanyOf, NotTest, InPeriod, Grows

\* The first n queries are no longer left.
LEMMA TodoDrops ==
  ASSUME TodoInv, NEW n \in {1, 2}, n <= Len(todo),
         todo' = IF n = 1 THEN Tail(todo) ELSE SubSeq(todo, 3, Len(todo))
  PROVE  /\ todo' \in Seq({"items", "points"} \cup QueriesOf(request.kind))
         /\ Len(todo') = Len(todo) - n /\ DOMAIN todo' = 1 .. Len(todo) - n
         /\ \A i \in DOMAIN todo' : todo'[i] = todo[i + n] /\ i + n \in DOMAIN todo
         /\ Left' = Left \ {todo[i] : i \in 1 .. n}
<1> DEFINE Q == {"items", "points"} \cup QueriesOf(request.kind)
<1>0. todo \in Seq(Q) /\ DOMAIN todo = 1 .. Len(todo) /\ Len(todo) \in Nat
  BY DEF TodoInv
<1>1. todo' = SubSeq(todo, n + 1, Len(todo))
  BY <1>0
<1>2. todo' \in Seq(Q) /\ Len(todo') = Len(todo) - n
      /\ \A i \in 1 .. Len(todo) - n : todo'[i] = todo[i + n]
  BY <1>0, <1>1
<1>3. DOMAIN todo' = 1 .. Len(todo) - n
  BY <1>2
<1>4. Left' = Left \ {todo[i] : i \in 1 .. n}
  <2>1. ASSUME NEW q \in Left' PROVE q \in Left /\ \A i \in 1 .. n : q # todo[i]
    <3>1. PICK i \in 1 .. Len(todo) - n : q = todo[i + n]
      BY <2>1, <1>2, <1>3 DEF Left
    <3>2. i + n \in DOMAIN todo /\ \A j \in 1 .. n : j \in DOMAIN todo /\ j # i + n
      BY <3>1, <1>0
    <3>3. \A j \in 1 .. n : todo[j] # todo[i + n]
      BY <3>2 DEF TodoInv
    <3> QED BY <3>1, <3>2, <3>3 DEF Left
  <2>2. ASSUME NEW q \in Left, \A i \in 1 .. n : q # todo[i] PROVE q \in Left'
    <3>1. PICK i \in 1 .. Len(todo) : q = todo[i]
      BY <2>2, <1>0 DEF Left
    <3>2. i > n
      BY <3>1, <2>2, <1>0
    <3>3. i - n \in 1 .. Len(todo) - n /\ (i - n) + n = i
      BY <3>1, <3>2, <1>0
    <3>4. todo'[i - n] = q
      BY <3>1, <3>3, <1>2
    <3> QED BY <3>3, <3>4, <1>3 DEF Left
  <2> HIDE DEF Left
  <2> QED BY <2>1, <2>2, Zenon
<1>5. \A i \in DOMAIN todo' : todo'[i] = todo[i + n] /\ i + n \in DOMAIN todo
  <2> HIDE DEF Q
  <2> TAKE i \in DOMAIN todo'
  <2>1. i \in 1 .. Len(todo) - n
    BY <1>3
  <2>2. i + n \in 1 .. Len(todo)
    BY <1>0, <2>1
  <2> QED BY <1>0, <1>2, <2>1, <2>2
<1> HIDE DEF Q
<1>6. Len(todo') = Len(todo) - n /\ DOMAIN todo' = 1 .. Len(todo) - n
  BY <1>2, <1>3
<1>7. todo' \in Seq({"items", "points"} \cup QueriesOf(request.kind))
  BY <1>2 DEF Q
<1> QED BY <1>4, <1>5, <1>6, <1>7

LEMMA DoneDrops ==
  ASSUME TodoInv, NEW q, Doing(q), Done
  PROVE  /\ TodoInv' /\ Left' = Left \ {q} /\ q \in Left /\ outcome' = "reading"
         /\ q # "items" => "items" \notin Left
         /\ q \notin {"items", "points"} => "points" \notin Left
<1>1. /\ todo # <<>> /\ todo[1] = q /\ Len(todo) \in Nat /\ Len(todo) >= 1 /\ todo' = Tail(todo)
      /\ DOMAIN todo = 1 .. Len(todo) /\ outcome = "reading" /\ outcome' = outcome /\ request' = request
  BY DEF Doing, Done, TodoInv
<1>2. /\ todo' \in Seq({"items", "points"} \cup QueriesOf(request.kind))
      /\ Len(todo') = Len(todo) - 1 /\ DOMAIN todo' = 1 .. Len(todo) - 1
      /\ \A i \in DOMAIN todo' : todo'[i] = todo[i + 1] /\ i + 1 \in DOMAIN todo
      /\ Left' = Left \ {todo[i] : i \in 1 .. 1}
  BY <1>1, TodoDrops
<1>3. Left' = Left \ {q} /\ q \in Left
  <2>1. {todo[i] : i \in 1 .. 1} = {q} /\ 1 \in DOMAIN todo
    BY <1>1
  <2> QED BY <1>1, <1>2, <2>1 DEF Left
<1>4. /\ q # "items" => "items" \notin Left
      /\ q \notin {"items", "points"} => "points" \notin Left
  BY <1>1 DEF Left, TodoInv
<1>5. /\ \A i, j \in DOMAIN todo' : todo'[i] = todo'[j] => i = j
      /\ \A i \in DOMAIN todo' : todo'[i] # "items"
      /\ \A i \in DOMAIN todo' : todo'[i] = "points" => i = 1
      /\ \A i, j \in DOMAIN todo' : todo'[i] = "comments" /\ todo'[j] = "analysis" => j < i
  <2>1. \A i \in DOMAIN todo' : i \in Nat /\ i >= 1
    BY <1>1, <1>2
  <2> QED BY <1>1, <1>2, <2>1 DEF TodoInv
<1>6. "points" \in Left' => QueriesOf(request.kind) \subseteq Left'
  BY <1>1, <1>3, <1>4 DEF TodoInv, QueriesOf
<1>7. "comments" \notin Left' /\ request.kind \in {"stats", "package"} => "analysis" \notin Left'
  <2>1. ASSUME q = "comments", "analysis" \in Left PROVE FALSE
    BY <1>1, <2>1 DEF Left, TodoInv
  <2> QED BY <1>1, <1>3, <2>1 DEF TodoInv
<1> QED BY <1>1, <1>2, <1>3, <1>4, <1>5, <1>6, <1>7 DEF TodoInv

LEMMA ScopeDrops ==
  ASSUME TodoInv, Doing("items"), NEW set, ScopeSettled(set)
  PROVE  TodoInv' /\ Left' = Left \ {"items", "points"} /\ {"items", "points"} \subseteq Left
         /\ outcome' = "reading"
<1>1. /\ todo # <<>> /\ todo[1] = "items" /\ Len(todo) \in Nat /\ Len(todo) >= 2 /\ todo[2] = "points"
      /\ todo' = SubSeq(todo, 3, Len(todo))
      /\ DOMAIN todo = 1 .. Len(todo) /\ outcome = "reading" /\ outcome' = outcome /\ request' = request
  BY DEF Doing, ScopeSettled, TodoInv
<1>2. /\ todo' \in Seq({"items", "points"} \cup QueriesOf(request.kind))
      /\ Len(todo') = Len(todo) - 2 /\ DOMAIN todo' = 1 .. Len(todo) - 2
      /\ \A i \in DOMAIN todo' : todo'[i] = todo[i + 2] /\ i + 2 \in DOMAIN todo
      /\ Left' = Left \ {todo[i] : i \in 1 .. 2}
  BY <1>1, TodoDrops
<1>3. Left' = Left \ {"items", "points"} /\ {"items", "points"} \subseteq Left
  <2>1. {todo[i] : i \in 1 .. 2} = {todo[1], todo[2]} /\ 1 \in DOMAIN todo /\ 2 \in DOMAIN todo
    BY <1>1
  <2> QED BY <1>1, <1>2, <2>1 DEF Left
<1>5. /\ \A i, j \in DOMAIN todo' : todo'[i] = todo'[j] => i = j
      /\ \A i \in DOMAIN todo' : todo'[i] \notin {"items", "points"}
      /\ \A i, j \in DOMAIN todo' : todo'[i] = "comments" /\ todo'[j] = "analysis" => j < i
  <2>1. \A i \in DOMAIN todo' : i \in Nat /\ i >= 1
    BY <1>1, <1>2
  <2> QED BY <1>1, <1>2, <2>1 DEF TodoInv
<1> QED BY <1>1, <1>2, <1>3, <1>5 DEF TodoInv

BaseInv == TableInv /\ RequestInv /\ TodoInv /\ PointsInv

\* A list of queries, whatever it is: each is there, once, and the comments are
\* read after what is analysed.
Ordered(p, Q) ==
  /\ p \in Seq(Q)
  /\ \A q \in Q : \E i \in DOMAIN p : p[i] = q
  /\ \A i, j \in DOMAIN p : p[i] = p[j] => i = j
  /\ \A i, j \in DOMAIN p : p[i] = "comments" /\ p[j] = "analysis" => j < i

LEMMA StatsOrdered == Ordered(<<"ratings", "analysis", "comments", "channels">>, {"ratings", "analysis", "comments", "channels"})
<1> DEFINE p == <<"ratings", "analysis", "comments", "channels">>
<1>1. /\ DOMAIN p = {1, 2, 3, 4}
      /\ p[1] = "ratings" /\ p[2] = "analysis" /\ p[3] = "comments" /\ p[4] = "channels"
  OBVIOUS
<1>2. p \in Seq({"ratings", "analysis", "comments", "channels"})
  OBVIOUS
<1> HIDE DEF p
<1>3. \A q \in {"ratings", "analysis", "comments", "channels"} : \E i \in DOMAIN p : p[i] = q
  BY <1>1, Zenon
<1>4. \A i, j \in DOMAIN p : p[i] = p[j] => i = j
  BY <1>1
<1>5. \A i, j \in DOMAIN p : p[i] = "comments" /\ p[j] = "analysis" => j < i
  BY <1>1
<1>6. Ordered(p, {"ratings", "analysis", "comments", "channels"})
  BY <1>2, <1>3, <1>4, <1>5, Zenon DEF Ordered
<1> QED BY <1>6 DEF p

LEMMA PackageOrdered == Ordered(<<"ratings", "analysis", "comments", "channels", "count">>, {"ratings", "analysis", "comments", "channels", "count"})
<1> DEFINE p == <<"ratings", "analysis", "comments", "channels", "count">>
<1>1. /\ DOMAIN p = {1, 2, 3, 4, 5}
      /\ p[1] = "ratings" /\ p[2] = "analysis" /\ p[3] = "comments" /\ p[4] = "channels" /\ p[5] = "count"
  OBVIOUS
<1>2. p \in Seq({"ratings", "analysis", "comments", "channels", "count"})
  OBVIOUS
<1> HIDE DEF p
<1>3. \A q \in {"ratings", "analysis", "comments", "channels", "count"} : \E i \in DOMAIN p : p[i] = q
  BY <1>1, Zenon
<1>4. \A i, j \in DOMAIN p : p[i] = p[j] => i = j
  BY <1>1
<1>5. \A i, j \in DOMAIN p : p[i] = "comments" /\ p[j] = "analysis" => j < i
  BY <1>1
<1>6. Ordered(p, {"ratings", "analysis", "comments", "channels", "count"})
  BY <1>2, <1>3, <1>4, <1>5, Zenon DEF Ordered
<1> QED BY <1>6 DEF p

LEMMA PackageOrderedToo == Ordered(<<"count", "ratings", "analysis", "comments", "channels">>, {"count", "ratings", "analysis", "comments", "channels"})
<1> DEFINE p == <<"count", "ratings", "analysis", "comments", "channels">>
<1>1. /\ DOMAIN p = {1, 2, 3, 4, 5}
      /\ p[1] = "count" /\ p[2] = "ratings" /\ p[3] = "analysis" /\ p[4] = "comments" /\ p[5] = "channels"
  OBVIOUS
<1>2. p \in Seq({"count", "ratings", "analysis", "comments", "channels"})
  OBVIOUS
<1> HIDE DEF p
<1>3. \A q \in {"count", "ratings", "analysis", "comments", "channels"} : \E i \in DOMAIN p : p[i] = q
  BY <1>1, Zenon
<1>4. \A i, j \in DOMAIN p : p[i] = p[j] => i = j
  BY <1>1
<1>5. \A i, j \in DOMAIN p : p[i] = "comments" /\ p[j] = "analysis" => j < i
  BY <1>1
<1>6. Ordered(p, {"count", "ratings", "analysis", "comments", "channels"})
  BY <1>2, <1>3, <1>4, <1>5, Zenon DEF Ordered
<1> QED BY <1>6 DEF p

LEMMA TimelineOrdered == Ordered(<<"rows", "today">>, {"rows", "today"})
<1> DEFINE p == <<"rows", "today">>
<1>1. /\ DOMAIN p = {1, 2}
      /\ p[1] = "rows" /\ p[2] = "today"
  OBVIOUS
<1>2. p \in Seq({"rows", "today"})
  OBVIOUS
<1> HIDE DEF p
<1>3. \A q \in {"rows", "today"} : \E i \in DOMAIN p : p[i] = q
  BY <1>1, Zenon
<1>4. \A i, j \in DOMAIN p : p[i] = p[j] => i = j
  BY <1>1
<1>5. \A i, j \in DOMAIN p : p[i] = "comments" /\ p[j] = "analysis" => j < i
  BY <1>1
<1>6. Ordered(p, {"rows", "today"})
  BY <1>2, <1>3, <1>4, <1>5, Zenon DEF Ordered
<1> QED BY <1>6 DEF p

LEMMA CustomersOrdered == Ordered(<<"visits", "devices">>, {"visits", "devices"})
<1> DEFINE p == <<"visits", "devices">>
<1>1. /\ DOMAIN p = {1, 2}
      /\ p[1] = "visits" /\ p[2] = "devices"
  OBVIOUS
<1>2. p \in Seq({"visits", "devices"})
  OBVIOUS
<1> HIDE DEF p
<1>3. \A q \in {"visits", "devices"} : \E i \in DOMAIN p : p[i] = q
  BY <1>1, Zenon
<1>4. \A i, j \in DOMAIN p : p[i] = p[j] => i = j
  BY <1>1
<1>5. \A i, j \in DOMAIN p : p[i] = "comments" /\ p[j] = "analysis" => j < i
  BY <1>1
<1>6. Ordered(p, {"visits", "devices"})
  BY <1>2, <1>3, <1>4, <1>5, Zenon DEF Ordered
<1> QED BY <1>6 DEF p

LEMMA CustomersOrderedToo == Ordered(<<"devices", "visits">>, {"devices", "visits"})
<1> DEFINE p == <<"devices", "visits">>
<1>1. /\ DOMAIN p = {1, 2}
      /\ p[1] = "devices" /\ p[2] = "visits"
  OBVIOUS
<1>2. p \in Seq({"devices", "visits"})
  OBVIOUS
<1> HIDE DEF p
<1>3. \A q \in {"devices", "visits"} : \E i \in DOMAIN p : p[i] = q
  BY <1>1, Zenon
<1>4. \A i, j \in DOMAIN p : p[i] = p[j] => i = j
  BY <1>1
<1>5. \A i, j \in DOMAIN p : p[i] = "comments" /\ p[j] = "analysis" => j < i
  BY <1>1
<1>6. Ordered(p, {"devices", "visits"})
  BY <1>2, <1>3, <1>4, <1>5, Zenon DEF Ordered
<1> QED BY <1>6 DEF p

LEMMA RowsOrdered == Ordered(<<"rows">>, {"rows"})
<1> DEFINE p == <<"rows">>
<1>1. /\ DOMAIN p = {1}
      /\ p[1] = "rows"
  OBVIOUS
<1>2. p \in Seq({"rows"})
  OBVIOUS
<1> HIDE DEF p
<1>3. \A q \in {"rows"} : \E i \in DOMAIN p : p[i] = q
  BY <1>1, Zenon
<1>4. \A i, j \in DOMAIN p : p[i] = p[j] => i = j
  BY <1>1
<1>5. \A i, j \in DOMAIN p : p[i] = "comments" /\ p[j] = "analysis" => j < i
  BY <1>1
<1>6. Ordered(p, {"rows"})
  BY <1>2, <1>3, <1>4, <1>5, Zenon DEF Ordered
<1> QED BY <1>6 DEF p

LEMMA PlanShape == ASSUME NEW p \in Plan(request.kind) PROVE Ordered(p, QueriesOf(request.kind))
<1>1. CASE request.kind = "stats"
  <2>1. QueriesOf(request.kind) = {"ratings", "analysis", "comments", "channels"}
    BY <1>1 DEF QueriesOf
  <2>2. p = <<"ratings", "analysis", "comments", "channels">>
    BY <1>1 DEF Plan, StatsPlan
  <2> QED BY <2>1, <2>2, StatsOrdered, Zenon
<1>2. CASE request.kind = "package"
  <2>1. QueriesOf(request.kind) = {"ratings", "analysis", "comments", "channels", "count"}
    BY <1>2 DEF QueriesOf
  <2>2. p = <<"ratings", "analysis", "comments", "channels", "count">> \/ p = <<"count", "ratings", "analysis", "comments", "channels">>
    BY <1>2 DEF Plan, StatsPlan
  <2> QED BY <2>1, <2>2, PackageOrdered, PackageOrderedToo, Zenon
<1>3. CASE request.kind = "timeline"
  <2>1. QueriesOf(request.kind) = {"rows", "today"}
    BY <1>3 DEF QueriesOf
  <2>2. p = <<"rows", "today">>
    BY <1>3 DEF Plan, TimelinePlan
  <2> QED BY <2>1, <2>2, TimelineOrdered, Zenon
<1>4. CASE request.kind = "customers"
  <2>1. QueriesOf(request.kind) = {"visits", "devices"}
    BY <1>4 DEF QueriesOf
  <2>2. p = <<"visits", "devices">> \/ p = <<"devices", "visits">>
    BY <1>4 DEF Plan
  <2> QED BY <2>1, <2>2, CustomersOrdered, CustomersOrderedToo, Zenon
<1>5. CASE request.kind \notin {"stats", "package", "timeline", "customers"}
  <2>1. QueriesOf(request.kind) = {"rows"}
    BY <1>5 DEF QueriesOf
  <2>2. p = <<"rows">>
    BY <1>5 DEF Plan
  <2> QED BY <2>1, <2>2, RowsOrdered, Zenon
<1> QED BY <1>1, <1>2, <1>3, <1>4, <1>5

LEMMA ViewsBaseInit == ViewsInit => BaseInv
<1> SUFFICES ASSUME ViewsInit PROVE BaseInv
  OBVIOUS
<1>1. PICK c \in Cases : request = c.request /\ TableInit(c)
  BY DEF ViewsInit
<1>2. TableInv
  BY <1>1, CasesAssumption, TableStarts
<1>3. RequestInv /\ TodoInv /\ PointsInv
  BY <1>1, CasesAssumption DEF ViewsInit, RequestInv, TodoInv, PointsInv, Running, Left
<1> QED BY <1>2, <1>3 DEF BaseInv

LEMMA AskBase == ASSUME BaseInv, Ask PROVE BaseInv' /\ (outcome' = "reading" => "points" \in Left')
<1>1. TableInv' /\ Grows
  BY TableStays DEF BaseInv, Ask
<1>2. request' = request /\ analyzed \subseteq Saved /\ Saved' = Saved /\ analyzed' = analyzed
  BY DEF Ask, BaseInv, TableInv, tableVars, Saved, Feedbacks
<1>3. CASE outcome' = "refused" /\ UNCHANGED todo
  BY <1>1, <1>2, <1>3 DEF BaseInv, RequestInv, TodoInv, PointsInv, Running, Left
<1>4. CASE /\ outcome' = "reading" /\ ~BadTimeline
           /\ \E p \in Plan(request.kind) : todo' = <<"items", "points">> \o p
  <2>1. PICK p \in Plan(request.kind) : todo' = <<"items", "points">> \o p
    BY <1>4
  <2> DEFINE Q == QueriesOf(request.kind)
  <2>2. /\ p \in Seq(Q) /\ Len(p) \in Nat
        /\ \A q \in Q : \E i \in DOMAIN p : p[i] = q
        /\ \A i, j \in DOMAIN p : p[i] = p[j] => i = j
        /\ \A i, j \in DOMAIN p : p[i] = "comments" /\ p[j] = "analysis" => j < i
        /\ \A i \in DOMAIN p : p[i] \notin {"items", "points"}
    <3>1. Ordered(p, Q)
      BY PlanShape
    <3>2. QueriesOf(request.kind) \cap {"items", "points"} = {}
      BY DEF QueriesOf
    <3> QED BY <3>1, <3>2 DEF Ordered
  <2> HIDE DEF Q
  <2>3. /\ Len(todo') = Len(p) + 2 /\ todo' \in Seq({"items", "points"} \cup Q)
        /\ DOMAIN todo' = 1 .. Len(p) + 2 /\ DOMAIN p = 1 .. Len(p)
        /\ todo'[1] = "items" /\ todo'[2] = "points"
        /\ \A i \in 1 .. Len(p) + 2 : i > 2 => todo'[i] = p[i - 2] /\ i - 2 \in DOMAIN p
    BY <2>1, <2>2
  <2>4. /\ \A i, j \in DOMAIN todo' : todo'[i] = todo'[j] => i = j
        /\ \A i \in DOMAIN todo' : todo'[i] = "items" => i = 1
        /\ \A i \in DOMAIN todo' : todo'[i] = "points" => i = 2
        /\ \A i, j \in DOMAIN todo' : todo'[i] = "comments" /\ todo'[j] = "analysis" => j < i
    <3>1. \A i \in DOMAIN todo' : i = 1 \/ i = 2 \/ (i > 2 /\ i - 2 \in DOMAIN p /\ todo'[i] = p[i - 2])
      BY <2>2, <2>3
    <3>2. \A i \in DOMAIN todo' : i \in Nat
      BY <2>3
    <3>3. \A i \in DOMAIN todo' : i > 2 => todo'[i] \notin {"items", "points"}
      BY <2>2, <2>3
    <3>4. /\ \A i \in DOMAIN todo' : todo'[i] = "items" => i = 1
          /\ \A i \in DOMAIN todo' : todo'[i] = "points" => i = 2
      BY <2>3, <3>1, <3>2, <3>3
    <3>5. \A i, j \in DOMAIN todo' : todo'[i] = todo'[j] => i = j
      <4>1. SUFFICES ASSUME NEW i \in DOMAIN todo', NEW j \in DOMAIN todo', todo'[i] = todo'[j], i > 2, j > 2
                     PROVE  i = j
        BY <2>3, <3>1, <3>2, <3>4
      <4>2. p[i - 2] = p[j - 2] /\ i - 2 \in DOMAIN p /\ j - 2 \in DOMAIN p
        BY <2>3, <4>1
      <4>3. i - 2 = j - 2
        BY <2>2, <4>2
      <4> QED BY <4>3, <3>2
    <3>6. \A i, j \in DOMAIN todo' : todo'[i] = "comments" /\ todo'[j] = "analysis" => j < i
      <4>1. SUFFICES ASSUME NEW i \in DOMAIN todo', NEW j \in DOMAIN todo',
                            todo'[i] = "comments", todo'[j] = "analysis"
                     PROVE  j < i
        OBVIOUS
      <4>2. i > 2 /\ j > 2
        BY <2>3, <3>1, <4>1
      <4>3. p[i - 2] = "comments" /\ p[j - 2] = "analysis" /\ i - 2 \in DOMAIN p /\ j - 2 \in DOMAIN p
        BY <2>3, <4>1, <4>2
      <4>4. j - 2 < i - 2
        BY <2>2, <4>3
      <4> QED BY <4>4, <3>2
    <3> QED BY <3>4, <3>5, <3>6
  <2>5. Q \cup {"items", "points"} \subseteq Left'
    <3>1. ASSUME NEW q \in Q PROVE q \in Left'
      <4>1. PICK i \in DOMAIN p : p[i] = q
        BY <2>2
      <4>2. i + 2 \in DOMAIN todo' /\ todo'[i + 2] = p[i]
        BY <2>2, <2>3
      <4> QED BY <4>1, <4>2 DEF Left
    <3>2. 1 \in DOMAIN todo' /\ 2 \in DOMAIN todo'
      BY <2>2, <2>3
    <3> QED BY <2>3, <3>1, <3>2 DEF Left
  <2>6. TodoInv'
    <3>1. request.kind \in {"stats", "package"} => "comments" \in Q
      BY DEF Q, QueriesOf
    <3>2. Len(todo') > 1
      BY <2>2, <2>3
    <3>3. Q = QueriesOf(request.kind)
      BY DEF Q
    <3>4. \A i \in DOMAIN todo' : /\ todo'[i] = "items" => i = 1 /\ Len(todo') > 1 /\ todo'[2] = "points"
                                  /\ todo'[i] = "points" => i = 1 \/ (i = 2 /\ todo'[1] = "items")
      BY <2>3, <2>4, <3>2
    <3> QED BY <1>2, <2>3, <2>4, <2>5, <3>1, <3>3, <3>4 DEF TodoInv
  <2>7. RequestInv'
    BY <1>1, <1>2, <1>4 DEF BaseInv, RequestInv, Running, Ask, BadTimeline, Saved, Feedbacks, TableInv
  <2>8. PointsInv'
    BY <2>5 DEF PointsInv
  <2> QED BY <1>1, <2>5, <2>6, <2>7, <2>8 DEF BaseInv
<1> QED BY <1>3, <1>4 DEF Ask

\* Nobody's points or items disappear under a request that is being answered.
LEMMA ScopeKept ==
  ASSUME TableInv, Grows, request' = request, before' = before, before.saved \subseteq Saved, found' = found
  PROVE  /\ ScopeInv => ScopeInv'
         /\ IdsInv /\ ids' = ids => IdsInv'
<1>1. MeantPoints' = MeantPoints /\ content' = content
  BY DEF MeantPoints, Grows
<1>2. ScopeInv => ScopeInv'
  BY <1>1 DEF ScopeInv
<1> QED BY <1>1, <1>2 DEF IdsInv

LEMMA WritesBase == ASSUME BaseInv, Write(request.last), UNCHANGED viewVars PROVE BaseInv' /\ Grows
<1>1. TableInv' /\ Grows
  BY TableKept DEF BaseInv
<1>2. UNCHANGED <<request, outcome, todo, ids, found, got, before>>
  BY DEF viewVars
<1>3. RequestInv' /\ TodoInv'
  BY <1>1, <1>2 DEF BaseInv, RequestInv, TodoInv, Left, Running, Grows
<1>4. outcome = "reading" => before.saved \subseteq Saved
  BY DEF BaseInv, RequestInv, Running
<1>5. PointsInv'
  BY <1>1, <1>2, <1>4, ScopeKept DEF BaseInv, PointsInv, Left
<1> QED BY <1>1, <1>3, <1>5 DEF BaseInv

\* What a step that only reads leaves as it was.
LEMMA ReadsKeep ==
  ASSUME BaseInv, outcome = "reading", outcome' = "reading", UNCHANGED <<request, before, tableVars>>
  PROVE  /\ TableInv' /\ Grows /\ RequestInv' /\ MeantPoints' = MeantPoints
         /\ content' = content /\ made' = made /\ Saved' = Saved /\ analyzed' = analyzed
         /\ before.saved \subseteq Saved
<1>1. TableInv' /\ Grows
  BY TableStays DEF BaseInv
<1>2. content' = content /\ made' = made /\ Saved' = Saved /\ analyzed' = analyzed
  BY DEF tableVars, Saved, Feedbacks
<1>3. RequestInv'
  BY <1>2 DEF BaseInv, RequestInv, Running
<1> QED BY <1>1, <1>2, <1>3 DEF MeantPoints, BaseInv, RequestInv, Running

\* Where the feedbacks that were there are: at a point that exists, of an item that exists.
LEMMA MadeBefore ==
  ASSUME TableInv, before.saved \subseteq Saved, NEW f \in before.saved
  PROVE  /\ content[f].point \in Points \cap made
         /\ ItemOf[content[f].point] \in made \cup {Null}
         /\ ItemOf[content[f].point] # Null =>
              /\ ItemOf[content[f].point] \in Items
              /\ Owner[ItemOf[content[f].point]] = Owner[content[f].point]
BY CatalogIsWhole DEF TableInv, Saved

LEMMA SettledBase ==
  ASSUME BaseInv, Doing("items"), NEW set, ScopeSettled(set),
         IdsInv' 
  PROVE  BaseInv' /\ Grows
<1>1. TodoInv' /\ Left' = Left \ {"items", "points"} /\ outcome' = "reading"
  BY ScopeDrops DEF BaseInv
<1>2. TableInv' /\ Grows /\ RequestInv'
  BY <1>1, ReadsKeep DEF Doing, ScopeSettled
<1> QED BY <1>1, <1>2 DEF BaseInv, PointsInv

LEMMA WholeCompanyBase == ASSUME BaseInv, WholeCompany PROVE BaseInv' /\ Grows
<1>1. Doing("items") /\ ScopeSettled(Null)
  BY DEF WholeCompany
<1>2. IdsInv'
  BY DEF WholeCompany, ScopeSettled, IdsInv
<1> QED BY <1>1, <1>2, SettledBase

\* A scope that no point of before can be in.
LEMMA EmptyScopeBase ==
  ASSUME BaseInv, Doing("items"), ScopeSettled({}),
         \A f \in before.saved : content[f].point \notin MeantPoints
  PROVE  BaseInv' /\ Grows
<1>1. outcome' = "reading" /\ outcome = "reading" /\ UNCHANGED <<request, before, tableVars>> /\ ids' = {}
  BY DEF Doing, ScopeSettled
<1>2. MeantPoints' = MeantPoints /\ content' = content
  BY <1>1, ReadsKeep
<1>3. IdsInv'
  BY <1>1, <1>2 DEF IdsInv
<1> QED BY <1>3, SettledBase

LEMMA ItemOfCompanyBase == ASSUME BaseInv, ItemOfCompany PROVE BaseInv' /\ Grows
<1>1. MeantPoints = {}
  BY DEF ItemOfCompany, MeantPoints
<1> QED BY <1>1, EmptyScopeBase DEF ItemOfCompany

\* No item of the kind existed when the feedbacks came.
LEMMA KindMeant ==
  ASSUME BaseInv, outcome = "reading", request.scope \in Kinds,
         NEW f \in before.saved, content[f].point \in MeantPoints
  PROVE  ItemOf[content[f].point] \in ItemsOfKind(Company, request.scope)
<1>1. before.saved \subseteq Saved /\ TableInv
  BY DEF BaseInv, RequestInv, Running
<1>2. ItemOf[content[f].point] \in made \cup {Null}
      /\ (ItemOf[content[f].point] # Null => /\ ItemOf[content[f].point] \in Items
              /\ Owner[ItemOf[content[f].point]] = Owner[content[f].point])
  BY <1>1, MadeBefore
<1> QED BY <1>2 DEF MeantPoints, ItemsOfKind

LEMMA ItemOfAnotherKindBase == ASSUME BaseInv, ItemOfAnotherKind PROVE BaseInv' /\ Grows
<1>1. \A f \in before.saved : content[f].point \notin MeantPoints
  BY KindMeant DEF ItemOfAnotherKind, MeantPoints, Doing
<1> QED BY <1>1, EmptyScopeBase DEF ItemOfAnotherKind

LEMMA KindWithoutItemsBase == ASSUME BaseInv, KindWithoutItems PROVE BaseInv' /\ Grows
<1>1. \A f \in before.saved : content[f].point \notin MeantPoints
  BY KindMeant DEF KindWithoutItems, Doing
<1> QED BY <1>1, EmptyScopeBase DEF KindWithoutItems

LEMMA ReadItemsBase == ASSUME BaseInv, ReadItems PROVE BaseInv' /\ Grows
<1>1. Doing("items") /\ Done /\ ids' = ids
  BY DEF ReadItems
<1>2. /\ TodoInv' /\ Left' = Left \ {"items"} /\ "items" \in Left /\ outcome' = "reading" /\ outcome = "reading"
      /\ UNCHANGED <<request, before, tableVars>>
  BY <1>1, DoneDrops DEF BaseInv, Doing, Done
<1>3. "points" \in Left'
  <2>1. 1 \in DOMAIN todo /\ todo[1] = "items" /\ TodoInv
    BY <1>1 DEF Doing, BaseInv, TodoInv
  <2>2. Len(todo) > 1 /\ todo[2] = "points" /\ 2 \in DOMAIN todo
    BY <2>1 DEF TodoInv
  <2> QED BY <1>2, <2>2 DEF Left
<1>4. /\ TableInv' /\ Grows /\ RequestInv' /\ MeantPoints' = MeantPoints
      /\ content' = content /\ made' = made /\ before.saved \subseteq Saved
  BY <1>2, ReadsKeep
<1>5. ScopeInv'
  <2>1. CASE request.scope = "COMPANY" /\ request.item = Null
    BY <1>2, <2>1 DEF ScopeInv
  <2>2. CASE /\ request.item # Null
             /\ request.scope # Null => request.scope \in Kinds
                                        /\ request.item \in ItemsOfKind(Company, request.scope)
    BY <1>2, <2>2 DEF ScopeInv, ItemsOfKind
  <2>3. CASE /\ request.scope \in Kinds /\ request.item = Null
             /\ found' = ItemsOfKind(Company, request.scope) /\ found' # {}
    <3>1. \A f \in before.saved : content[f].point \in MeantPoints => ItemOf[content[f].point] \in found'
      BY <1>2, <2>3, KindMeant
    <3>2. found' \subseteq {i \in Items : KindOf[i] = request.scope}
      BY <2>3 DEF ItemsOfKind
    <3> QED BY <1>2, <1>4, <2>3, <3>1, <3>2 DEF ScopeInv
  <2> QED BY <2>1, <2>2, <2>3 DEF ReadItems
<1> QED BY <1>2, <1>3, <1>4, <1>5 DEF BaseInv, PointsInv

LEMMA ReadPointsBase == ASSUME BaseInv, ReadPoints PROVE BaseInv' /\ Grows
<1>1. Doing("points") /\ Done /\ found' = found
  BY DEF ReadPoints
<1>2. /\ TodoInv' /\ Left' = Left \ {"points"} /\ "points" \in Left /\ "items" \notin Left
      /\ outcome' = "reading" /\ outcome = "reading" /\ UNCHANGED <<request, before, tableVars>>
  BY <1>1, DoneDrops DEF BaseInv, Doing, Done
<1>3. /\ TableInv' /\ Grows /\ RequestInv' /\ MeantPoints' = MeantPoints
      /\ content' = content /\ made' = made /\ before.saved \subseteq Saved
  BY <1>2, ReadsKeep
<1>4. ScopeInv /\ TableInv
  BY <1>2 DEF BaseInv, PointsInv
<1>5. \A f \in before.saved : content[f].point \in Points \cap made
  BY <1>3, <1>4, MadeBefore
<1>6. ids' \subseteq MeantPoints /\ \A f \in before.saved : content[f].point \in MeantPoints => content[f].point \in ids'
  <2>1. CASE request.scope = "COMPANY" /\ request.item = Null
    <3>1. ids' = PointsOfItem(Company, Null)
      BY <2>1 DEF ReadPoints, Kinds
    <3> QED BY <1>5, <2>1, <3>1 DEF PointsOfItem, MeantPoints, Kinds
  <2>2. CASE /\ request.item # Null
             /\ request.scope # Null =>
                  /\ request.scope \in Kinds /\ request.item \in Items
                  /\ KindOf[request.item] = request.scope
    <3>1. ids' = PointsOfItem(Company, request.item)
      BY <2>2 DEF ReadPoints
    <3> QED BY <1>5, <2>2, <3>1, NullIsNothing DEF PointsOfItem, MeantPoints, Kinds
  <2>3. CASE /\ request.scope \in Kinds /\ request.item = Null
             /\ found # {} /\ found \subseteq {i \in Items : KindOf[i] = request.scope}
             /\ \A f \in before.saved : content[f].point \in MeantPoints => ItemOf[content[f].point] \in found
    <3>1. ids' = PointsOfItems(Company, found)
      BY <2>3 DEF ReadPoints
    <3>2. Null \notin found
      BY <2>3, NullIsNothing
    <3> QED BY <1>5, <2>3, <3>1, <3>2 DEF PointsOfItems, MeantPoints, Kinds
  <2> QED BY <1>4, <2>1, <2>2, <2>3 DEF ScopeInv
<1>7. IdsInv'
  BY <1>2, <1>3, <1>6 DEF IdsInv
<1> QED BY <1>2, <1>3, <1>7 DEF BaseInv, PointsInv

LEMMA QueryBase ==
  ASSUME BaseInv, NEW q, q \notin {"items", "points"}, Doing(q), Done, UNCHANGED <<ids, found>>
  PROVE  /\ BaseInv' /\ Grows /\ IdsInv /\ Left' = Left \ {q} /\ q \in Left
         /\ "points" \notin Left
         /\ outcome = "reading" /\ outcome' = "reading" /\ UNCHANGED <<request, before, tableVars>>
         /\ Saved' = Saved /\ analyzed' = analyzed /\ before.saved \subseteq Saved
<1>1. /\ TodoInv' /\ Left' = Left \ {q} /\ outcome' = "reading" /\ outcome = "reading"
      /\ q \in Left /\ "items" \notin Left /\ "points" \notin Left
      /\ UNCHANGED <<request, before, tableVars>>
  BY DoneDrops DEF BaseInv, Doing, Done
<1>2. /\ TableInv' /\ Grows /\ RequestInv' /\ MeantPoints' = MeantPoints /\ content' = content
      /\ before.saved \subseteq Saved /\ Saved' = Saved /\ analyzed' = analyzed
  BY <1>1, ReadsKeep
<1>3. IdsInv
  BY <1>1 DEF BaseInv, PointsInv
<1>4. IdsInv'
  BY <1>1, <1>2, <1>3 DEF IdsInv
<1> QED BY <1>1, <1>2, <1>3, <1>4 DEF BaseInv, PointsInv

-----------------------------------------------------------------------------
(* What the queries returned.                                                *)

BetweenAnalyzed(S) == Meaning(before.analyzed) \subseteq S /\ S \subseteq Meaning(analyzed)
Commented(S) == {f \in S : HasComment(f)}

Identifiable == {f \in Select : content[f].device # Null}
Again == {f \in Identifiable : Sequence(f) > 1}
DevicesOf(S) == {content[f].device : f \in S}
VisitNames == {"unidentified", "first", "returning"}

VisitsInv ==
  /\ Between({v[1] : v \in got.visits})
  /\ got.visits \subseteq Saved \X VisitNames
  /\ \A v, w \in got.visits : v[1] = w[1] => v = w
  /\ \A v \in got.visits, g \in before.saved :
       /\ v[2] = "first" /\ CompanyOf(g) = Company /\ NotTest(g)
       /\ content[g].device = content[v[1]].device
       => created[v[1]] <= created[g]
  /\ before.saved = Saved => got.visits = {<<f, Visit(f)>> : f \in Select}

DevicesInv == before.saved = Saved => got.devices = DevicesOf(Identifiable) /\ got.again = DevicesOf(Again)

Right(q) ==
  CASE q \in {"ratings", "comments", "channels"} -> Between(got[q])
    [] q = "analysis" -> BetweenAnalyzed(got.analysis)
    [] q = "count"    -> Commented(Meaning(before.saved)) \subseteq got.count /\ got.count \subseteq Commented(Meaning(Saved))
    [] q = "rows"     -> IF request.kind = "analysis" THEN BetweenAnalyzed(got.rows) ELSE Between(got.rows)
    [] q = "visits"   -> VisitsInv
    [] q = "devices"  -> DevicesInv
    [] OTHER          -> TRUE

Asked == QueriesOf(request.kind) \ Left
Fields == {"ratings", "analysis", "comments", "channels", "count", "rows", "today", "visits", "devices", "again"}

GotInv ==
  /\ got = [k \in Fields |-> got[k]]
  /\ Running => \A q \in Asked : Right(q)
  /\ Running /\ "analysis" \in Asked =>
       /\ got.analysis \subseteq Commented(Select)
       /\ "comments" \in Asked => got.analysis \subseteq got.comments

ViewsInv == BaseInv /\ GotInv

LEMMA SequenceKept ==
  ASSUME TableInv, Grows, Saved' = Saved, NEW f \in Saved
  PROVE  Sequence(f)' = Sequence(f)
BY DEF Sequence, CompanyOf, NotTest, Grows

LEMMA SameRows ==
  ASSUME TableInv, Grows, Saved' = Saved, ids' = ids, request' = request
  PROVE  /\ Select' = Select /\ Identifiable' = Identifiable /\ Again' = Again
         /\ {<<f, Visit(f)>> : f \in Select}' = {<<f, Visit(f)>> : f \in Select}
         /\ DevicesOf(Identifiable)' = DevicesOf(Identifiable) /\ DevicesOf(Again)' = DevicesOf(Again)
<1>1. Select' = Select /\ Select \subseteq Saved /\ content' = content
  BY SelectGrows DEF Grows
<1>2. Identifiable' = Identifiable /\ Identifiable \subseteq Saved
  BY <1>1 DEF Identifiable
<1>3. \A f \in Saved : Sequence(f)' = Sequence(f)
  BY SequenceKept
<1>4. Again' = Again
  BY <1>2, <1>3 DEF Again
<1>5. \A f \in Select : Visit(f)' = Visit(f)
  BY <1>1, <1>3 DEF Visit
<1>6. {<<f, Visit(f)>> : f \in Select}' = {<<f, Visit(f)>> : f \in Select}
  BY <1>1, <1>5
<1> QED BY <1>1, <1>2, <1>4, <1>6 DEF DevicesOf

LEMMA RightKept ==
  ASSUME TableInv, Grows, request' = request, before' = before, ids' = ids,
         before.saved \subseteq Saved, before.analyzed \subseteq analyzed \cap before.saved,
         NEW q, Right(q), q \in Fields => got'[q] = got[q], got'.again = got.again \/ q # "devices"
  PROVE  Right(q)'
<1>1. /\ \A f \in Saved : Meant(f)' <=> Meant(f)
      /\ Meaning(before.saved)' = Meaning(before.saved) /\ Meaning(before.analyzed)' = Meaning(before.analyzed)
      /\ Meaning(Saved) \subseteq Meaning(Saved)' /\ Meaning(analyzed) \subseteq Meaning(analyzed)'
  BY MeaningKept
<1>2. \A S : /\ Between(S) => Between(S)'
             /\ BetweenAnalyzed(S) => BetweenAnalyzed(S)'
  BY <1>1 DEF Between, BetweenAnalyzed
<1>3. \A S : Commented(S)' = Commented(S')
  BY DEF Commented, HasComment, Grows
<1>4. CASE q = "visits"
  <2>1. VisitsInv /\ got'.visits = got.visits
    BY <1>4 DEF Right, Fields
  <2> DEFINE D == {v[1] : v \in got.visits}
  <2>2. Between(D) /\ D' = D
    BY <2>1 DEF VisitsInv
  <2> HIDE DEF D
  <2>3. Between(D)'
    BY <2>2, <1>1 DEF Between
  <2>4. before'.saved = Saved' => Saved' = Saved
    BY DEF Grows
  <2>5. before'.saved = Saved' => got'.visits = {<<f, Visit(f)>> : f \in Select}'
    BY <2>1, <2>4, SameRows DEF VisitsInv
  <2>6. \A v \in got.visits : v[1] \in Saved
    BY <2>1 DEF VisitsInv
  <2>7. \A v \in got'.visits, g \in before'.saved :
          /\ v[2] = "first" /\ CompanyOf(g)' = Company /\ NotTest(g)'
          /\ content'[g].device = content'[v[1]].device
          => created'[v[1]] <= created'[g]
    BY <2>1, <2>6 DEF VisitsInv, Grows, CompanyOf, NotTest
  <2>8. got'.visits \subseteq Saved' \X VisitNames
    BY <2>1 DEF VisitsInv, Grows
  <2>9. VisitsInv'
    BY <2>1, <2>3, <2>5, <2>7, <2>8 DEF VisitsInv, D
  <2> QED BY <1>4, <2>9 DEF Right
<1>5. CASE q = "devices"
  <2>1. DevicesInv /\ got'.devices = got.devices /\ got'.again = got.again
    BY <1>5 DEF Right, Fields
  <2>2. before'.saved = Saved' => before.saved = Saved /\ Saved' = Saved
    BY DEF Grows
  <2>3. DevicesInv'
    BY <2>1, <2>2, SameRows DEF DevicesInv
  <2> QED BY <1>5, <2>3 DEF Right
<1>6. CASE q = "count"
  <2>1. got'.count = got.count
    BY <1>6 DEF Fields
  <2> QED BY <1>1, <1>3, <1>6, <2>1 DEF Right, Commented
<1>7. CASE q \in {"ratings", "comments", "channels"}
  BY <1>2, <1>7 DEF Right, Fields
<1>8. CASE q = "analysis"
  BY <1>2, <1>8 DEF Right, Fields
<1>9. CASE q = "rows"
  BY <1>2, <1>9 DEF Right, Fields
<1> QED BY <1>4, <1>5, <1>6, <1>7, <1>8, <1>9 DEF Right

LEMMA ViewsStart == ViewsInit => ViewsInv
<1> SUFFICES ASSUME ViewsInit PROVE ViewsInv
  OBVIOUS
<1>1. got = [k \in Fields |-> got[k]]
  BY DEF ViewsInit, NoNumbers, Fields
<1> QED BY <1>1, ViewsBaseInit DEF ViewsInv, GotInv, ViewsInit, Running

\* Nothing is asked before the points are known.
LEMMA NothingAsked ==
  ASSUME ViewsInv, BaseInv', got' = got,
         outcome' = "reading" => QueriesOf(request'.kind) \subseteq Left'
  PROVE  ViewsInv' \/ outcome' = "answered"
BY DEF ViewsInv, GotInv, Asked, Running

LEMMA AskKeeps == ASSUME ViewsInv, Ask PROVE ViewsInv'
<1>1. BaseInv' /\ (outcome' = "reading" => "points" \in Left')
  BY AskBase DEF ViewsInv
<1>2. outcome' \in {"refused", "reading"} /\ got' = got
  BY DEF Ask
<1>3. outcome' = "reading" => QueriesOf(request'.kind) \subseteq Left'
  BY <1>1 DEF BaseInv, TodoInv
<1> QED BY <1>1, <1>2, <1>3, NothingAsked

LEMMA ScopeKeeps ==
  ASSUME ViewsInv,
         WholeCompany \/ ItemOfCompany \/ ItemOfAnotherKind \/ KindWithoutItems \/ ReadItems \/ ReadPoints
  PROVE  ViewsInv'
<1> USE DEF ViewsInv
<1>1. QueriesOf(request.kind) \cap {"items", "points"} = {}
  BY DEF QueriesOf
<1>2. CASE Doing("items") /\ \E set : ScopeSettled(set)
  <2>1. /\ Left' = Left \ {"items", "points"} /\ "points" \in Left /\ outcome' = "reading"
        /\ outcome = "reading" /\ request' = request /\ got' = got
    BY <1>2, ScopeDrops DEF BaseInv, Doing, ScopeSettled
  <2>2. QueriesOf(request.kind) \subseteq Left'
    BY <1>1, <2>1 DEF BaseInv, TodoInv
  <2>3. BaseInv'
    BY WholeCompanyBase, ItemOfCompanyBase, ItemOfAnotherKindBase, KindWithoutItemsBase, ReadItemsBase, ReadPointsBase
  <2> QED BY <2>1, <2>2, <2>3, NothingAsked
<1>3. CASE ReadItems \/ ReadPoints
  <2>1. PICK q \in {"items", "points"} : Doing(q) /\ Done /\ got' = got
    BY <1>3 DEF ReadItems, ReadPoints
  <2>2. /\ Left' = Left \ {q} /\ q \in Left /\ outcome' = "reading" /\ outcome = "reading" /\ request' = request
    BY <2>1, DoneDrops DEF BaseInv, Doing, Done
  <2>3. "points" \in Left
    <3>1. CASE q = "items"
      <4>1. 1 \in DOMAIN todo /\ todo[1] = "items"
        BY <2>1, <3>1 DEF Doing, BaseInv, TodoInv
      <4>2. todo[2] = "points" /\ 2 \in DOMAIN todo
        BY <4>1 DEF BaseInv, TodoInv
      <4> QED BY <4>2 DEF Left
    <3> QED BY <3>1, <2>2
  <2>4. QueriesOf(request.kind) \subseteq Left'
    BY <1>1, <2>2, <2>3 DEF BaseInv, TodoInv
  <2>5. BaseInv'
    BY <1>3, ReadItemsBase, ReadPointsBase
  <2> QED BY <2>2, <2>1, <2>4, <2>5, NothingAsked
<1> QED BY <1>2, <1>3 DEF WholeCompany, ItemOfCompany, ItemOfAnotherKind, KindWithoutItems

\* Whatever happens to the table, what was right is right.
LEMMA StillRight ==
  ASSUME ViewsInv, Grows, Running, UNCHANGED <<request, before, ids>>,
         NEW q \in Asked, q \in Fields => got'[q] = got[q], got'.again = got.again \/ q # "devices"
  PROVE  Right(q)'
<1>1. TableInv /\ before.saved \subseteq Saved /\ before.analyzed \subseteq analyzed \cap before.saved /\ Right(q)
  BY DEF ViewsInv, GotInv, BaseInv, RequestInv
<1> QED BY <1>1, RightKept

LEMMA WritesKeep == ASSUME ViewsInv, Write(request.last), UNCHANGED viewVars PROVE ViewsInv'
<1>1. BaseInv' /\ Grows
  BY WritesBase DEF ViewsInv
<1>2. UNCHANGED <<request, outcome, todo, ids, found, got, before>>
  BY DEF viewVars
<1>3. Asked' = Asked /\ Running' = Running
  BY <1>2 DEF Asked, Left, Running
<1>4. Running => \A q \in Asked : Right(q)'
  BY <1>1, <1>2, StillRight
<1>5. Select \subseteq Select' /\ Commented(Select) \subseteq Commented(Select)'
  BY <1>1, <1>2, SelectGrows DEF Commented, HasComment, Grows, ViewsInv, BaseInv
<1> QED BY <1>1, <1>2, <1>3, <1>4, <1>5 DEF ViewsInv, GotInv

LEMMA EndKeeps == ASSUME ViewsInv, Answer \/ Fail PROVE ViewsInv'
<1>1. TableInv' /\ Grows /\ Saved' = Saved /\ analyzed' = analyzed /\ content' = content
  BY TableStays DEF ViewsInv, BaseInv, Answer, Fail, tableVars, Saved, Feedbacks
<1>2. UNCHANGED <<request, todo, ids, found, got, before>> /\ outcome = "reading" /\ outcome' \in {"answered", "failed"}
  BY DEF Answer, Fail
<1>3. outcome' = "answered" => todo = <<>>
  BY DEF Answer, Fail
<1>4. RequestInv' /\ TodoInv' /\ PointsInv'
  BY <1>1, <1>2, <1>3 DEF ViewsInv, BaseInv, RequestInv, TodoInv, PointsInv, Left, Running
<1>5. Asked' = Asked /\ Running
  BY <1>2 DEF Asked, Left, Running
<1>6. \A q \in Asked : Right(q)'
  BY <1>1, <1>2, <1>5, StillRight
<1>7. Select' = Select /\ Commented(Select)' = Commented(Select)
  BY <1>1, <1>2, SelectGrows DEF Commented, HasComment, ViewsInv, BaseInv
<1> QED BY <1>1, <1>2, <1>4, <1>5, <1>6, <1>7 DEF ViewsInv, BaseInv, GotInv

\* A query whose result is right.
LEMMA QueryKeeps ==
  ASSUME ViewsInv, NEW q \in Fields \ {"again"}, Doing(q), Done, UNCHANGED <<ids, found>>,
         got' = [k \in Fields |-> got'[k]],
         \A k \in Fields \ {q} : got'[k] = got[k] \/ (k = "again" /\ q = "devices"),
         Right(q)',
         q = "analysis" => got'.analysis \subseteq Commented(Select),
         q = "comments" => got'.comments = Select
  PROVE  ViewsInv'
<1>1. q \notin {"items", "points"}
  BY DEF Fields
<1>2. /\ BaseInv' /\ Grows /\ IdsInv /\ Left' = Left \ {q} /\ q \in Left
      /\ outcome = "reading" /\ outcome' = "reading" /\ UNCHANGED <<request, before, tableVars>>
      /\ Saved' = Saved
  BY <1>1, QueryBase DEF ViewsInv
<1>3. Asked' \subseteq Asked \cup {q} /\ q \notin Asked /\ Running
  BY <1>2 DEF Asked, Running
<1>4. \A r \in Asked : Right(r)'
  <2> SUFFICES ASSUME NEW r \in Asked PROVE Right(r)'
    OBVIOUS
  <2>1. r # q /\ r # "again"
    BY <1>3 DEF Asked, QueriesOf
  <2>2. r \in Fields => got'[r] = got[r]
    BY <2>1
  <2>3. got'.again = got.again \/ r # "devices"
    BY <2>1 DEF Fields
  <2> QED BY <1>2, <1>3, <2>2, <2>3, StillRight
<1>5. Select' = Select /\ Select \subseteq Saved /\ content' = content
  BY <1>2, SelectGrows DEF ViewsInv, BaseInv, Grows
<1>6. Commented(Select)' = Commented(Select) /\ Commented(Select) \subseteq Select
  BY <1>5 DEF Commented, HasComment
<1>7. ASSUME "analysis" \in Asked'
      PROVE  /\ got'.analysis \subseteq Commented(Select)'
             /\ "comments" \in Asked' => got'.analysis \subseteq got'.comments
  <2>1. request.kind \in {"stats", "package"} /\ {"analysis", "comments"} \subseteq QueriesOf(request.kind)
    BY <1>2, <1>7 DEF Asked, QueriesOf
  <2>2. CASE q = "analysis"
    <3>1. "comments" \in Left
      BY <1>2, <2>1, <2>2 DEF ViewsInv, BaseInv, TodoInv
    <3> QED BY <1>2, <1>6, <2>2, <3>1 DEF Asked
  <2>3. CASE q # "analysis"
    <3>1. "analysis" \in Asked /\ got'.analysis = got.analysis
      BY <1>3, <1>7, <2>3 DEF Fields
    <3>2. got.analysis \subseteq Commented(Select) /\ ("comments" \in Asked => got.analysis \subseteq got.comments)
      BY <1>3, <3>1 DEF ViewsInv, GotInv
    <3>3. CASE q = "comments"
      BY <1>6, <3>1, <3>2, <3>3
    <3>4. CASE q # "comments"
      BY <1>3, <1>6, <3>1, <3>2, <3>4 DEF Fields
    <3> QED BY <3>3, <3>4
  <2> QED BY <2>2, <2>3
<1> QED BY <1>2, <1>3, <1>4, <1>7 DEF ViewsInv, GotInv

LEMMA SelectNow ==
  ASSUME ViewsInv, NEW q \in Fields \ {"again"}, Doing(q), Done, UNCHANGED <<ids, found>>
  PROVE  /\ Between(Select) /\ Select \subseteq Saved
         /\ UNCHANGED <<request, before, content, created>>
         /\ Saved' = Saved /\ analyzed' = analyzed /\ before.analyzed \subseteq analyzed \cap before.saved
         /\ before.saved \subseteq Saved
         /\ Select' = Select
         /\ \A S : S \subseteq Saved => Meaning(S)' = Meaning(S)
         /\ \A S : Commented(S)' = Commented(S')
         /\ \A S : Between(S) => Between(S)'
         /\ \A S : BetweenAnalyzed(S) => BetweenAnalyzed(S)'
<1>1. q \notin {"items", "points"}
  BY DEF Fields
<1>2. /\ BaseInv' /\ Grows /\ IdsInv
      /\ outcome = "reading" /\ outcome' = "reading" /\ UNCHANGED <<request, before, tableVars>>
      /\ Saved' = Saved /\ analyzed' = analyzed /\ before.saved \subseteq Saved
  BY <1>1, QueryBase DEF ViewsInv
<1>3. TableInv /\ RequestInv /\ Running /\ before.analyzed \subseteq analyzed \cap before.saved
  BY <1>2 DEF ViewsInv, BaseInv, Running, RequestInv
<1>4. Between(Select) /\ Select \subseteq Saved /\ Select' = Select
  BY <1>2, <1>3, SelectIsBetween, SelectGrows
<1>5. \A S : S \subseteq Saved => Meaning(S)' = Meaning(S)
  BY <1>2, <1>3, MeaningKept
<1>6. UNCHANGED <<content, created>>
  BY <1>2 DEF tableVars
<1>7. \A S : Commented(S)' = Commented(S')
  BY <1>6 DEF Commented, HasComment
<1>8. analyzed \subseteq Saved
  BY <1>3 DEF TableInv
<1>9. \A S : /\ Between(S) => Between(S)'
             /\ BetweenAnalyzed(S) => BetweenAnalyzed(S)'
  BY <1>2, <1>3, <1>5, <1>8 DEF Between, BetweenAnalyzed
<1> QED BY <1>2, <1>3, <1>4, <1>5, <1>6, <1>7, <1>9

LEMMA AnalyzedBetween ==
  ASSUME TableInv, Between(Select), Select \subseteq Saved, before.analyzed \subseteq analyzed \cap before.saved
  PROVE  BetweenAnalyzed(Select \cap analyzed) /\ Select \cap analyzed \subseteq Commented(Select)
BY DEF Between, BetweenAnalyzed, Meaning, Commented, TableInv

LEMMA RowQueriesKeep ==
  ASSUME ViewsInv,
         \/ fetchScopedRatingAggregates \/ fetchScopedAnalysisAggregates \/ fetchScopedRatingByComment
         \/ fetchScopedRatingByChannel \/ fetchScopedCommentCount \/ fetchScopedRows \/ ReadToday
  PROVE  ViewsInv'
<1>0. got = [k \in Fields |-> got[k]] /\ TableInv
  BY DEF ViewsInv, GotInv, BaseInv
<1>1. ASSUME NEW q \in {"ratings", "comments", "channels"}, Returned(q, Select)
      PROVE  ViewsInv'
  <2>1. q \in Fields \ {"again"} /\ Doing(q) /\ Done /\ UNCHANGED <<ids, found>>
    BY <1>1 DEF Returned, Fields
  <2>2. got'[q] = Select /\ got' = [k \in Fields |-> got'[k]] /\ \A k \in Fields \ {q} : got'[k] = got[k]
    BY <1>0, <1>1, <2>1 DEF Returned
  <2>3. Right(q)'
    BY <2>1, <2>2, SelectNow DEF Right
  <2>4. q # "analysis"
    OBVIOUS
  <2>5. q = "comments" => got'.comments = Select
    BY <2>2
  <2> QED BY <2>1, <2>2, <2>3, <2>4, <2>5, QueryKeeps
<1>2. CASE fetchScopedAnalysisAggregates
  <2>1. "analysis" \in Fields \ {"again"} /\ Doing("analysis") /\ Done /\ UNCHANGED <<ids, found>>
    BY <1>2 DEF fetchScopedAnalysisAggregates, Returned, Fields
  <2>2. /\ got'.analysis = Select \cap analyzed /\ got' = [k \in Fields |-> got'[k]]
        /\ \A k \in Fields \ {"analysis"} : got'[k] = got[k]
    BY <1>0, <1>2, <2>1 DEF fetchScopedAnalysisAggregates, Returned
  <2>3. BetweenAnalyzed(Select \cap analyzed)' /\ Select \cap analyzed \subseteq Commented(Select) /\ Select' = Select /\ analyzed' = analyzed
    BY <1>0, <2>1, SelectNow, AnalyzedBetween
  <2>4. Right("analysis")'
    BY <2>2, <2>3 DEF Right
  <2> QED BY <2>1, <2>2, <2>3, <2>4, QueryKeeps
<1>3. CASE fetchScopedCommentCount
  <2>1. "count" \in Fields \ {"again"} /\ Doing("count") /\ Done /\ UNCHANGED <<ids, found>>
    BY <1>3 DEF fetchScopedCommentCount, Returned, Fields
  <2>2. /\ got'.count = Commented(Select) /\ got' = [k \in Fields |-> got'[k]]
        /\ \A k \in Fields \ {"count"} : got'[k] = got[k]
    BY <1>0, <1>3, <2>1 DEF fetchScopedCommentCount, Returned, Commented
  <2>3. /\ Between(Select) /\ Saved' = Saved /\ before.saved \subseteq Saved
        /\ \A S : S \subseteq Saved => Meaning(S)' = Meaning(S)
        /\ \A S : Commented(S)' = Commented(S')
        /\ before' = before
    BY <2>1, SelectNow
  <2>4. Commented(Meaning(before.saved)) \subseteq Commented(Select) /\ Commented(Select) \subseteq Commented(Meaning(Saved))
    BY <2>3 DEF Between, Commented
  <2>5. Commented(Meaning(before.saved))' = Commented(Meaning(before.saved)) /\ Commented(Meaning(Saved))' = Commented(Meaning(Saved))
    <3>1. Meaning(before.saved)' = Meaning(before.saved) /\ Meaning(Saved)' = Meaning(Saved)
      BY <2>3
    <3> QED BY <2>3, <3>1
  <2>6. Right("count")'
    BY <2>2, <2>4, <2>5 DEF Right
  <2> QED BY <2>1, <2>2, <2>6, QueryKeeps
<1>4. CASE fetchScopedRows
  <2> DEFINE rows == IF request.kind = "analysis" THEN Select \cap analyzed ELSE Select
  <2>1. "rows" \in Fields \ {"again"} /\ Doing("rows") /\ Done /\ UNCHANGED <<ids, found>>
    BY <1>4 DEF fetchScopedRows, Returned, Fields
  <2>2. /\ got'.rows = rows /\ got' = [k \in Fields |-> got'[k]]
        /\ \A k \in Fields \ {"rows"} : got'[k] = got[k]
    BY <1>0, <1>4, <2>1 DEF fetchScopedRows, Returned
  <2>3. BetweenAnalyzed(Select \cap analyzed)' /\ Between(Select)' /\ request' = request
    <3>1. /\ Between(Select) /\ Select \subseteq Saved /\ before.analyzed \subseteq analyzed \cap before.saved
          /\ Select' = Select /\ analyzed' = analyzed
          /\ \A S : Between(S) => Between(S)'
          /\ \A S : BetweenAnalyzed(S) => BetweenAnalyzed(S)'
          /\ request' = request
      BY <2>1, SelectNow
    <3>2. BetweenAnalyzed(Select \cap analyzed)
      BY <1>0, <3>1, AnalyzedBetween
    <3> QED BY <3>1, <3>2
  <2>4. Right("rows")'
    <3>1. Select' = Select /\ analyzed' = analyzed
      BY <2>1, SelectNow
    <3> QED BY <2>2, <2>3, <3>1 DEF Right
  <2> QED BY <2>1, <2>2, <2>4, QueryKeeps
<1>5. CASE ReadToday
  <2>1. "today" \in Fields \ {"again"} /\ Doing("today") /\ Done /\ UNCHANGED <<ids, found>>
    BY <1>5 DEF ReadToday, Returned, Fields
  <2>2. /\ got' = [k \in Fields |-> got'[k]] /\ \A k \in Fields \ {"today"} : got'[k] = got[k]
    BY <1>0, <1>5, <2>1 DEF ReadToday, Returned
  <2>3. Right("today")'
    BY DEF Right
  <2> QED BY <2>1, <2>2, <2>3, QueryKeeps
<1> QED BY <1>1, <1>2, <1>3, <1>4, <1>5
    DEF fetchScopedRatingAggregates, fetchScopedRatingByComment, fetchScopedRatingByChannel

LEMMA PairCount == ASSUME NEW S, IsFiniteSet(S), NEW a \in S, NEW b \in S, a # b PROVE Cardinality(S) > 1
<1>1. IsFiniteSet({a}) /\ Cardinality({a}) = 1
  BY FS_Singleton
<1>2. IsFiniteSet({a} \cup {b}) /\ Cardinality({a} \cup {b}) = 2
  <2>1. b \notin {a}
    OBVIOUS
  <2> QED BY <1>1, <2>1, FS_AddElement
<1>3. Cardinality({a} \cup {b}) <= Cardinality(S) /\ Cardinality(S) \in Nat
  BY FS_Subset, FS_CardinalityType
<1> QED BY <1>2, <1>3

\* A visit with no other before it is the first of its device in the company.
LEMMA FirstIsFirst ==
  ASSUME TableInv, NEW f \in Saved, CompanyOf(f) = Company, NotTest(f), ~ (Sequence(f) > 1),
         NEW g \in Saved, CompanyOf(g) = Company, NotTest(g), content[g].device = content[f].device
  PROVE  created[f] <= created[g] /\ (g # f => Older(f, g))
<1> DEFINE S == {h \in Saved : /\ CompanyOf(h) = Company /\ NotTest(h)
                               /\ content[h].device = content[f].device
                               /\ \/ created[h] < created[f]
                                  \/ created[h] = created[f] /\ h <= f}
<1>1. f \in Nat /\ g \in Nat /\ created[f] \in Int /\ created[g] \in Int
  BY DEF TableInv, Saved
<1>2. f \in S /\ Sequence(f) = Cardinality(S)
  BY <1>1 DEF Sequence
<1>3. IsFiniteSet(S)
  BY SavedIsFinite
<1>4. g # f => g \notin S
  <2> HIDE DEF S
  <2> QED BY <1>2, <1>3, PairCount
<1> QED BY <1>1, <1>4 DEF Older

LEMMA VisitsKeep == ASSUME ViewsInv, fetchVisits PROVE ViewsInv'
<1> DEFINE shownVisits == {<<f, Visit(f)>> : f \in Select}
<1>0. got = [k \in Fields |-> got[k]] /\ TableInv
  BY DEF ViewsInv, GotInv, BaseInv
<1>1. "visits" \in Fields \ {"again"} /\ Doing("visits") /\ Done /\ UNCHANGED <<ids, found>>
  BY DEF fetchVisits, Returned, Fields
<1>2. /\ got'.visits = shownVisits /\ got' = [k \in Fields |-> got'[k]]
      /\ \A k \in Fields \ {"visits"} : got'[k] = got[k]
  BY <1>0, <1>1 DEF fetchVisits, Returned
<1>3. /\ Between(Select)' /\ Select \subseteq Saved /\ Select' = Select /\ UNCHANGED <<request, before, content, created>>
      /\ before.saved \subseteq Saved /\ Saved' = Saved
  <2>1. \A S : Between(S) => Between(S)'
    BY <1>1, SelectNow
  <2>2. /\ Between(Select) /\ Select \subseteq Saved /\ Select' = Select /\ UNCHANGED <<request, before, content, created>>
        /\ before.saved \subseteq Saved /\ Saved' = Saved
    BY <1>1, SelectNow
  <2> QED BY <2>1, <2>2
<1>4. \A f \in Select : CompanyOf(f) = Company /\ NotTest(f)
  BY DEF Select, ScopedFeedbackWhere
<1>5. \A f \in Select : /\ Visit(f) \in VisitNames
                        /\ Visit(f) = "first" => ~ (Sequence(f) > 1)
  BY DEF Visit, VisitNames
<1>6. {v[1] : v \in shownVisits} = Select
  <2>1. ASSUME NEW f \in Select PROVE f \in {v[1] : v \in shownVisits}
    <3>1. <<f, Visit(f)>> \in shownVisits /\ <<f, Visit(f)>>[1] = f
      OBVIOUS
    <3> QED BY <3>1
  <2>2. \A v \in shownVisits : v[1] \in Select
    OBVIOUS
  <2> HIDE DEF shownVisits
  <2> QED BY <2>1, <2>2
<1>7. shownVisits \subseteq Saved \X VisitNames /\ \A v, w \in shownVisits : v[1] = w[1] => v = w
  BY <1>3, <1>5
<1>8. \A v \in shownVisits, g \in before.saved :
       /\ v[2] = "first" /\ CompanyOf(g) = Company /\ NotTest(g)
       /\ content[g].device = content[v[1]].device
       => created[v[1]] <= created[g]
  <2> SUFFICES ASSUME NEW f \in Select, NEW g \in before.saved, Visit(f) = "first",
                      CompanyOf(g) = Company, NotTest(g), content[g].device = content[f].device
               PROVE  created[f] <= created[g]
    OBVIOUS
  <2> QED BY <1>0, <1>3, <1>4, <1>5, FirstIsFirst
<1>9. shownVisits' = shownVisits
  <2>1. /\ \A f \in Saved : Sequence(f)' = Sequence(f)
    BY <1>3 DEF Sequence, CompanyOf, NotTest
  <2> QED BY <1>3, <2>1 DEF Visit
<1>10. \A f \in Saved : (CompanyOf(f)' <=> CompanyOf(f)) /\ (NotTest(f)' <=> NotTest(f)) /\ CompanyOf(f)' = CompanyOf(f)
  BY <1>3 DEF CompanyOf, NotTest
<1> HIDE DEF shownVisits
<1>11. VisitsInv'
  <2>1. Between({v[1] : v \in got.visits})'
    <3>1. {v[1] : v \in got.visits}' = Select'
      BY <1>2, <1>3, <1>6
    <3> QED BY <1>3, <3>1 DEF Between
  <2>2. \A v \in got'.visits, g \in before'.saved :
          /\ v[2] = "first" /\ CompanyOf(g)' = Company /\ NotTest(g)'
          /\ content'[g].device = content'[v[1]].device
          => created'[v[1]] <= created'[g]
    BY <1>2, <1>3, <1>8, <1>10
  <2>3. got'.visits = {<<f, Visit(f)>> : f \in Select}'
    BY <1>2, <1>9 DEF shownVisits
  <2> QED BY <1>2, <1>3, <1>7, <2>1, <2>2, <2>3 DEF VisitsInv
<1>12. Right("visits")'
  BY <1>11 DEF Right
<1> QED BY <1>1, <1>2, <1>12, QueryKeeps

LEMMA DevicesKeep == ASSUME ViewsInv, fetchDevices PROVE ViewsInv'
<1>0. got = [k \in Fields |-> got[k]] /\ TableInv
  BY DEF ViewsInv, GotInv, BaseInv
<1>1. "devices" \in Fields \ {"again"} /\ Doing("devices") /\ Done /\ UNCHANGED <<ids, found>>
  BY DEF fetchDevices, Fields
<1>2. /\ got'.devices = DevicesOf(Identifiable) /\ got'.again = DevicesOf(Again) /\ got' = [k \in Fields |-> got'[k]]
      /\ \A k \in Fields \ {"devices"} : got'[k] = got[k] \/ (k = "again" /\ "devices" = "devices")
  <2>1. got' = [got EXCEPT !.devices = DevicesOf(Identifiable), !.again = DevicesOf(Again)]
    BY DEF fetchDevices, DevicesOf, Identifiable, Again
  <2> HIDE DEF DevicesOf, Identifiable, Again
  <2>2. "devices" \in Fields /\ "again" \in Fields
    BY DEF Fields
  <2> QED BY <1>0, <2>1, <2>2
<1>3. /\ Select \subseteq Saved /\ Select' = Select /\ UNCHANGED <<request, before, content, created>> /\ Saved' = Saved
  BY <1>1, SelectNow
<1>4. /\ \A f \in Saved : Sequence(f)' = Sequence(f)
  BY <1>3 DEF Sequence, CompanyOf, NotTest
<1>5. Identifiable' = Identifiable /\ Again' = Again
  BY <1>3, <1>4 DEF Identifiable, Again
<1>6. DevicesOf(Identifiable)' = DevicesOf(Identifiable) /\ DevicesOf(Again)' = DevicesOf(Again)
  BY <1>3, <1>5 DEF DevicesOf
<1>7. Right("devices")'
  BY <1>2, <1>6 DEF Right, DevicesInv
<1> QED BY <1>1, <1>2, <1>7, QueryKeeps

LEMMA ViewsKept == ASSUME ViewsInv, [ViewsNext]_<<tableVars, viewVars>> PROVE ViewsInv'
<1>1. CASE UNCHANGED <<tableVars, viewVars>>
  <2>1. TableInv' /\ Grows /\ Saved' = Saved /\ UNCHANGED <<content, life, created, analyzed, made>>
    BY <1>1, TableStays DEF ViewsInv, BaseInv, tableVars, Saved, Feedbacks
  <2>2. UNCHANGED <<request, outcome, todo, ids, found, got, before>>
    BY <1>1 DEF viewVars
  <2>3. Asked' = Asked /\ Running' = Running
    BY <2>2 DEF Asked, Left, Running
  <2>4. Running => before.saved \subseteq Saved
    BY DEF ViewsInv, BaseInv, RequestInv
  <2>5. RequestInv' /\ TodoInv'
    BY <2>1, <2>2 DEF ViewsInv, BaseInv, RequestInv, TodoInv, Left, Running
  <2>6. PointsInv'
    BY <2>1, <2>2, <2>4, ScopeKept DEF ViewsInv, BaseInv, PointsInv, Left, Running
  <2>7. Running => \A q \in Asked : Right(q)'
    BY <2>1, <2>2, StillRight
  <2>8. Select' = Select /\ Commented(Select)' = Commented(Select)
    BY <2>1, <2>2, SelectGrows DEF Commented, HasComment, ViewsInv, BaseInv
  <2> QED BY <2>1, <2>2, <2>3, <2>5, <2>6, <2>7, <2>8 DEF ViewsInv, BaseInv, GotInv
<1> QED BY <1>1, WritesKeep, AskKeeps, ScopeKeeps, RowQueriesKeep, VisitsKeep, DevicesKeep, EndKeeps DEF ViewsNext

LEMMA ViewsInvariance == ViewsSpec => []ViewsInv
<1>1. ViewsInit => ViewsInv
  BY ViewsStart
<1>2. ViewsInv /\ [ViewsNext]_<<tableVars, viewVars>> => ViewsInv'
  BY ViewsKept
<1> QED BY <1>1, <1>2, PTL DEF ViewsSpec

-----------------------------------------------------------------------------
(* Counting.                                                                 *)

\* Cells that divide a set add up to it.
LEMMA TotalOfPartition ==
  ASSUME NEW R, IsFiniteSet(R), NEW cells,
         \A c \in DOMAIN cells : cells[c] \subseteq R,
         \A r \in R : \E c \in DOMAIN cells : r \in cells[c],
         \A c, d \in DOMAIN cells : c # d => cells[c] \cap cells[d] = {}
  PROVE  Total(cells) = Cardinality(R)
<1> DEFINE P == UNION {{c} \X cells[c] : c \in DOMAIN cells}
           cell(r) == CHOOSE c \in DOMAIN cells : r \in cells[c]
           g == [r \in R |-> <<cell(r), r>>]
<1>1. \A r \in R : cell(r) \in DOMAIN cells /\ r \in cells[cell(r)]
  OBVIOUS
<1> HIDE DEF cell
<1>2. \A p : p \in P <=> \E c \in DOMAIN cells : \E r \in cells[c] : p = <<c, r>>
  OBVIOUS
<1> HIDE DEF P
<1>3. \A c \in DOMAIN cells : \A r \in cells[c] : r \in R /\ cell(r) = c
  BY <1>1
<1>4. g \in [R -> P]
  BY <1>1, <1>2
<1>5. \A a, b \in R : g[a] = g[b] => a = b
  OBVIOUS
<1>6. \A p \in P : \E r \in R : g[r] = p
  BY <1>2, <1>3
<1> HIDE DEF g
<1>7. g \in Bijection(R, P)
  BY <1>4, <1>5, <1>6 DEF Bijection, Injection, Surjection, IsInjective
<1>8. Cardinality(P) = Cardinality(R)
  BY <1>7, FS_Bijection DEF ExistsBijection
<1> QED BY <1>8 DEF P, Total

LEMMA Larger == ASSUME TableInv, NEW S, NEW T, S \subseteq T, T \subseteq Saved
  PROVE Cardinality(S) <= Cardinality(T) /\ Cardinality(S) \in Nat /\ Cardinality(T) \in Nat
        /\ IsFiniteSet(S) /\ IsFiniteSet(T)
BY SavedIsFinite, FS_Subset

LEMMA BetweenCounts == ASSUME TableInv, NEW S, Between(S)
  PROVE Cardinality(Meaning(before.saved)) <= Cardinality(S) /\ Cardinality(S) <= Cardinality(Meaning(Saved))
BY Larger DEF Between, Meaning

LEMMA BetweenAnalyzedCounts == ASSUME TableInv, NEW S, BetweenAnalyzed(S)
  PROVE Cardinality(Meaning(before.analyzed)) <= Cardinality(S) /\ Cardinality(S) <= Cardinality(Meaning(analyzed))
<1>1. analyzed \subseteq Saved
  BY DEF TableInv
<1> QED BY <1>1, Larger DEF BetweenAnalyzed, Meaning

\* Customers' rows all have one of the channels that are shown.
LEMMA ChannelsAddUp == ASSUME TableInv, Between(got.channels) PROVE ChannelTotal = Cardinality(got.channels)
<1> DEFINE cells == [c \in {"QR", "LINK", "NFC", Null} |-> {f \in got.channels : content[f].channel = c}]
<1>1. got.channels \subseteq Saved /\ \A f \in got.channels : NotTest(f)
  BY DEF Between, Meaning, Meant
<1>2. IsFiniteSet(got.channels)
  BY <1>1, SavedIsFinite
<1>3. \A f \in got.channels : content[f].channel \in {"QR", "LINK", "NFC", Null}
  BY <1>1 DEF TableInv, Saved, NotTest, Channels
<1>4. /\ \A c \in DOMAIN cells : cells[c] \subseteq got.channels
      /\ \A r \in got.channels : \E c \in DOMAIN cells : r \in cells[c]
      /\ \A c, d \in DOMAIN cells : c # d => cells[c] \cap cells[d] = {}
  BY <1>3
<1>5. ChannelTotal = Total(cells)
  BY DEF ChannelTotal
<1> HIDE DEF cells
<1> QED BY <1>2, <1>4, <1>5, TotalOfPartition

\* Every row has a day of the week and a band of the day.
LEMMA HeatmapAddsUp == ASSUME TableInv, request.tz \in Int, got.rows \subseteq Saved PROVE Total(Heatmap) = Cardinality(got.rows)
<1>1. IsFiniteSet(got.rows)
  BY SavedIsFinite
<1>2. ASSUME NEW f \in got.rows
      PROVE  <<Weekday(LocalDate(created[f], request.tz)), Band(created[f], request.tz)>> \in (0 .. 6) \X (0 .. 3)
  <2>1. created[f] \in Int
    BY DEF TableInv, Saved
  <2>2. LocalDate(created[f], request.tz) \in Int /\ Band(created[f], request.tz) \in 0 .. 3
    BY <2>1 DEF LocalDate, Band
  <2> QED BY <2>2, CalendarAssumption DEF Weekday
<1>3. DOMAIN Heatmap = (0 .. 6) \X (0 .. 3)
  BY DEF Heatmap
<1>4. \A c \in (0 .. 6) \X (0 .. 3) :
        Heatmap[c] = {f \in got.rows : /\ Weekday(LocalDate(created[f], request.tz)) = c[1]
                                       /\ Band(created[f], request.tz) = c[2]}
  BY DEF Heatmap
<1>5. /\ \A c \in DOMAIN Heatmap : Heatmap[c] \subseteq got.rows
      /\ \A r \in got.rows : \E c \in DOMAIN Heatmap : r \in Heatmap[c]
  <2>1. ASSUME NEW r \in got.rows PROVE \E c \in DOMAIN Heatmap : r \in Heatmap[c]
    <3> DEFINE d == Weekday(LocalDate(created[r], request.tz))  b == Band(created[r], request.tz)
    <3>1. <<d, b>> \in (0 .. 6) \X (0 .. 3) /\ <<d, b>>[1] = d /\ <<d, b>>[2] = b
      BY <1>2
    <3>2. r \in Heatmap[<<d, b>>]
      BY <1>4, <3>1
    <3> HIDE DEF d, b
    <3> QED BY <1>3, <3>1, <3>2
  <2>2. \A c \in DOMAIN Heatmap : Heatmap[c] \subseteq got.rows
    BY <1>3, <1>4
  <2> QED BY <2>1, <2>2
<1>6. \A c, d \in (0 .. 6) \X (0 .. 3) : c[1] = d[1] /\ c[2] = d[2] => c = d
  OBVIOUS
<1>7. \A c, d \in DOMAIN Heatmap : c # d => Heatmap[c] \cap Heatmap[d] = {}
  BY <1>3, <1>4, <1>6
<1> QED BY <1>1, <1>5, <1>7, TotalOfPartition

\* Visits of three kinds.
LEMMA VisitsAddUp ==
  ASSUME TableInv, VisitsInv
  PROVE  /\ Identified + Cardinality(VisitsOf("unidentified")) = Cardinality({v[1] : v \in got.visits})
         /\ \A w \in VisitNames : VisitsOf(w) \subseteq Saved
<1> DEFINE A == VisitsOf("first")  B == VisitsOf("returning")  C == VisitsOf("unidentified")
           D == {v[1] : v \in got.visits}
<1>1. D = (A \cup B) \cup C
  BY DEF VisitsOf, VisitsInv, VisitNames
<1>2. A \cap B = {} /\ (A \cup B) \cap C = {}
  BY DEF VisitsOf, VisitsInv
<1>3. D \subseteq Saved
  BY DEF VisitsInv
<1>4. Identified = Cardinality(A) + Cardinality(B)
  BY DEF Identified
<1>5. \A w \in VisitNames : VisitsOf(w) \subseteq Saved
  BY <1>3 DEF VisitsOf
<1> HIDE DEF A, B, C, D
<1>6. IsFiniteSet(A) /\ IsFiniteSet(B) /\ IsFiniteSet(C) /\ IsFiniteSet(A \cup B)
  BY <1>1, <1>3, SavedIsFinite
<1>7. Cardinality(A \cup B) = Cardinality(A) + Cardinality(B)
  <2>1. Cardinality(A \cup B) = Cardinality(A) + Cardinality(B) - Cardinality(A \cap B)
    BY <1>6, FS_Union
  <2>2. Cardinality(A \cap B) = 0
    BY <1>2, FS_EmptySet, Zenon
  <2>3. Cardinality(A) \in Nat /\ Cardinality(B) \in Nat
    BY <1>6, FS_CardinalityType
  <2> QED BY <2>1, <2>2, <2>3
<1>8. Cardinality((A \cup B) \cup C) = Cardinality(A \cup B) + Cardinality(C)
  <2>1. Cardinality((A \cup B) \cup C) = Cardinality(A \cup B) + Cardinality(C) - Cardinality((A \cup B) \cap C)
    BY <1>6, FS_Union
  <2>2. Cardinality((A \cup B) \cap C) = 0
    BY <1>2, FS_EmptySet, Zenon
  <2>3. Cardinality(A \cup B) \in Nat /\ Cardinality(C) \in Nat
    BY <1>6, FS_CardinalityType
  <2> QED BY <2>1, <2>2, <2>3
<1>9. Identified + Cardinality(C) = Cardinality(D)
  BY <1>1, <1>4, <1>7, <1>8
<1> QED BY <1>5, <1>9 DEF C, D

-----------------------------------------------------------------------------
(* The calendar.                                                             *)

LEMMA Least ==
  ASSUME NEW S, S \subseteq Int, S # {}, NEW b \in Int, \A x \in S : b <= x
  PROVE  Min(S) \in S /\ \A x \in S : Min(S) <= x
<1> DEFINE below == OpToRel(<, Nat)
           T == {n \in Nat : n + b \in S}
<1>1. \A x, y \in Nat : y < x => <<y, x>> \in below
  BY DEF OpToRel
<1>2. IsWellFoundedOn(below, Nat)
  BY NatLessThanWellFounded
<1>3. T # {}
  <2>1. PICK x \in S : TRUE
    OBVIOUS
  <2>2. x - b \in Nat /\ (x - b) + b = x
    BY <2>1
  <2> QED BY <2>1, <2>2
<1>4. PICK n \in T : \A k \in T : ~ (<<k, n>> \in below)
  <2> HIDE DEF below
  <2> QED BY <1>2, <1>3, WFMin
<1>5. \A k \in T : n <= k
  <2>1. \A k \in T : k \in Nat /\ n \in Nat
    OBVIOUS
  <2>2. \A k \in T : ~ (k < n)
    <3> HIDE DEF below, T
    <3> QED BY <1>1, <1>4, <2>1, Zenon
  <2> HIDE DEF T
  <2> QED BY <2>1, <2>2
<1>6. n + b \in S /\ \A x \in S : n + b <= x
  <2>1. ASSUME NEW x \in S PROVE n + b <= x
    <3>1. x - b \in Nat /\ (x - b) + b = x
      OBVIOUS
    <3>2. x - b \in T
      BY <3>1
    <3> QED BY <1>5, <3>1, <3>2
  <2> QED BY <2>1
<1> HIDE DEF T
<1> QED BY <1>6 DEF Min

LEMMA Greatest ==
  ASSUME NEW S, S \subseteq Int, S # {}, NEW b \in Int, \A x \in S : x <= b
  PROVE  Max(S) \in S /\ \A x \in S : x <= Max(S)
<1> DEFINE T == {0 - x : x \in S}
<1>1. T \subseteq Int /\ T # {} /\ 0 - b \in Int
  <2>1. PICK x \in S : TRUE
    OBVIOUS
  <2>2. 0 - x \in T
    OBVIOUS
  <2>3. T \subseteq Int /\ 0 - b \in Int
    OBVIOUS
  <2> HIDE DEF T
  <2> QED BY <2>2, <2>3
<1>5. \A y \in T : 0 - b <= y
  <2> SUFFICES ASSUME NEW x \in S PROVE 0 - b <= 0 - x
    OBVIOUS
  <2>1. x \in Int /\ x <= b
    OBVIOUS
  <2> QED BY <2>1
<1>2. Min(T) \in T /\ \A y \in T : Min(T) <= y
  <2> HIDE DEF T
  <2> QED BY <1>1, <1>5, Least
<1>3. PICK g \in S : Min(T) = 0 - g
  BY <1>2
<1>4. \A x \in S : x <= g
  <2> TAKE x \in S
  <2>1. 0 - g <= 0 - x
    BY <1>2, <1>3
  <2> QED BY <2>1
<1> QED BY <1>4 DEF Max

LEMMA LocalDateGrows ==
  ASSUME NEW s \in Int, NEW t \in Int, NEW tz \in Int, s <= t
  PROVE  LocalDate(s, tz) \in Int /\ LocalDate(t, tz) \in Int /\ LocalDate(s, tz) <= LocalDate(t, tz)
BY DEF LocalDate

\* A date some month begins before, and the first days of the buckets.
InSomeMonth(d) == d \in Int /\ \E m \in MonthStarts : m <= d
HasBucket(d, bucket) == d \in Int /\ (bucket = "month" => InSomeMonth(d))
Starts(bucket) == CASE bucket = "month" -> MonthStarts
                    [] bucket = "week"  -> {d \in Int : Weekday(d) = 1}
                    [] OTHER            -> Int

\* bucketStart is the last start, and what the database truncates to.
LEMMA BucketStarts ==
  ASSUME NEW bucket, NEW d, HasBucket(d, bucket)
  PROVE  /\ bucketStart(d, bucket) \in Starts(bucket) /\ bucketStart(d, bucket) \in Int
         /\ bucketStart(d, bucket) <= d
         /\ \A s \in Starts(bucket) : s <= d => s <= bucketStart(d, bucket)
         /\ DateTrunc(d, bucket) = bucketStart(d, bucket)
<1>1. Sunday \in Int /\ MonthStarts \subseteq Int /\ d \in Int
  BY CalendarAssumption DEF HasBucket
<1>2. CASE bucket = "month"
  <2> DEFINE S == {m \in MonthStarts : m <= d}
  <2>1. S \subseteq Int /\ S # {} /\ \A m \in S : m <= d
    BY <1>1, <1>2 DEF HasBucket, InSomeMonth
  <2>2. Max(S) \in S /\ \A m \in S : m <= Max(S)
    <3> HIDE DEF S
    <3> QED BY <1>1, <2>1, Greatest
  <2>3. bucketStart(d, bucket) = Max(S) /\ DateTrunc(d, bucket) = Max(S) /\ Starts(bucket) = MonthStarts
    BY <1>2 DEF bucketStart, DateTrunc, Starts
  <2> QED BY <1>1, <2>2, <2>3
<1>3. CASE bucket = "week"
  <2> DEFINE s == d - ((Weekday(d) + 6) % 7)
  <2>1. s \in Int /\ s \in (d - 6) .. d /\ Weekday(s) = 1
    BY <1>1 DEF Weekday
  <2>2. \A x \in Int : x <= d /\ Weekday(x) = 1 => x <= s
    BY <1>1 DEF Weekday
  <2>3. \A x \in (d - 6) .. d : Weekday(x) = 1 => x = s
    BY <1>1 DEF Weekday
  <2>4. bucketStart(d, bucket) = s /\ Starts(bucket) = {x \in Int : Weekday(x) = 1}
        /\ DateTrunc(d, bucket) = CHOOSE x \in (d - 6) .. d : Weekday(x) = 1
    BY <1>3 DEF bucketStart, DateTrunc, Starts
  <2> HIDE DEF s
  <2>5. (CHOOSE x \in (d - 6) .. d : Weekday(x) = 1) = s
    BY <2>1, <2>3
  <2> QED BY <1>1, <2>1, <2>2, <2>4, <2>5
<1>4. CASE bucket \notin {"month", "week"}
  BY <1>1, <1>4 DEF bucketStart, DateTrunc, Starts
<1> QED BY <1>2, <1>3, <1>4

\* nextBucket of a start skips none.
LEMMA NextStarts ==
  ASSUME NEW bucket, NEW x \in Starts(bucket), NEW s \in Starts(bucket), x < s
  PROVE  /\ nextBucket(x, bucket) \in Starts(bucket)
         /\ x < nextBucket(x, bucket) /\ nextBucket(x, bucket) <= s
<1>1. Sunday \in Int /\ MonthStarts \subseteq Int
  BY CalendarAssumption
<1>2. CASE bucket = "month"
  <2> DEFINE S == {m \in MonthStarts : m > x}
  <2>1. x \in Int /\ S \subseteq Int /\ s \in S /\ \A m \in S : x <= m
    BY <1>1, <1>2 DEF Starts
  <2>2. Min(S) \in S /\ \A m \in S : Min(S) <= m
    <3> HIDE DEF S
    <3> QED BY <2>1, Least
  <2>3. nextBucket(x, bucket) = Min(S) /\ Starts(bucket) = MonthStarts
    BY <1>2 DEF nextBucket, Starts
  <2> QED BY <2>1, <2>2, <2>3
<1>3. CASE bucket = "week"
  <2>1. x \in Int /\ s \in Int /\ Weekday(x) = 1 /\ Weekday(s) = 1 /\ nextBucket(x, bucket) = x + 7
    BY <1>3 DEF Starts, nextBucket
  <2>2. x + 7 <= s /\ Weekday(x + 7) = 1
    BY <1>1, <2>1 DEF Weekday
  <2> QED BY <1>3, <2>1, <2>2 DEF Starts
<1>4. CASE bucket \notin {"month", "week"}
  BY <1>4 DEF nextBucket, Starts
<1> QED BY <1>2, <1>3, <1>4

\* The loop of fillTimeline passes by every start up to the last.
LEMMA EveryStartIsReached ==
  ASSUME NEW bucket, NEW first \in Starts(bucket), NEW last \in Int, NEW s \in Starts(bucket),
         first <= s, s <= last
  PROVE  s \in Reached(first, last, bucket)
<1>1. Starts(bucket) \subseteq Int
  BY CalendarAssumption DEF Starts
<1>2. s \in first .. last
  BY <1>1
<1>3. ASSUME NEW S \in SUBSET (first .. last), first \in S,
             \A x \in S : nextBucket(x, bucket) <= last => nextBucket(x, bucket) \in S
      PROVE  s \in S
  <2> DEFINE T == {x \in S : x \in Starts(bucket) /\ x <= s}
  <2>1. T \subseteq Int /\ first \in T /\ \A x \in T : x <= s
    BY <1>1, <1>3
  <2>2. PICK g \in T : \A x \in T : x <= g
    <3> HIDE DEF T
    <3> QED BY <1>1, <2>1, Greatest
  <2>3. CASE g < s
    <3>1. /\ nextBucket(g, bucket) \in Starts(bucket)
          /\ g < nextBucket(g, bucket) /\ nextBucket(g, bucket) <= s
      BY <2>2, <2>3, NextStarts
    <3>2. nextBucket(g, bucket) \in T
      BY <1>1, <1>3, <2>2, <3>1
    <3> QED BY <1>1, <2>1, <2>2, <3>1, <3>2
  <2> QED BY <1>1, <2>1, <2>2, <2>3
<1> QED BY <1>2, <1>3 DEF Reached

-----------------------------------------------------------------------------
(* The timeline.                                                             *)

\* The rows are read before today.
RowsFirst == \A i, j \in DOMAIN todo : todo[i] = "today" /\ todo[j] = "rows" => j < i

TimesInv ==
  /\ FirstTick <= clock
  /\ \A f \in Feedbacks : life[f] # "future" => FirstTick <= created[f] /\ created[f] <= clock

PeriodInv ==
  /\ {request.start, request.end} \subseteq Int \cup {Null}
  /\ \A tz \in Zones : \A t \in {FirstTick, request.start, request.end} \ {Null} :
       InSomeMonth(LocalDate(t - 1, tz))

\* Today was today after the rows were there.
TodayInv ==
  Running /\ request.kind = "timeline" =>
    /\ request.tz \in Zones
    /\ RowsFirst /\ ("rows" \in Left => "today" \in Left)
    /\ "today" \notin Left =>
         \E t \in FirstTick .. clock :
           got.today = LocalDate(t, request.tz) /\ \A f \in got.rows : created[f] <= t

TimelineInv == TimesInv /\ PeriodInv /\ TodayInv

LEMMA TimelineStarts == ViewsInit => TimelineInv
<1> SUFFICES ASSUME ViewsInit PROVE TimelineInv
  OBVIOUS
<1>1. PICK c \in Cases : request = c.request /\ TableInit(c)
  BY DEF ViewsInit
<1>2. TimesInv
  BY <1>1, TicksAreNumbers DEF TableInit, TimesInv
<1>3. PeriodInv
  <2>1. {request.start, request.end} \subseteq Int \cup {Null}
    BY <1>1, CasesAssumption
  <2>2. ASSUME NEW tz \in Zones, NEW t \in {FirstTick, request.start, request.end} \ {Null}
        PROVE  InSomeMonth(LocalDate(t - 1, tz))
    <3>1. t \in Int /\ tz \in Int
      BY <2>1, <2>2, TicksAreNumbers DEF Zones
    <3>2. \E m \in MonthStarts : m <= LocalDate(t - 1, tz)
      BY <1>1, <2>2, CalendarAssumption
    <3> QED BY <3>1, <3>2 DEF InSomeMonth, LocalDate
  <2> QED BY <2>1, <2>2 DEF PeriodInv
<1> QED BY <1>2, <1>3 DEF TimelineInv, TodayInv, ViewsInit, Running

LEMMA TimesKept == ASSUME TableInv, TimesInv, NEW last, Write(last) PROVE TimesInv' /\ clock <= clock'
<1>1. CASE \E f \in Feedbacks : Submit(f)
  BY <1>1, TicksAreNumbers DEF Submit, TimesInv, TableInv, Feedbacks
<1>2. CASE \E f \in Feedbacks : Commit(f) \/ Analyze(f)
  BY <1>2 DEF Commit, Analyze, TimesInv, TableInv, Feedbacks
<1>3. CASE \E x \in Points \cup Items : Make(x)
  BY <1>3 DEF Make, TimesInv, TableInv, Feedbacks
<1>4. CASE Tick(last)
  BY <1>4, TicksAreNumbers DEF Tick, TimesInv, TableInv, Feedbacks
<1> QED BY <1>1, <1>2, <1>3, <1>4 DEF Write

LEMMA RowsAreSaved ==
  ASSUME ViewsInv, Running, request.kind = "timeline", "rows" \notin Left
  PROVE  Between(got.rows) /\ got.rows \subseteq Saved
<1>1. Right("rows")
  BY DEF ViewsInv, GotInv, Asked, QueriesOf
<1> QED BY <1>1 DEF Right, Between, Meaning

\* A step that reads neither the rows nor today.
LEMMA OthersKeepTimeline ==
  ASSUME TimelineInv, UNCHANGED <<request, tableVars>>, got'.rows = got.rows, got'.today = got.today,
         Running' => Running,
         Running' /\ request.kind = "timeline" =>
           RowsFirst' /\ ("rows" \in Left' <=> "rows" \in Left) /\ ("today" \in Left' <=> "today" \in Left)
  PROVE  TimelineInv'
<1>1. UNCHANGED <<content, life, created, clock>>
  BY DEF tableVars
<1>2. TimesInv' /\ PeriodInv'
  BY <1>1 DEF TimelineInv, TimesInv, PeriodInv, Feedbacks
<1>3. TodayInv'
  BY <1>1 DEF TimelineInv, TodayInv
<1> QED BY <1>2, <1>3 DEF TimelineInv

LEMMA OrderDrops ==
  ASSUME TodoInv, RowsFirst, NEW n \in {1, 2}, n <= Len(todo),
         todo' = IF n = 1 THEN Tail(todo) ELSE SubSeq(todo, 3, Len(todo))
  PROVE  RowsFirst'
<1>1. /\ DOMAIN todo' = 1 .. Len(todo) - n
      /\ \A i \in DOMAIN todo' : todo'[i] = todo[i + n] /\ i + n \in DOMAIN todo
  BY TodoDrops
<1>2. Len(todo) \in Nat
  BY DEF TodoInv
<1> SUFFICES ASSUME NEW i \in DOMAIN todo', NEW j \in DOMAIN todo', todo'[i] = "today", todo'[j] = "rows"
             PROVE  j < i
  BY DEF RowsFirst
<1>3. j + n < i + n
  BY <1>1 DEF RowsFirst
<1> QED BY <1>1, <1>2, <1>3

LEMMA DoneOrders ==
  ASSUME BaseInv, NEW q, Doing(q), Done
  PROVE  /\ RowsFirst => RowsFirst'
         /\ RowsFirst /\ q = "today" => "rows" \notin Left
         /\ Left' = Left \ {q} /\ q \in Left /\ Running /\ outcome' = "reading"
         /\ UNCHANGED <<request, before, tableVars>>
<1>1. /\ TodoInv /\ todo # <<>> /\ todo[1] = q /\ Len(todo) \in Nat /\ Len(todo) >= 1 /\ todo' = Tail(todo)
      /\ DOMAIN todo = 1 .. Len(todo) /\ outcome = "reading"
  BY DEF Doing, Done, TodoInv, BaseInv
<1>2. RowsFirst => RowsFirst'
  BY <1>1, OrderDrops
<1>3. RowsFirst /\ q = "today" => "rows" \notin Left
  BY <1>1 DEF RowsFirst, Left
<1>4. Left' = Left \ {q} /\ q \in Left /\ outcome' = "reading"
  BY <1>1, DoneDrops
<1> QED BY <1>1, <1>2, <1>3, <1>4 DEF Done, Running

LEMMA WritesKeepTimeline == ASSUME ViewsInv, TimelineInv, Write(request.last), UNCHANGED viewVars PROVE TimelineInv'
<1>1. TableInv /\ Grows /\ UNCHANGED <<request, outcome, todo, ids, found, got, before>>
  BY WritesBase DEF ViewsInv, BaseInv, viewVars
<1>2. TimesInv' /\ clock <= clock' /\ clock \in Int /\ clock' \in Int
  BY <1>1, TimesKept, TableKept DEF TimelineInv, TableInv
<1>3. PeriodInv'
  BY <1>1 DEF TimelineInv, PeriodInv
<1>4. TodayInv'
  <2> SUFFICES ASSUME Running, request.kind = "timeline"
               PROVE  /\ request.tz \in Zones
                      /\ RowsFirst /\ ("rows" \in Left => "today" \in Left)
                      /\ "today" \notin Left =>
                           \E t \in FirstTick .. clock' :
                             got.today = LocalDate(t, request.tz) /\ \A f \in got.rows : created'[f] <= t
    BY <1>1 DEF TodayInv, Running, Left, RowsFirst
  <2>1. /\ request.tz \in Zones
        /\ RowsFirst /\ ("rows" \in Left => "today" \in Left)
    BY DEF TimelineInv, TodayInv
  <2>2. ASSUME "today" \notin Left
        PROVE  \E t \in FirstTick .. clock' :
                 got.today = LocalDate(t, request.tz) /\ \A f \in got.rows : created'[f] <= t
    <3>1. PICK t \in FirstTick .. clock :
            got.today = LocalDate(t, request.tz) /\ \A f \in got.rows : created[f] <= t
      BY <2>2 DEF TimelineInv, TodayInv
    <3>2. got.rows \subseteq Saved
      BY <2>1, <2>2, RowsAreSaved
    <3>3. \A f \in got.rows : created'[f] = created[f]
      BY <1>1, <3>2 DEF Grows
    <3>4. t \in FirstTick .. clock'
      BY <1>2, TicksAreNumbers
    <3> QED BY <3>1, <3>3, <3>4
  <2> QED BY <2>1, <2>2
<1> QED BY <1>2, <1>3, <1>4 DEF TimelineInv

LEMMA AskKeepsTimeline == ASSUME ViewsInv, TimelineInv, Ask PROVE TimelineInv'
<1>1. UNCHANGED <<request, got, content, life, created, clock>>
  BY DEF Ask, tableVars
<1>2. TimesInv' /\ PeriodInv'
  BY <1>1 DEF TimelineInv, TimesInv, PeriodInv, Feedbacks
<1>3. TodayInv'
  <2> SUFFICES ASSUME Running', request.kind = "timeline"
               PROVE  request.tz \in Zones /\ RowsFirst' /\ "today" \in Left'
    BY <1>1 DEF TodayInv
  <2>1. outcome' = "reading" /\ ~BadTimeline /\ \E p \in Plan(request.kind) : todo' = <<"items", "points">> \o p
    BY DEF Ask, Running
  <2>2. todo' = <<"items", "points">> \o <<"rows", "today">>
    BY <2>1 DEF Plan, TimelinePlan
  <2>3. DOMAIN todo' = 1 .. 4 /\ todo'[1] = "items" /\ todo'[2] = "points" /\ todo'[3] = "rows" /\ todo'[4] = "today"
    BY <2>2
  <2>4. \A i \in DOMAIN todo' : (todo'[i] = "today" => i = 4) /\ (todo'[i] = "rows" => i = 3)
    BY <2>3
  <2>5. RowsFirst'
    BY <2>4 DEF RowsFirst
  <2>6. "today" \in Left' /\ request.tz \in Zones
    <3>1. 4 \in DOMAIN todo'
      BY <2>3
    <3> QED BY <2>1, <2>3, <3>1 DEF Left, BadTimeline
  <2> QED BY <2>5, <2>6
<1> QED BY <1>2, <1>3 DEF TimelineInv

LEMMA ScopeKeepsTimeline ==
  ASSUME ViewsInv, TimelineInv, NEW set, Doing("items"), ScopeSettled(set) PROVE TimelineInv'
<1>1. TodoInv /\ outcome = "reading" /\ Running /\ UNCHANGED <<request, got, tableVars>>
  BY DEF ViewsInv, BaseInv, Doing, ScopeSettled, Running
<1>2. Left' = Left \ {"items", "points"}
  BY <1>1, ScopeDrops
<1>3. RowsFirst => RowsFirst'
  <2>1. 2 <= Len(todo) /\ todo' = SubSeq(todo, 3, Len(todo))
    BY <1>1 DEF Doing, ScopeSettled, TodoInv
  <2> QED BY <1>1, <2>1, OrderDrops
<1> QED BY <1>1, <1>2, <1>3, OthersKeepTimeline DEF TimelineInv, TodayInv

LEMMA QueriesKeepTimeline ==
  ASSUME ViewsInv, TimelineInv, NEW q, q \notin {"rows", "today"}, Doing(q), Done,
         got'.rows = got.rows, got'.today = got.today
  PROVE  TimelineInv'
<1>1. /\ RowsFirst => RowsFirst'
      /\ Left' = Left \ {q} /\ Running /\ outcome' = "reading" /\ UNCHANGED <<request, tableVars>>
  BY DoneOrders DEF ViewsInv
<1> QED BY <1>1, OthersKeepTimeline DEF TimelineInv, TodayInv

LEMMA RowsKeepTimeline == ASSUME ViewsInv, TimelineInv, fetchScopedRows PROVE TimelineInv'
<1>1. Doing("rows") /\ Done
  BY DEF fetchScopedRows, Returned
<1>2. /\ RowsFirst => RowsFirst'
      /\ Left' = Left \ {"rows"} /\ "rows" \in Left /\ Running /\ UNCHANGED <<request, tableVars>>
  BY <1>1, DoneOrders DEF ViewsInv
<1>3. UNCHANGED <<content, life, created, clock>>
  BY <1>2 DEF tableVars
<1>4. TimesInv' /\ PeriodInv'
  BY <1>2, <1>3 DEF TimelineInv, TimesInv, PeriodInv, Feedbacks
<1>5. TodayInv'
  BY <1>2 DEF TimelineInv, TodayInv
<1> QED BY <1>4, <1>5 DEF TimelineInv

LEMMA TodayKeepsTimeline == ASSUME ViewsInv, TimelineInv, ReadToday PROVE TimelineInv'
<1>1. Doing("today") /\ Done /\ got' = [got EXCEPT !["today"] = LocalDate(clock, request.tz)]
  BY DEF ReadToday, Returned
<1>2. /\ RowsFirst => RowsFirst' /\ "rows" \notin Left
      /\ Left' = Left \ {"today"} /\ Running /\ UNCHANGED <<request, tableVars>>
  BY <1>1, DoneOrders DEF ViewsInv
<1>3. UNCHANGED <<content, life, created, clock>>
  BY <1>2 DEF tableVars
<1>4. TimesInv' /\ PeriodInv'
  BY <1>2, <1>3 DEF TimelineInv, TimesInv, PeriodInv, Feedbacks
<1>5. got'.rows = got.rows /\ got'.today = LocalDate(clock, request.tz)
  <2>1. got = [k \in Fields |-> got[k]] /\ "today" \in Fields /\ "rows" \in Fields
    BY DEF ViewsInv, GotInv, Fields
  <2> QED BY <1>1, <2>1
<1>6. TodayInv'
  <2> SUFFICES ASSUME request.kind = "timeline"
               PROVE  /\ request.tz \in Zones
                      /\ RowsFirst' /\ "rows" \notin Left'
                      /\ \E t \in FirstTick .. clock :
                           got'.today = LocalDate(t, request.tz) /\ \A f \in got'.rows : created[f] <= t
    BY <1>2, <1>3 DEF TodayInv
  <2>1. request.tz \in Zones /\ RowsFirst
    BY <1>2 DEF TimelineInv, TodayInv
  <2>2. got.rows \subseteq Saved
    BY <1>2, <2>1, RowsAreSaved
  <2>3. \A f \in got.rows : created[f] <= clock
    BY <2>2 DEF TimelineInv, TimesInv, Saved
  <2>4. clock \in FirstTick .. clock
    BY TicksAreNumbers DEF TimelineInv, TimesInv, ViewsInv, BaseInv, TableInv
  <2> QED BY <1>2, <1>5, <2>1, <2>3, <2>4
<1> QED BY <1>4, <1>6 DEF TimelineInv

LEMMA TimelineKept == ASSUME ViewsInv, TimelineInv, [ViewsNext]_<<tableVars, viewVars>> PROVE TimelineInv'
<1>0. got = [k \in Fields |-> got[k]]
  BY DEF ViewsInv, GotInv
<1>1. CASE UNCHANGED <<tableVars, viewVars>>
  <2>1. UNCHANGED <<request, outcome, todo, got>>
    BY <1>1 DEF viewVars
  <2>2. Running' = Running /\ Left' = Left /\ RowsFirst' = RowsFirst
    BY <2>1 DEF Running, Left, RowsFirst
  <2> QED BY <1>1, <2>1, <2>2, OthersKeepTimeline DEF TimelineInv, TodayInv
<1>2. CASE WholeCompany \/ ItemOfCompany \/ ItemOfAnotherKind \/ KindWithoutItems
  <2>1. PICK set : Doing("items") /\ ScopeSettled(set)
    BY <1>2 DEF WholeCompany, ItemOfCompany, ItemOfAnotherKind, KindWithoutItems
  <2> QED BY <2>1, ScopeKeepsTimeline
<1>3. CASE ReadItems \/ ReadPoints
  <2>1. PICK q \in {"items", "points"} : Doing(q) /\ Done /\ got' = got
    BY <1>3 DEF ReadItems, ReadPoints
  <2> QED BY <2>1, QueriesKeepTimeline
<1>4. ASSUME NEW q \in {"ratings", "analysis", "comments", "channels", "count", "visits"}, NEW rows, Returned(q, rows)
      PROVE  TimelineInv'
  <2>1. Doing(q) /\ Done /\ got' = [got EXCEPT ![q] = rows]
    BY <1>4 DEF Returned
  <2>2. got'.rows = got.rows /\ got'.today = got.today
    BY <1>0, <2>1 DEF Fields
  <2> QED BY <2>1, <2>2, QueriesKeepTimeline
<1>5. CASE fetchDevices
  <2>1. Doing("devices") /\ Done /\ got'.rows = got.rows /\ got'.today = got.today
    BY <1>0, <1>5 DEF fetchDevices, Fields
  <2> QED BY <2>1, QueriesKeepTimeline
<1>6. CASE Answer \/ Fail
  <2>1. Running /\ UNCHANGED <<request, todo, got, tableVars>>
    BY <1>6 DEF Answer, Fail, Running
  <2>2. Left' = Left /\ RowsFirst' = RowsFirst
    BY <2>1 DEF Left, RowsFirst
  <2> QED BY <2>1, <2>2, OthersKeepTimeline DEF TimelineInv, TodayInv
<1> QED BY <1>1, <1>2, <1>3, <1>4, <1>5, <1>6, WritesKeepTimeline, AskKeepsTimeline, RowsKeepTimeline, TodayKeepsTimeline
    DEF ViewsNext, fetchScopedRatingAggregates, fetchScopedAnalysisAggregates, fetchScopedRatingByComment,
        fetchScopedRatingByChannel, fetchScopedCommentCount, fetchVisits

LEMMA AtTheEnd == ASSUME ViewsInv, outcome = "answered"
  PROVE  /\ TableInv /\ RequestInv /\ \A q \in QueriesOf(request.kind) : Right(q)
         /\ before.saved \subseteq Saved /\ before.analyzed \subseteq analyzed \cap before.saved
         /\ "analysis" \in QueriesOf(request.kind) =>
              got.analysis \subseteq Commented(Select) /\ got.analysis \subseteq got.comments
<1>1. Running /\ Left = {} /\ TableInv /\ RequestInv
  BY DEF Running, Left, ViewsInv, BaseInv, RequestInv
<1>2. Asked = QueriesOf(request.kind)
  BY <1>1 DEF Asked
<1>3. "analysis" \in QueriesOf(request.kind) => "comments" \in QueriesOf(request.kind)
  BY DEF QueriesOf
<1> QED BY <1>1, <1>2, <1>3 DEF ViewsInv, GotInv, RequestInv

\* What the timeline is drawn from.
To == IF request.end # Null THEN LocalDate(request.end - 1, request.tz) ELSE got.today
From == IF request.start # Null THEN LocalDate(request.start, request.tz)
        ELSE IF got.rows # {} THEN Min({StartOf(f) : f \in got.rows}) ELSE To

\* Every row is between the first bucket and the last, in a bucket that starts.
LEMMA RowsHaveBuckets ==
  ASSUME ViewsInv, TimelineInv, Answered("timeline")
  PROVE  /\ HasBucket(From, request.bucket) /\ HasBucket(To, request.bucket)
         /\ \A f \in got.rows : /\ StartOf(f) \in Starts(request.bucket)
                                /\ bucketStart(From, request.bucket) <= StartOf(f)
                                /\ StartOf(f) <= bucketStart(To, request.bucket)
<1> DEFINE tz == request.tz  bucket == request.bucket
<1>1. outcome = "answered" /\ request.kind = "timeline" /\ TableInv /\ RequestInv
  BY AtTheEnd DEF Answered
<1>2. Running /\ Left = {}
  BY <1>1 DEF Running, Left, RequestInv
<1>3. Between(got.rows) /\ got.rows \subseteq Saved
  BY <1>1, <1>2, RowsAreSaved
<1>4. tz \in Zones /\ tz \in Int /\ FirstTick \in Int
  BY <1>1, <1>2, TicksAreNumbers DEF TimelineInv, TodayInv, Zones
<1>5. PICK t \in FirstTick .. clock : got.today = LocalDate(t, tz) /\ \A f \in got.rows : created[f] <= t
  BY <1>1, <1>2 DEF TimelineInv, TodayInv
<1>6. ASSUME NEW u \in Int, NEW v \in {FirstTick, request.start, request.end} \ {Null}, v \in Int, v - 1 <= u
      PROVE  InSomeMonth(LocalDate(u, tz))
  <2>1. InSomeMonth(LocalDate(v - 1, tz))
    BY <1>4, <1>6 DEF TimelineInv, PeriodInv
  <2>2. LocalDate(v - 1, tz) <= LocalDate(u, tz) /\ LocalDate(u, tz) \in Int /\ LocalDate(v - 1, tz) \in Int
    <3>1. v - 1 \in Int
      BY <1>6
    <3> QED BY <1>4, <1>6, <3>1, LocalDateGrows
  <2>3. PICK m \in MonthStarts : m <= LocalDate(v - 1, tz)
    BY <2>1 DEF InSomeMonth
  <2>4. m \in Int
    BY CalendarAssumption
  <2> QED BY <2>2, <2>3, <2>4 DEF InSomeMonth
<1>7. request.start \in Int \cup {Null} /\ request.end \in Int \cup {Null} /\ Null \notin Int
  BY NullIsNothing DEF TimelineInv, PeriodInv
<1>8. \A f \in got.rows :
        /\ created[f] \in Int /\ FirstTick <= created[f] /\ created[f] <= t
        /\ request.start # Null => request.start <= created[f]
        /\ request.end # Null => created[f] <= request.end - 1
  <2> SUFFICES ASSUME NEW f \in got.rows
               PROVE  /\ created[f] \in Int /\ FirstTick <= created[f] /\ created[f] <= t
                      /\ request.start # Null => request.start <= created[f]
                      /\ request.end # Null => created[f] <= request.end - 1
    OBVIOUS
  <2>1. created[f] \in Int /\ FirstTick <= created[f] /\ created[f] <= t
    BY <1>1, <1>3, <1>5 DEF TableInv, Saved, TimelineInv, TimesInv
  <2>2. InPeriod(f, request.start, request.end)
    BY <1>3 DEF Between, Meaning, Meant
  <2> QED BY <1>7, <2>1, <2>2 DEF InPeriod
<1>9. HasBucket(To, bucket) /\ \A f \in got.rows : LocalDate(created[f], tz) <= To
  <2>1. CASE request.end # Null
    <3>1. To = LocalDate(request.end - 1, tz) /\ request.end - 1 \in Int
      BY <1>7, <2>1 DEF To
    <3>2. InSomeMonth(To)
      BY <1>6, <1>7, <2>1, <3>1
    <3>3. \A f \in got.rows : LocalDate(created[f], tz) <= To
      BY <1>4, <1>8, <2>1, <3>1, LocalDateGrows
    <3> QED BY <3>2, <3>3 DEF InSomeMonth, HasBucket
  <2>2. CASE request.end = Null
    <3>1. To = LocalDate(t, tz) /\ t \in Int /\ FirstTick <= t
      BY <1>1, <1>4, <1>5, <2>2 DEF To, TableInv
    <3>2. InSomeMonth(To)
      BY <1>4, <1>6, <1>7, <3>1
    <3>3. \A f \in got.rows : LocalDate(created[f], tz) <= To
      BY <1>4, <1>8, <3>1, LocalDateGrows
    <3> QED BY <3>2, <3>3 DEF InSomeMonth, HasBucket
  <2> QED BY <2>1, <2>2
<1>10. ASSUME NEW f \in got.rows
       PROVE  /\ InSomeMonth(LocalDate(created[f], tz))
              /\ StartOf(f) = bucketStart(LocalDate(created[f], tz), bucket)
              /\ StartOf(f) \in Starts(bucket) /\ StartOf(f) \in Int /\ StartOf(f) <= LocalDate(created[f], tz)
              /\ StartOf(f) <= bucketStart(To, bucket)
  <2>1. InSomeMonth(LocalDate(created[f], tz))
    BY <1>4, <1>6, <1>7, <1>8
  <2>2. /\ StartOf(f) = bucketStart(LocalDate(created[f], tz), bucket)
        /\ StartOf(f) \in Starts(bucket) /\ StartOf(f) \in Int /\ StartOf(f) <= LocalDate(created[f], tz)
    BY <2>1, BucketStarts DEF StartOf, InSomeMonth, HasBucket
  <2>3. StartOf(f) <= To
    BY <1>9, <2>1, <2>2 DEF InSomeMonth, HasBucket
  <2>4. StartOf(f) <= bucketStart(To, bucket)
    BY <1>9, <2>2, <2>3, BucketStarts
  <2> QED BY <2>1, <2>2, <2>4
<1>11. HasBucket(From, bucket) /\ \A f \in got.rows : bucketStart(From, bucket) <= StartOf(f)
  <2>1. CASE request.start # Null
    <3>1. From = LocalDate(request.start, tz) /\ InSomeMonth(From)
      <4>1. From = LocalDate(request.start, tz) /\ request.start \in Int /\ request.start - 1 <= request.start
        BY <1>7, <2>1 DEF From
      <4> QED BY <1>6, <2>1, <4>1
    <3>2. ASSUME NEW f \in got.rows PROVE bucketStart(From, bucket) <= StartOf(f)
      <4>1. From <= LocalDate(created[f], tz)
        BY <1>4, <1>7, <1>8, <2>1, <3>1, LocalDateGrows
      <4>2. bucketStart(From, bucket) \in Starts(bucket) /\ bucketStart(From, bucket) <= From /\ bucketStart(From, bucket) \in Int
        BY <3>1, BucketStarts DEF InSomeMonth, HasBucket
      <4>3. bucketStart(From, bucket) <= LocalDate(created[f], tz)
        BY <1>10, <3>1, <4>1, <4>2 DEF InSomeMonth
      <4> QED BY <1>10, <4>2, <4>3, BucketStarts DEF InSomeMonth, HasBucket
    <3> QED BY <3>1, <3>2 DEF InSomeMonth, HasBucket
  <2>2. CASE request.start = Null /\ got.rows # {}
    <3> DEFINE S == {StartOf(f) : f \in got.rows}  d == LocalDate(FirstTick, tz)
    <3>1. InSomeMonth(d)
      BY <1>4, <1>6, <1>7
    <3>2. ASSUME NEW f \in got.rows PROVE bucketStart(d, bucket) <= StartOf(f)
      <4>1. d <= LocalDate(created[f], tz)
        BY <1>4, <1>8, LocalDateGrows
      <4>2. bucketStart(d, bucket) \in Starts(bucket) /\ bucketStart(d, bucket) <= d /\ bucketStart(d, bucket) \in Int
        BY <3>1, BucketStarts DEF InSomeMonth, HasBucket
      <4>3. bucketStart(d, bucket) <= LocalDate(created[f], tz)
        BY <1>10, <3>1, <4>1, <4>2 DEF InSomeMonth
      <4> QED BY <1>10, <4>2, <4>3, BucketStarts DEF InSomeMonth, HasBucket
    <3>3. S \subseteq Int /\ S # {} /\ \A s \in S : bucketStart(d, bucket) <= s
      BY <1>10, <2>2, <3>2
    <3>4. bucketStart(d, bucket) \in Int
      BY <3>1, BucketStarts DEF InSomeMonth, HasBucket
    <3>5. From = Min(S)
      BY <2>2 DEF From
    <3>6. From \in S /\ \A s \in S : From <= s
      <4> HIDE DEF S, d
      <4> QED BY <3>3, <3>4, <3>5, Least
    <3>7. PICK f \in got.rows : From = StartOf(f)
      BY <3>6
    <3>8. HasBucket(From, bucket)
      <4>1. From \in Int /\ From \in Starts(bucket)
        BY <1>10, <3>7
      <4>2. bucket = "month" => From \in MonthStarts /\ From <= From
        BY <4>1 DEF Starts
      <4> QED BY <4>1, <4>2 DEF HasBucket, InSomeMonth
    <3>9. \A g \in got.rows : bucketStart(From, bucket) <= StartOf(g)
      <4> HIDE DEF d
      <4>1. From \in Int /\ bucketStart(From, bucket) <= From /\ bucketStart(From, bucket) \in Int
        BY <3>8, BucketStarts DEF HasBucket
      <4>2. ASSUME NEW g \in got.rows PROVE From <= StartOf(g)
        BY <3>6
      <4> QED BY <1>10, <4>1, <4>2
    <3> QED BY <3>8, <3>9
  <2>3. CASE request.start = Null /\ got.rows = {}
    BY <1>9, <2>3 DEF From
  <2> QED BY <2>1, <2>2, <2>3
<1> QED BY <1>9, <1>10, <1>11

LEMMA TimelineDoes == ASSUME ViewsInv, TimelineInv PROVE TimelineLosesNothing
<1> SUFFICES ASSUME Answered("timeline"), Timeline # Null
             PROVE  /\ Total(Timeline) = Cardinality(got.rows)
                    /\ request.end # Null => \A d \in DOMAIN Timeline :
                         d <= DateTrunc(LocalDate(request.end - 1, request.tz), request.bucket)
  BY DEF TimelineLosesNothing
<1> DEFINE first == bucketStart(From, request.bucket)
           last == bucketStart(To, request.bucket)
           starts == Reached(first, last, request.bucket)
<1>1. /\ HasBucket(From, request.bucket) /\ HasBucket(To, request.bucket)
      /\ \A f \in got.rows : /\ StartOf(f) \in Starts(request.bucket)
                             /\ first <= StartOf(f) /\ StartOf(f) <= last
  BY RowsHaveBuckets
<1>2. first \in Starts(request.bucket) /\ first \in Int /\ last \in Int
      /\ DateTrunc(To, request.bucket) = last
  BY <1>1, BucketStarts DEF HasBucket
<1>3. Timeline = [d \in starts |-> {f \in got.rows : StartOf(f) = d}]
  BY DEF Timeline, FillTimeline, From, To
<1>4. \A f \in got.rows : StartOf(f) \in starts
  <2> HIDE DEF first, last
  <2> QED BY <1>1, <1>2, EveryStartIsReached
<1>5. \A d \in starts : d <= last
  <2> HIDE DEF first, last
  <2> QED BY <1>2 DEF Reached
<1>6. IsFiniteSet(got.rows)
  <2>1. TableInv /\ Running /\ request.kind = "timeline" /\ Left = {}
    BY AtTheEnd DEF Answered, Running, Left, RequestInv
  <2> QED BY <2>1, RowsAreSaved, SavedIsFinite
<1> HIDE DEF starts, first
<1>7. Total(Timeline) = Cardinality(got.rows)
  <2>1. /\ \A c \in DOMAIN Timeline : Timeline[c] \subseteq got.rows
        /\ \A r \in got.rows : \E c \in DOMAIN Timeline : r \in Timeline[c]
        /\ \A c, d \in DOMAIN Timeline : c # d => Timeline[c] \cap Timeline[d] = {}
    BY <1>3, <1>4
  <2> QED BY <1>6, <2>1, TotalOfPartition
<1>8. request.end # Null => To = LocalDate(request.end - 1, request.tz)
  BY DEF To
<1> HIDE DEF last
<1> QED BY <1>2, <1>3, <1>5, <1>7, <1>8

LEMMA TimelineInvariance == ViewsSpec => [](ViewsInv /\ TimelineInv)
<1>1. ViewsInit => ViewsInv /\ TimelineInv
  BY ViewsStart, TimelineStarts
<1>2. ViewsInv /\ TimelineInv /\ [ViewsNext]_<<tableVars, viewVars>> => (ViewsInv /\ TimelineInv)'
  BY ViewsKept, TimelineKept
<1> QED BY <1>1, <1>2, PTL DEF ViewsSpec

\* The timeline of a screen (FeedbackViews): the intervals of fillTimeline count every
\* row the query returned, once, for any period, time zone and calendar, also when
\* midnight passes between that query and the reading of today; and none begins
\* after the asked period.
THEOREM TheTimelineAddsUp == ViewsSpec => []TimelineLosesNothing
<1>1. ViewsInv /\ TimelineInv => TimelineLosesNothing
  BY TimelineDoes
<1> QED BY <1>1, TimelineInvariance, PTL

-----------------------------------------------------------------------------
(* The numbers of a screen.                                                  *)

LEMMA EveryNumber ==
  ASSUME ViewsInv, outcome = "answered", TimelineLosesNothing
  PROVE  /\ \A n \in Totals : Cardinality(Meaning(before.saved)) <= n /\ n <= Cardinality(Meaning(Saved))
         /\ \A n \in AnalyzedTotals :
              Cardinality(Meaning(before.analyzed)) <= n /\ n <= Cardinality(Meaning(analyzed))
<1>1. TableInv /\ RequestInv /\ \A q \in QueriesOf(request.kind) : Right(q)
  BY AtTheEnd
<1>2. CASE request.kind \in {"stats", "package"}
  <2>1. /\ Totals = {Cardinality(got.ratings), Cardinality(got.comments), ChannelTotal}
        /\ AnalyzedTotals = {Cardinality(got.analysis)}
    BY <1>2 DEF Totals, AnalyzedTotals
  <2>2. Right("ratings") /\ Right("comments") /\ Right("channels") /\ Right("analysis")
    BY <1>1, <1>2 DEF QueriesOf
  <2>3. Between(got.ratings) /\ Between(got.comments) /\ Between(got.channels) /\ BetweenAnalyzed(got.analysis)
    BY <2>2 DEF Right
  <2>4. ChannelTotal = Cardinality(got.channels)
    BY <1>1, <2>3, ChannelsAddUp
  <2> QED BY <1>1, <2>1, <2>3, <2>4, BetweenCounts, BetweenAnalyzedCounts
<1>3. CASE request.kind = "heatmap"
  <2>1. Totals = {Total(Heatmap)} /\ AnalyzedTotals = {}
    BY <1>3 DEF Totals, AnalyzedTotals
  <2>2. Right("rows")
    BY <1>1, <1>3 DEF QueriesOf
  <2>3. Between(got.rows)
    BY <1>3, <2>2 DEF Right
  <2>4. request.tz \in Int /\ got.rows \subseteq Saved
    BY <1>1, <1>3, <2>3 DEF RequestInv, Running, Zones, Between, Meaning
  <2>5. Total(Heatmap) = Cardinality(got.rows)
    BY <1>1, <2>4, HeatmapAddsUp
  <2> QED BY <1>1, <2>1, <2>3, <2>5, BetweenCounts
<1>4. CASE request.kind = "customers"
  <2>1. Totals = {Identified + Cardinality(VisitsOf("unidentified"))} /\ AnalyzedTotals = {}
    BY <1>4 DEF Totals, AnalyzedTotals
  <2>2. Right("visits")
    BY <1>1, <1>4 DEF QueriesOf
  <2>3. VisitsInv
    BY <2>2 DEF Right
  <2>4. Between({v[1] : v \in got.visits})
    BY <2>3 DEF VisitsInv
  <2>5. Identified + Cardinality(VisitsOf("unidentified")) = Cardinality({v[1] : v \in got.visits})
    BY <1>1, <2>3, VisitsAddUp
  <2> QED BY <1>1, <2>1, <2>4, <2>5, BetweenCounts
<1>5. CASE request.kind = "analysis"
  <2>1. Totals = {} /\ AnalyzedTotals = {Cardinality(got.rows)}
    BY <1>5 DEF Totals, AnalyzedTotals
  <2>2. Right("rows")
    BY <1>1, <1>5 DEF QueriesOf
  <2>3. BetweenAnalyzed(got.rows)
    BY <1>5, <2>2 DEF Right
  <2> QED BY <1>1, <2>1, <2>3, BetweenAnalyzedCounts
<1>6. CASE request.kind = "timeline"
  <2>1. Totals = (IF Timeline = Null THEN {} ELSE {Total(Timeline)}) /\ AnalyzedTotals = {}
    BY <1>6 DEF Totals, AnalyzedTotals
  <2>2. Timeline # Null => Total(Timeline) = Cardinality(got.rows)
    BY <1>6 DEF TimelineLosesNothing, Answered
  <2>3. Right("rows")
    BY <1>1, <1>6 DEF QueriesOf
  <2>4. Between(got.rows)
    BY <1>6, <2>3 DEF Right
  <2> QED BY <1>1, <2>1, <2>2, <2>4, BetweenCounts
<1>7. CASE request.kind \notin {"stats", "package", "heatmap", "customers", "analysis", "timeline"}
  BY <1>7 DEF Totals, AnalyzedTotals
<1> QED BY <1>2, <1>3, <1>4, <1>5, <1>6, <1>7

\* The numbers of a screen (FeedbackViews): every total of /stats, /analysis, /heatmap,
\* /customers, /timeline and of a package lies between its true value when the request
\* began and when it ended, for any feedback, scope, period, calendar and writers.
THEOREM NumbersAreTrue == ViewsSpec => []NumbersAreBracketed
<1>1. ViewsInv /\ TimelineInv => NumbersAreBracketed
  BY EveryNumber, TimelineDoes DEF NumbersAreBracketed
<1> QED BY <1>1, TimelineInvariance, PTL

LEMMA MaxIsLarger == ASSUME NEW n \in Int PROVE Max({0, n}) >= n /\ Max({0, n}) >= 0 /\ Max({0, n}) \in Int
<1>1. \E m \in {0, n} : \A y \in {0, n} : m >= y
  <2>1. CASE n >= 0
    BY <2>1
  <2>2. CASE ~ (n >= 0)
    BY <2>2
  <2> QED BY <2>1, <2>2
<1> QED BY <1>1 DEF Max

\* What waits is at least what was commented and is not analysed.
LEMMA WaitingCounted ==
  ASSUME TableInv, NEW S, S \subseteq Saved, NEW A, A \subseteq S, A \subseteq analyzed
  PROVE  /\ Cardinality(A) <= Cardinality(S)
         /\ Max({0, Cardinality(S) - Cardinality(A)}) >= Cardinality(S \ analyzed)
<1>1. IsFiniteSet(S) /\ Cardinality(S) \in Nat /\ Cardinality(A) \in Nat /\ Cardinality(A) <= Cardinality(S)
  BY Larger
<1>2. Cardinality(S \ A) = Cardinality(S) - Cardinality(S \cap A)
  BY <1>1, FS_Difference
<1>3. S \cap A = A
  OBVIOUS
<1>4. S \ analyzed \subseteq S \ A /\ S \ A \subseteq Saved
  OBVIOUS
<1>5. Cardinality(S \ analyzed) <= Cardinality(S \ A) /\ Cardinality(S \ analyzed) \in Nat /\ Cardinality(S \ A) \in Nat
  BY <1>4, Larger
<1>6. Cardinality(S \ A) = Cardinality(S) - Cardinality(A)
  BY <1>2, <1>3
<1>7. Max({0, Cardinality(S) - Cardinality(A)}) >= Cardinality(S) - Cardinality(A)
      /\ Max({0, Cardinality(S) - Cardinality(A)}) \in Int
  BY <1>1, MaxIsLarger
<1> QED BY <1>1, <1>5, <1>6, <1>7

LEMMA PendingIsEnough == ViewsInv => PendingNeverHidesAComment
<1> SUFFICES ASSUME ViewsInv PROVE PendingNeverHidesAComment
  OBVIOUS
<1>1. ASSUME Answered("stats")
      PROVE  /\ Cardinality(got.analysis) <= WithComment
             /\ Pending >= Cardinality({f \in got.comments \ analyzed : HasComment(f)})
  <2> DEFINE S == {f \in got.comments : HasComment(f)}
  <2>1. /\ TableInv /\ Right("comments") /\ Right("analysis")
        /\ got.analysis \subseteq Commented(Select) /\ got.analysis \subseteq got.comments
    BY <1>1, AtTheEnd DEF Answered, QueriesOf
  <2>2. got.comments \subseteq Saved /\ got.analysis \subseteq analyzed
    BY <2>1 DEF Right, Between, BetweenAnalyzed, Meaning
  <2>3. got.analysis \subseteq S /\ S \subseteq Saved
    BY <2>1, <2>2 DEF Commented
  <2>4. {f \in got.comments \ analyzed : HasComment(f)} = S \ analyzed
    OBVIOUS
  <2>5. WithComment = Cardinality(S) /\ Pending = Max({0, Cardinality(S) - Cardinality(got.analysis)})
    BY DEF WithComment, Pending
  <2> HIDE DEF S
  <2>6. /\ Cardinality(got.analysis) <= Cardinality(S)
        /\ Max({0, Cardinality(S) - Cardinality(got.analysis)}) >= Cardinality(S \ analyzed)
    BY <2>1, <2>2, <2>3, WaitingCounted
  <2> QED BY <2>4, <2>5, <2>6
<1>2. ASSUME Answered("package"), analyzed = before.analyzed
      PROVE  PackagePending >= Cardinality(got.count \ analyzed)
  <2>1. /\ TableInv /\ Right("count") /\ Right("analysis") /\ before.analyzed \subseteq before.saved
    BY <1>2, AtTheEnd DEF Answered, QueriesOf
  <2>2. got.count \subseteq Saved /\ got.analysis \subseteq analyzed
    BY <2>1 DEF Right, BetweenAnalyzed, Meaning, Commented
  <2>3. got.analysis \subseteq got.count
    BY <1>2, <2>1 DEF Right, BetweenAnalyzed, Meaning, Commented, TableInv
  <2>4. PackagePending = Max({0, Cardinality(got.count) - Cardinality(got.analysis)})
    BY DEF PackagePending
  <2> QED BY <2>1, <2>2, <2>3, <2>4, WaitingCounted
<1> QED BY <1>1, <1>2 DEF PendingNeverHidesAComment

\* "Pending" (FeedbackViews): /stats counts what the AI analysed before it counts the
\* comments, so it never reports fewer pending comments than those of its answer
\* that have no analysis; a package may, only when the AI stored something meanwhile.
THEOREM NoCommentIsHidden == ViewsSpec => []PendingNeverHidesAComment
BY PendingIsEnough, ViewsInvariance, PTL

LEMMA ImageIsSmaller == ASSUME TableInv, NEW S, S \subseteq Saved
  PROVE IsFiniteSet(DevicesOf(S)) /\ Cardinality(DevicesOf(S)) <= Cardinality(S) /\ Cardinality(DevicesOf(S)) \in Nat
<1> DEFINE g == [f \in S |-> content[f].device]
<1>1. g \in Surjection(S, DevicesOf(S))
  BY DEF Surjection, DevicesOf
<1> HIDE DEF g
<1>2. IsFiniteSet(S)
  BY SavedIsFinite
<1> QED BY <1>1, <1>2, FS_Surjection, FS_CardinalityType

\* Nobody visits for the first time twice.
LEMMA FirstVisitsDiffer ==
  ASSUME TableInv, NEW S, S \subseteq Saved,
         \A f \in S : CompanyOf(f) = Company /\ NotTest(f) /\ ~ (Sequence(f) > 1)
  PROVE  Cardinality(S) <= Cardinality(DevicesOf(S))
<1> DEFINE g == [f \in S |-> content[f].device]
<1>1. ASSUME NEW a \in S, NEW b \in S, content[a].device = content[b].device, a # b PROVE FALSE
  <2>1. Older(a, b) /\ Older(b, a)
    BY <1>1, FirstIsFirst
  <2>2. a \in Nat /\ b \in Nat /\ created[a] \in Int /\ created[b] \in Int
    BY DEF TableInv, Saved
  <2> QED BY <2>1, <2>2 DEF Older
<1>2. g \in [S -> DevicesOf(S)] /\ \A a, b \in S : g[a] = g[b] => a = b
  BY <1>1 DEF DevicesOf
<1>3. g \in Injection(S, DevicesOf(S))
  BY <1>2 DEF Injection, IsInjective
<1> HIDE DEF g
<1> QED BY <1>3, ImageIsSmaller, FS_Injection

LEMMA VisitsListed ==
  ASSUME NEW w, got.visits = {<<f, Visit(f)>> : f \in Select}
  PROVE  \A f : f \in VisitsOf(w) <=> f \in Select /\ Visit(f) = w
<1>1. ASSUME NEW f \in VisitsOf(w) PROVE f \in Select /\ Visit(f) = w
  BY <1>1 DEF VisitsOf
<1>2. ASSUME NEW f \in Select, Visit(f) = w PROVE f \in VisitsOf(w)
  <2>1. <<f, w>> \in got.visits /\ <<f, w>>[1] = f /\ <<f, w>>[2] = w
    BY <1>2
  <2> QED BY <2>1 DEF VisitsOf
<1> QED BY <1>1, <1>2

LEMMA CustomersDo == ViewsInv => CustomersAddUp
<1> SUFFICES ASSUME ViewsInv, Answered("customers")
             PROVE  /\ \A f \in VisitsOf("first"), g \in before.saved :
                         CompanyOf(g) = Company /\ NotTest(g) /\ content[g].device = content[f].device
                           => created[f] <= created[g]
                    /\ before.saved = Saved =>
                         /\ Cardinality(VisitsOf("first")) <= Cardinality(got.devices)
                         /\ Cardinality(got.devices) <= Cardinality(VisitsOf("first")) + Cardinality(got.again)
                         /\ Cardinality(got.again) <= Cardinality(VisitsOf("returning"))
  BY DEF CustomersAddUp
<1>1. TableInv /\ VisitsInv /\ DevicesInv
  <2>1. TableInv /\ Right("visits") /\ Right("devices")
    BY AtTheEnd DEF Answered, QueriesOf
  <2> QED BY <2>1 DEF Right
<1>2. \A f \in VisitsOf("first"), g \in before.saved :
        CompanyOf(g) = Company /\ NotTest(g) /\ content[g].device = content[f].device => created[f] <= created[g]
  BY <1>1 DEF VisitsOf, VisitsInv
<1>3. ASSUME before.saved = Saved
      PROVE  /\ Cardinality(VisitsOf("first")) <= Cardinality(got.devices)
             /\ Cardinality(got.devices) <= Cardinality(VisitsOf("first")) + Cardinality(got.again)
             /\ Cardinality(got.again) <= Cardinality(VisitsOf("returning"))
  <2> DEFINE First == VisitsOf("first")  Return == VisitsOf("returning")
  <2>1. /\ got.visits = {<<f, Visit(f)>> : f \in Select}
        /\ got.devices = DevicesOf(Identifiable) /\ got.again = DevicesOf(Again)
    BY <1>1, <1>3 DEF VisitsInv, DevicesInv
  <2>2. \A f : f \in First <=> f \in Select /\ Visit(f) = "first"
    BY <2>1, VisitsListed
  <2>3. \A f : f \in Return <=> f \in Select /\ Visit(f) = "returning"
    BY <2>1, VisitsListed
  <2>4. Return = Again /\ Identifiable = First \cup Again
    BY <2>2, <2>3 DEF Visit, Again, Identifiable
  <2>5. First \subseteq Saved /\ Again \subseteq Saved
        /\ \A f \in First : CompanyOf(f) = Company /\ NotTest(f) /\ ~ (Sequence(f) > 1)
    BY <2>2 DEF Visit, Again, Identifiable, Select, ScopedFeedbackWhere
  <2> HIDE DEF First, Return
  <2>6. DevicesOf(Identifiable) = DevicesOf(First) \cup DevicesOf(Again)
    BY <2>4 DEF DevicesOf
  <2>7. /\ Cardinality(First) <= Cardinality(DevicesOf(First))
        /\ IsFiniteSet(DevicesOf(First)) /\ IsFiniteSet(DevicesOf(Again))
        /\ Cardinality(DevicesOf(First)) \in Nat /\ Cardinality(DevicesOf(Again)) \in Nat
        /\ Cardinality(DevicesOf(First)) <= Cardinality(First)
        /\ Cardinality(DevicesOf(Again)) <= Cardinality(Again)
    BY <1>1, <2>5, ImageIsSmaller, FirstVisitsDiffer
  <2>8. /\ Cardinality(DevicesOf(First) \cup DevicesOf(Again)) =
             Cardinality(DevicesOf(First)) + Cardinality(DevicesOf(Again)) - Cardinality(DevicesOf(First) \cap DevicesOf(Again))
        /\ IsFiniteSet(DevicesOf(First) \cup DevicesOf(Again))
    BY <2>7, FS_Union
  <2>9. /\ Cardinality(DevicesOf(First) \cap DevicesOf(Again)) \in Nat
        /\ Cardinality(DevicesOf(First)) <= Cardinality(DevicesOf(First) \cup DevicesOf(Again))
    <3>1. IsFiniteSet(DevicesOf(First) \cap DevicesOf(Again))
      BY <2>7, FS_Intersection
    <3> QED BY <2>8, <3>1, FS_CardinalityType, FS_Subset
  <2>10. Cardinality(First) \in Nat /\ Cardinality(DevicesOf(First) \cup DevicesOf(Again)) \in Nat
    BY <1>1, <2>5, <2>8, SavedIsFinite, FS_CardinalityType
  <2> DEFINE a == Cardinality(DevicesOf(First))  b == Cardinality(DevicesOf(Again))
             c == Cardinality(DevicesOf(First) \cap DevicesOf(Again))  d == Cardinality(got.devices)
             n == Cardinality(First)
  <2>14. d = Cardinality(DevicesOf(First) \cup DevicesOf(Again)) /\ Cardinality(got.again) = b
    BY <2>1, <2>6
  <2>15. /\ n \in Nat /\ a \in Nat /\ b \in Nat /\ c \in Nat /\ d \in Nat
         /\ n <= a /\ a <= n /\ d = a + b - c /\ a <= d
    BY <2>7, <2>8, <2>9, <2>10, <2>14
  <2> HIDE DEF a, b, c, d, n
  <2>16. n <= d /\ d <= n + b
    BY <2>15
  <2>11. Cardinality(First) <= Cardinality(got.devices)
    BY <2>16 DEF n, d
  <2>12. Cardinality(got.devices) <= Cardinality(First) + Cardinality(got.again)
    BY <2>14, <2>16 DEF n, d
  <2>13. Cardinality(got.again) <= Cardinality(Return)
    BY <2>1, <2>4, <2>7
  <2> QED BY <2>11, <2>12, <2>13 DEF First, Return
<1> QED BY <1>2, <1>3

\* Customers (FeedbackViews): a first visit is the first of its device in the
\* company, whatever the scope, and the counts of visits and of devices agree
\* unless a feedback was committed between the two queries.
THEOREM CustomersAgree == ViewsSpec => []CustomersAddUp
BY CustomersDo, ViewsInvariance, PTL

-----------------------------------------------------------------------------
(* The rank of a row among the others.                                       *)

RankOf(f, S, R) == Cardinality({g \in S : <<g, f>> \in R})
TotalOrder(S, R) ==
  /\ \A f \in S : <<f, f>> \notin R
  /\ \A f, g, h \in S : <<f, g>> \in R /\ <<g, h>> \in R => <<f, h>> \in R
  /\ \A f, g \in S : f # g => <<f, g>> \in R \/ <<g, f>> \in R

LEMMA EarlierRanksLower ==
  ASSUME NEW S, IsFiniteSet(S), NEW R, TotalOrder(S, R), NEW f \in S, NEW g \in S, <<f, g>> \in R
  PROVE  RankOf(f, S, R) < RankOf(g, S, R)
<1> DEFINE A == {h \in S : <<h, f>> \in R}  B == {h \in S : <<h, g>> \in R}
<1>1. A \cup {f} \subseteq B /\ f \notin A /\ B \subseteq S /\ A \subseteq S
  BY DEF TotalOrder
<1>2. RankOf(f, S, R) = Cardinality(A) /\ RankOf(g, S, R) = Cardinality(B)
  BY DEF RankOf
<1> HIDE DEF A, B
<1>3. IsFiniteSet(A) /\ IsFiniteSet(B) /\ Cardinality(A) \in Nat /\ Cardinality(B) \in Nat
  BY <1>1, FS_Subset, FS_CardinalityType
<1>4. Cardinality(A \cup {f}) = Cardinality(A) + 1
  BY <1>1, <1>3, FS_AddElement
<1>5. Cardinality(A \cup {f}) <= Cardinality(B)
  BY <1>1, <1>3, FS_Subset
<1> QED BY <1>2, <1>3, <1>4, <1>5

LEMMA RankBounds ==
  ASSUME NEW S, IsFiniteSet(S), NEW R, TotalOrder(S, R), NEW f \in S
  PROVE  RankOf(f, S, R) \in 0 .. Cardinality(S) - 1
<1> DEFINE A == {h \in S : <<h, f>> \in R}
<1>1. A \subseteq S \ {f} /\ RankOf(f, S, R) = Cardinality(A)
  BY DEF TotalOrder, RankOf
<1> HIDE DEF A
<1>2. IsFiniteSet(S \ {f}) /\ Cardinality(S \ {f}) = Cardinality(S) - 1
  BY FS_RemoveElement
<1>3. Cardinality(A) <= Cardinality(S \ {f}) /\ Cardinality(A) \in Nat /\ Cardinality(S) \in Nat
  BY <1>1, <1>2, FS_Subset, FS_CardinalityType
<1> QED BY <1>1, <1>2, <1>3

\* A row at every rank.
LEMMA EveryRankIsTaken ==
  ASSUME NEW S, IsFiniteSet(S), NEW R, TotalOrder(S, R), NEW k \in 0 .. Cardinality(S) - 1
  PROVE  \E f \in S : RankOf(f, S, R) = k
<1> DEFINE T == 0 .. Cardinality(S) - 1
           r == [f \in S |-> RankOf(f, S, R)]
<1>1. r \in [S -> T]
  BY RankBounds
<1>2. ASSUME NEW f \in S, NEW g \in S, f # g PROVE RankOf(f, S, R) # RankOf(g, S, R)
  <2>1. CASE <<f, g>> \in R
    BY <2>1, EarlierRanksLower, RankBounds
  <2>2. CASE <<g, f>> \in R
    BY <2>2, EarlierRanksLower, RankBounds
  <2> QED BY <1>2, <2>1, <2>2 DEF TotalOrder
<1>3. r \in Injection(S, T)
  BY <1>1, <1>2 DEF Injection, IsInjective
<1>4. Cardinality(S) \in Nat
  BY FS_CardinalityType
<1>5. IsFiniteSet(T) /\ Cardinality(T) = Cardinality(S)
  BY <1>4, FS_Interval
<1>6. k \in T /\ \A f \in S : r[f] = RankOf(f, S, R)
  OBVIOUS
<1> HIDE DEF r, T
<1>7. r \in Surjection(S, T)
  BY <1>3, <1>5, FS_Injection
<1>8. \E f \in S : r[f] = k
  BY <1>6, <1>7 DEF Surjection
<1> QED BY <1>6, <1>8

\* There are n rows before rank n, or all of them.
LEMMA FirstRanks ==
  ASSUME NEW S, IsFiniteSet(S), NEW R, TotalOrder(S, R), NEW n \in Nat, n <= Cardinality(S)
  PROVE  Cardinality({f \in S : RankOf(f, S, R) < n}) = n
<1> DEFINE T == 0 .. n - 1  F == {f \in S : RankOf(f, S, R) < n}
           taker(k) == CHOOSE f \in S : RankOf(f, S, R) = k
           g == [k \in T |-> taker(k)]
<1>1. Cardinality(S) \in Nat
  BY FS_CardinalityType
<1>2. \A k \in T : taker(k) \in S /\ RankOf(taker(k), S, R) = k
  <2> TAKE k \in T
  <2>1. k \in 0 .. Cardinality(S) - 1
    BY <1>1
  <2>2. \E f \in S : RankOf(f, S, R) = k
    BY <2>1, EveryRankIsTaken
  <2> QED BY <2>2
<1>3. \A f, h \in S : RankOf(f, S, R) = RankOf(h, S, R) => f = h
  <2> SUFFICES ASSUME NEW f \in S, NEW h \in S, RankOf(f, S, R) = RankOf(h, S, R), f # h PROVE FALSE
    OBVIOUS
  <2>1. RankOf(f, S, R) < RankOf(h, S, R) \/ RankOf(h, S, R) < RankOf(f, S, R)
    BY EarlierRanksLower DEF TotalOrder
  <2> QED BY <2>1, RankBounds
<1> HIDE DEF taker
<1>4. \A f \in F : f \in S /\ RankOf(f, S, R) \in T
  BY RankBounds
<1>5. \A k \in T : taker(k) \in F
  BY <1>2
<1> HIDE DEF F
<1>6. g \in [T -> F] /\ \A f \in F : g[RankOf(f, S, R)] = f
  BY <1>2, <1>3, <1>4, <1>5
<1>7. \A a, b \in T : g[a] = g[b] => a = b
  BY <1>2
<1> HIDE DEF g
<1>8. g \in Bijection(T, F)
  BY <1>4, <1>6, <1>7 DEF Bijection, Injection, Surjection, IsInjective
<1>9. IsFiniteSet(T) /\ Cardinality(T) = n
  BY FS_Interval
<1> HIDE DEF T
<1>10. Cardinality(F) = n
  BY <1>8, <1>9, FS_Bijection DEF ExistsBijection
<1> QED BY <1>10 DEF F

-----------------------------------------------------------------------------
(* AnalysisSelection.                                                        *)

Waiting == {f \in ScopeComments : f \notin analyzed}
JobInv ==
  /\ job.item \in Items \cup {Null} /\ job.scope \in Kinds \cup {"COMPANY", Null}
  /\ job.limit \in (Nat \ {0}) \cup {Null}

\* What a comment of the scope that still waits may be: selected, or younger
\* than everything selected, which a limit cut off.
LeftInv ==
  \A f \in asked.comments \ analyzed :
    f \in selected \/ (job.limit # Null /\ \A g \in selected : Older(g, f))

BatchesInv ==
  /\ \A b \in batches : b.feedbacks \subseteq selected
  /\ \A b, c \in batches : b # c => b.feedbacks \cap c.feedbacks = {}

SelectionInv ==
  /\ TableInv /\ JobInv /\ BatchesInv
  /\ selected \subseteq ScopeComments
  /\ asked.comments \subseteq ScopeComments /\ asked.analyzed \subseteq analyzed
  /\ at \in {"new", "pending", "count", "recheck", "batches", "done", "nothing", "refused", "failed"}
  /\ at \in {"new", "pending", "count", "recheck"} => batches = {}
  /\ at \notin {"new", "pending"} => LeftInv
  /\ at \in {"count", "recheck"} => selected # {} /\ selected \cap asked.analyzed = {}
  /\ at = "batches" => selected \ analyzed \subseteq UNION {b.feedbacks : b \in batches}
  /\ at = "done" => selected \subseteq analyzed
  /\ at = "nothing" => selected = {} /\ (analyzed = asked.analyzed => asked.comments \subseteq analyzed)
  /\ at = "refused" => Cardinality(asked.comments) < MinFeedbacks

LEMMA ScopeIsSaved ==
  ScopeComments \subseteq {f \in Saved : HasComment(f) /\ NotTest(f)}
BY DEF ScopeComments, ScopedFeedbackWhere

\* What the query selects passes the filter of the execution.
LEMMA ScopePasses == ASSUME TableInv, JobInv, NEW f \in ScopeComments PROVE Passes(f)
<1>1. ScopePoints # {} /\ (ScopePoints # Null => content[f].point \in ScopePoints)
  BY DEF ScopeComments, ScopedFeedbackWhere
<1>2. CASE job.scope = Null /\ job.item = Null
  BY <1>2, NullIsNothing DEF Passes
<1>3. CASE job.scope = "COMPANY" /\ job.item # Null
  BY <1>1, <1>3, NullIsNothing DEF ScopePoints
<1>4. CASE job.scope = "COMPANY" /\ job.item = Null
  <2>1. ScopePoints = PointsOfItem(Company, Null)
    BY <1>4, NullIsNothing DEF ScopePoints
  <2>2. ItemOf[content[f].point] = Null
    BY <1>1, <2>1, NullIsNothing DEF PointsOfItem
  <2> QED BY <1>4, <2>2 DEF Passes, ScopeOf, ItemOfFeedback
<1>5. CASE job.scope # "COMPANY" /\ job.item # Null
  <2>1. ScopePoints = IF job.scope # Null /\ job.item \notin ItemsOfKind(Company, job.scope) THEN {}
                      ELSE PointsOfItem(Company, job.item)
    BY <1>5, NullIsNothing DEF ScopePoints
  <2>2. ScopePoints = PointsOfItem(Company, job.item) /\ ItemOf[content[f].point] = job.item
    BY <1>1, <2>1, NullIsNothing DEF PointsOfItem
  <2>3. job.scope # Null => KindOf[job.item] = job.scope
    BY <1>1, <2>1 DEF ItemsOfKind
  <2> QED BY <1>5, <2>2, <2>3, NullIsNothing DEF Passes, ScopeOf, ItemOfFeedback
<1>6. CASE job.scope \notin {"COMPANY", Null} /\ job.item = Null
  <2>1. ScopePoints = IF ItemsOfKind(Company, job.scope) = {} THEN {}
                      ELSE PointsOfItems(Company, ItemsOfKind(Company, job.scope))
    BY <1>6, NullIsNothing DEF ScopePoints
  <2>2. ItemOf[content[f].point] \in ItemsOfKind(Company, job.scope)
    BY <1>1, <2>1, NullIsNothing DEF PointsOfItems
  <2> QED BY <1>6, <2>2, NullIsNothing DEF Passes, ScopeOf, ItemOfFeedback, ItemsOfKind
<1> QED BY <1>2, <1>3, <1>4, <1>5, <1>6

\* Points and items are only added, so the scope only grows.
LEMMA ScopeGrows == ASSUME TableInv, Grows, job' = job PROVE ScopeComments \subseteq ScopeComments'
<1>1. /\ \A i : PointsOfItem(Company, i) \subseteq PointsOfItem(Company, i)'
      /\ \A k : ItemsOfKind(Company, k) \subseteq ItemsOfKind(Company, k)'
      /\ \A I, J : I # {} /\ I \subseteq J => PointsOfItems(Company, I) \subseteq PointsOfItems(Company, J)'
  BY DEF PointsOfItem, ItemsOfKind, PointsOfItems, Grows
<1>2. /\ \A i : PointsOfItem(Company, i)' # Null /\ PointsOfItem(Company, i) # Null
      /\ \A I : PointsOfItems(Company, I)' # Null /\ PointsOfItems(Company, I) # Null
      /\ Null # {}
  BY NullIsNothing DEF PointsOfItem, PointsOfItems
<1>3. (ScopePoints = Null <=> ScopePoints' = Null) /\ (ScopePoints # Null => ScopePoints \subseteq ScopePoints')
  <2>1. CASE job.scope = Null /\ job.item = Null
    BY <2>1, NullIsNothing DEF ScopePoints
  <2>2. CASE job.scope = "COMPANY" /\ job.item # Null
    BY <2>2, NullIsNothing DEF ScopePoints
  <2>3. CASE job.scope = "COMPANY" /\ job.item = Null
    BY <2>3, <1>1, <1>2, NullIsNothing DEF ScopePoints
  <2>4. CASE job.scope # "COMPANY" /\ job.item # Null
    BY <2>4, <1>1, <1>2 DEF ScopePoints
  <2>5. CASE job.scope \notin {"COMPANY", Null} /\ job.item = Null
    BY <2>5, <1>1, <1>2 DEF ScopePoints
  <2> QED BY <2>1, <2>2, <2>3, <2>4, <2>5
<1>4. ScopePoints = {} => ScopeComments = {}
  BY DEF ScopeComments
<1>5. ScopePoints # {} => ScopePoints' # {}
  BY <1>2, <1>3
<1>6. ASSUME ScopePoints # {}, NEW f \in ScopeComments PROVE f \in ScopeComments'
  <2>1. f \in Saved /\ CompanyOf(f) = Company /\ NotTest(f) /\ HasComment(f)
        /\ (ScopePoints # Null => content[f].point \in ScopePoints)
    BY <1>6 DEF ScopeComments, ScopedFeedbackWhere
  <2>2. /\ f \in Saved' /\ CompanyOf(f)' = Company /\ NotTest(f)' /\ HasComment(f)'
        /\ (ScopePoints' # Null => content'[f].point \in ScopePoints')
    BY <1>3, <2>1 DEF Grows, CompanyOf, NotTest, HasComment
  <2> QED BY <1>5, <1>6, <2>2 DEF ScopeComments, ScopedFeedbackWhere, InPeriod
<1> QED BY <1>4, <1>6

OlderThan == {p \in Saved \X Saved : Older(p[1], p[2])}
NewerThan == {p \in Saved \X Saved : Newer(p[1], p[2])}

LEMMA AgeOrders == ASSUME TableInv, NEW S, S \subseteq Saved
  PROVE  /\ TotalOrder(S, OlderThan) /\ TotalOrder(S, NewerThan)
         /\ \A f \in S : /\ RankOf(f, S, OlderThan) = Cardinality(Before(f, S))
                         /\ RankOf(f, S, NewerThan) = Cardinality({g \in S : Newer(g, f)})
<1>1. \A f \in S : f \in Nat /\ created[f] \in Int
  BY DEF TableInv, Saved
<1>2. \A f, g \in S : /\ <<f, g>> \in OlderThan <=> Older(f, g)
                      /\ <<f, g>> \in NewerThan <=> Newer(f, g)
  BY DEF OlderThan, NewerThan
<1>3. TotalOrder(S, OlderThan)
  <2>1. \A f \in S : ~ Older(f, f)
    BY <1>1 DEF Older
  <2>2. \A f, g, h \in S : Older(f, g) /\ Older(g, h) => Older(f, h)
    BY <1>1 DEF Older
  <2>3. \A f, g \in S : f # g => Older(f, g) \/ Older(g, f)
    BY <1>1 DEF Older
  <2> QED BY <1>2, <2>1, <2>2, <2>3 DEF TotalOrder
<1>4. TotalOrder(S, NewerThan)
  <2>1. \A f \in S : ~ Newer(f, f)
    BY <1>1 DEF Newer
  <2>2. \A f, g, h \in S : Newer(f, g) /\ Newer(g, h) => Newer(f, h)
    BY <1>1 DEF Newer
  <2>3. \A f, g \in S : f # g => Newer(f, g) \/ Newer(g, f)
    BY <1>1 DEF Newer
  <2> QED BY <1>2, <2>1, <2>2, <2>3 DEF TotalOrder
<1>5. ASSUME NEW f \in S
      PROVE  /\ RankOf(f, S, OlderThan) = Cardinality(Before(f, S))
             /\ RankOf(f, S, NewerThan) = Cardinality({g \in S : Newer(g, f)})
  <2>1. /\ {g \in S : <<g, f>> \in OlderThan} = Before(f, S)
        /\ {g \in S : <<g, f>> \in NewerThan} = {g \in S : Newer(g, f)}
    BY <1>2 DEF Before
  <2> QED BY <2>1 DEF RankOf
<1> QED BY <1>3, <1>4, <1>5

\* A limited selection takes the oldest: what it leaves is younger than what it takes.
LEMMA OldestFirst ==
  ASSUME TableInv, JobInv, NEW S, S \subseteq Saved, NEW f \in S, f \notin Oldest(S, job.limit)
  PROVE  /\ job.limit # Null /\ \A g \in Oldest(S, job.limit) : Older(g, f)
         /\ Oldest(S, job.limit) # {}
<1>1. job.limit # Null /\ job.limit \in Nat \ {0}
  BY DEF Oldest, JobInv
<1>2. Oldest(S, job.limit) = {g \in S : RankOf(g, S, OlderThan) < job.limit} /\ Oldest(S, job.limit) \subseteq S
  <2>1. Oldest(S, job.limit) = {g \in S : Cardinality(Before(g, S)) < job.limit}
    BY <1>1 DEF Oldest
  <2>2. \A g \in S : Cardinality(Before(g, S)) = RankOf(g, S, OlderThan)
    BY AgeOrders
  <2> QED BY <2>1, <2>2
<1>3. IsFiniteSet(S) /\ TotalOrder(S, OlderThan) /\ Cardinality(S) \in Nat
  BY AgeOrders, SavedIsFinite
<1>4. \A g \in S : RankOf(g, S, OlderThan) \in 0 .. Cardinality(S) - 1
  BY <1>3, RankBounds
<1>5. ASSUME NEW g \in Oldest(S, job.limit) PROVE Older(g, f)
  <2>1. g \in S /\ RankOf(g, S, OlderThan) < job.limit /\ ~ (RankOf(f, S, OlderThan) < job.limit)
    BY <1>2
  <2>2. ~ (<<f, g>> \in OlderThan)
    <3>1. <<f, g>> \in OlderThan => RankOf(f, S, OlderThan) < RankOf(g, S, OlderThan)
      BY <1>3, <2>1, EarlierRanksLower
    <3> QED BY <1>1, <1>4, <2>1, <3>1
  <2>3. <<g, f>> \in OlderThan
    BY <1>3, <2>1, <2>2 DEF TotalOrder
  <2> QED BY <2>3 DEF OlderThan
<1>6. Oldest(S, job.limit) # {}
  <2>1. 0 \in 0 .. Cardinality(S) - 1
    BY <1>3, <1>4
  <2>2. PICK g \in S : RankOf(g, S, OlderThan) = 0
    BY <1>3, <2>1, EveryRankIsTaken
  <2> QED BY <1>1, <1>2, <2>2
<1> QED BY <1>1, <1>5, <1>6

LEMMA SelectionStarts == SelectionInit => SelectionInv
<1> SUFFICES ASSUME SelectionInit PROVE SelectionInv
  OBVIOUS
<1>1. PICK s \in Selections : job = s.job /\ TableInit(s)
  BY DEF SelectionInit
<1>2. TableInv
  BY <1>1, SelectionsAssumption, TableStarts
<1>3. JobInv
  BY <1>1, SelectionsAssumption DEF JobInv
<1> QED BY <1>2, <1>3 DEF SelectionInit, SelectionInv, BatchesInv

\* What stays true of a job while others write.
LEMMA OthersWrite ==
  ASSUME SelectionInv, TableInv', Grows, UNCHANGED selectionVars,
         at \in {"new", "pending", "count", "recheck", "batches"} \/ UNCHANGED tableVars
  PROVE  SelectionInv'
<1>1. UNCHANGED <<job, at, selected, batches, asked>>
  BY DEF selectionVars
<1>2. ScopeComments \subseteq ScopeComments'
  BY <1>1, ScopeGrows DEF SelectionInv
<1>3. asked.comments \subseteq Saved /\ selected \subseteq Saved
  BY ScopeIsSaved DEF SelectionInv
<1>4. \A f, g \in Saved : Older(f, g)' <=> Older(f, g)
  BY DEF Older, Grows
<1>5. LeftInv => LeftInv'
  BY <1>1, <1>3, <1>4 DEF LeftInv, Grows, SelectionInv
<1>6. selected' \subseteq ScopeComments'
  BY <1>1, <1>2 DEF SelectionInv
<1>7. JobInv' /\ BatchesInv'
  BY <1>1 DEF SelectionInv, JobInv, BatchesInv
<1>8. UNCHANGED tableVars => analyzed' = analyzed
  BY DEF tableVars
<1>9. /\ asked'.comments \subseteq ScopeComments' /\ asked'.analyzed \subseteq analyzed'
      /\ at' = "batches" => selected' \ analyzed' \subseteq UNION {b.feedbacks : b \in batches'}
      /\ at' = "done" => selected' \subseteq analyzed'
      /\ at' = "nothing" => selected' = {} /\ (analyzed' = asked'.analyzed => asked'.comments \subseteq analyzed')
  BY <1>1, <1>2, <1>8 DEF SelectionInv, Grows
<1> QED BY <1>1, <1>5, <1>6, <1>7, <1>9 DEF SelectionInv

LEMMA BeginSelects == ASSUME SelectionInv, BeginSelection PROVE SelectionInv'
<1>1. TableInv' /\ Saved' = Saved /\ UNCHANGED <<content, life, created, analyzed, made>>
  BY TableStays DEF SelectionInv, BeginSelection, tableVars, Saved, Feedbacks
<1>2. ScopeComments' = ScopeComments
  <2>1. UNCHANGED job
    BY DEF BeginSelection
  <2>2. ScopePoints' = ScopePoints
    BY <1>1, <2>1 DEF ScopePoints, PointsOfItem, ItemsOfKind, PointsOfItems
  <2> QED BY <1>1, <2>2 DEF ScopeComments, ScopedFeedbackWhere, CompanyOf, NotTest, HasComment, InPeriod
<1>3. JobInv' /\ BatchesInv'
  BY DEF SelectionInv, JobInv, BatchesInv, BeginSelection
<1>4. asked'.comments = ScopeComments /\ asked'.analyzed = analyzed
  BY DEF BeginSelection
<1> QED BY <1>1, <1>2, <1>3, <1>4 DEF SelectionInv, BeginSelection, HasComment, NotTest

\* The table during a step that only reads.
LEMMA JobReads ==
  ASSUME SelectionInv, UNCHANGED <<job, tableVars>>
  PROVE  /\ TableInv' /\ JobInv' /\ Saved' = Saved /\ analyzed' = analyzed
         /\ ScopeComments' = ScopeComments /\ Waiting' = Waiting
         /\ \A f : (HasComment(f)' <=> HasComment(f)) /\ (NotTest(f)' <=> NotTest(f))
         /\ \A f, g : Older(f, g)' <=> Older(f, g)
<1>1. TableInv' /\ Saved' = Saved /\ UNCHANGED <<content, life, created, analyzed, made>>
  BY TableStays DEF SelectionInv, tableVars, Saved, Feedbacks
<1>2. ScopePoints' = ScopePoints
  BY <1>1 DEF ScopePoints, PointsOfItem, ItemsOfKind, PointsOfItems
<1>3. ScopeComments' = ScopeComments
  BY <1>1, <1>2 DEF ScopeComments, ScopedFeedbackWhere, CompanyOf, NotTest, HasComment, InPeriod
<1>4. Waiting' = Waiting /\ JobInv'
  BY <1>1, <1>3 DEF Waiting, SelectionInv, JobInv
<1>5. \A f : (HasComment(f)' <=> HasComment(f)) /\ (NotTest(f)' <=> NotTest(f))
  BY <1>1 DEF HasComment, NotTest
<1>6. \A f, g : Older(f, g)' <=> Older(f, g)
  BY <1>1 DEF Older
<1> QED BY <1>1, <1>3, <1>4, <1>5, <1>6

LEMMA FetchSelects == ASSUME SelectionInv, FetchPending PROVE SelectionInv'
<1>1. selected' = Oldest(Waiting, job.limit)
  <2>1. PendingRows(job.limit) = Oldest(Waiting, job.limit)
    <3>1. ScopeComments \ analyzed = Waiting
      BY DEF Waiting
    <3> QED BY <3>1 DEF PendingRows
  <2>2. Oldest(Waiting, job.limit) \subseteq ScopeComments
    BY DEF Oldest, Waiting
  <2>3. \A f \in ScopeComments : Passes(f)
    BY ScopePasses DEF SelectionInv
  <2>4. selected' = applyExecutionFilter(PendingRows(job.limit))
    BY DEF FetchPending
  <2> QED BY <2>1, <2>2, <2>3, <2>4 DEF applyExecutionFilter
<1>2. selected' \subseteq Waiting
  BY <1>1 DEF Oldest
<1>3. UNCHANGED <<job, batches, asked, tableVars>> /\ at = "pending"
  BY DEF FetchPending
<1>4. /\ TableInv' /\ JobInv' /\ Saved' = Saved /\ analyzed' = analyzed /\ ScopeComments' = ScopeComments
      /\ \A f : (HasComment(f)' <=> HasComment(f)) /\ (NotTest(f)' <=> NotTest(f))
      /\ \A f, g : Older(f, g)' <=> Older(f, g)
  BY <1>3, JobReads
<1>5. ASSUME NEW f \in asked.comments \ analyzed, f \notin selected'
      PROVE  job.limit # Null /\ selected' # {} /\ \A g \in selected' : Older(g, f)
  <2>1. f \in Waiting /\ Waiting \subseteq Saved
    BY <1>5, ScopeIsSaved DEF SelectionInv, Waiting
  <2> QED BY <1>1, <1>5, <2>1, OldestFirst DEF SelectionInv
<1>6. LeftInv'
  BY <1>3, <1>4, <1>5 DEF LeftInv
<1>7. selected' = {} => asked.comments \subseteq analyzed
  BY <1>5
<1>8. /\ at' \in {"nothing", "count", "recheck"}
      /\ at' = "nothing" <=> selected' = {}
  BY DEF FetchPending
<1>9. selected' \subseteq ScopeComments'
  BY <1>2, <1>4 DEF Waiting
<1>10. BatchesInv' /\ batches' = {}
  BY <1>3 DEF SelectionInv, BatchesInv
<1>11. selected' \cap asked.analyzed = {}
  BY <1>2 DEF Waiting, SelectionInv
<1> QED BY <1>3, <1>4, <1>6, <1>7, <1>8, <1>9, <1>10, <1>11 DEF SelectionInv

LEMMA CountSelects == ASSUME SelectionInv, CountScope PROVE SelectionInv'
<1>1. UNCHANGED <<job, selected, batches, asked, tableVars>> /\ at = "count" /\ at' \in {"refused", "recheck"}
  BY DEF CountScope
<1>2. /\ TableInv' /\ JobInv' /\ Saved' = Saved /\ analyzed' = analyzed /\ ScopeComments' = ScopeComments
      /\ \A f : (HasComment(f)' <=> HasComment(f)) /\ (NotTest(f)' <=> NotTest(f))
      /\ \A f, g : Older(f, g)' <=> Older(f, g)
  BY <1>1, JobReads
<1>3. LeftInv' /\ BatchesInv'
  BY <1>1, <1>2 DEF SelectionInv, LeftInv, BatchesInv
<1>4. ASSUME at' = "refused" PROVE Cardinality(asked.comments) < MinFeedbacks
  <2> DEFINE S == ScopeComments
  <2>1. S \subseteq Saved /\ IsFiniteSet(S) /\ Cardinality(S) \in Nat
    BY ScopeIsSaved, SavedIsFinite DEF SelectionInv
  <2>2. TotalOrder(S, NewerThan) /\ \A f \in S : RankOf(f, S, NewerThan) = Cardinality({g \in S : Newer(g, f)})
    BY <2>1, AgeOrders DEF SelectionInv
  <2>3. ScopeRows(MinFeedbacks) = {f \in S : RankOf(f, S, NewerThan) < MinFeedbacks}
    BY <2>2 DEF ScopeRows
  <2>4. applyExecutionFilter(ScopeRows(MinFeedbacks)) = ScopeRows(MinFeedbacks)
    BY <2>3, ScopePasses DEF applyExecutionFilter, SelectionInv
  <2>5. Cardinality(ScopeRows(MinFeedbacks)) < MinFeedbacks
    BY <1>4, <2>4 DEF CountScope
  <2>6. MinFeedbacks \in Nat
    BY SelectionsAssumption
  <2> HIDE DEF S
  <2>7. ~ (MinFeedbacks <= Cardinality(S))
    <3>1. MinFeedbacks <= Cardinality(S) => Cardinality({f \in S : RankOf(f, S, NewerThan) < MinFeedbacks}) = MinFeedbacks
      BY <2>1, <2>2, <2>6, FirstRanks
    <3> QED BY <2>3, <2>5, <2>6, <3>1
  <2>8. asked.comments \subseteq S
    BY DEF S, SelectionInv
  <2>9. Cardinality(asked.comments) <= Cardinality(S) /\ Cardinality(asked.comments) \in Nat
    BY <2>1, <2>8, FS_Subset, FS_CardinalityType
  <2> QED BY <2>1, <2>6, <2>7, <2>9
<1> QED BY <1>1, <1>2, <1>3, <1>4 DEF SelectionInv

\* Every comment is in one batch.
LEMMA BatchesCut ==
  ASSUME NEW rows, \A f \in rows : Passes(f)
  PROVE  LET bs == chunkBatchesBySize(buildScopeBatches(rows))
         IN  /\ \A b \in bs : b.feedbacks \subseteq rows
             /\ rows \subseteq UNION {b.feedbacks : b \in bs}
             /\ \A b, c \in bs : b # c => b.feedbacks \cap c.feedbacks = {}
<1> DEFINE whole == buildScopeBatches(rows)
           bs == chunkBatchesBySize(whole)
           Like(f) == {g \in rows : ScopeOf(g) = ScopeOf(f) /\ ItemOfFeedback(g) = ItemOfFeedback(f)}
           Piece(f, S) == {g \in S : Chunk(g, S) = Chunk(f, S)}
<1>1. \A b : b \in whole <=> \E f \in rows : b = [scope |-> ScopeOf(f), item |-> ItemOfFeedback(f), feedbacks |-> Like(f)]
  BY DEF buildScopeBatches, applyExecutionFilter
<1>2. \A x : x \in bs <=> \E b \in whole : \E f \in b.feedbacks : x = [b EXCEPT !.feedbacks = Piece(f, b.feedbacks)]
  BY DEF chunkBatchesBySize
<1> HIDE DEF whole, bs
<1>3. \A b \in whole : /\ b = [scope |-> b.scope, item |-> b.item, feedbacks |-> b.feedbacks]
                       /\ \A f \in b.feedbacks : f \in rows /\ b.scope = ScopeOf(f) /\ b.item = ItemOfFeedback(f) /\ b.feedbacks = Like(f)
  BY <1>1
<1>4. \A f \in rows : \E b \in whole : f \in b.feedbacks
  <2> TAKE f \in rows
  <2> DEFINE b == [scope |-> ScopeOf(f), item |-> ItemOfFeedback(f), feedbacks |-> Like(f)]
  <2>1. b \in whole /\ f \in b.feedbacks
    BY <1>1
  <2> QED BY <2>1
<1>5. \A b, c \in whole : \A f : f \in b.feedbacks /\ f \in c.feedbacks => b = c
  BY <1>3
<1> HIDE DEF Like
<1>6. \A x \in bs : \E b \in whole : \E f \in b.feedbacks :
        /\ x = [b EXCEPT !.feedbacks = Piece(f, b.feedbacks)] /\ x.feedbacks = Piece(f, b.feedbacks)
  BY <1>2, <1>3
<1>7. \A x \in bs : x.feedbacks \subseteq rows
  BY <1>6, <1>3
<1>8. \A g \in rows : \E x \in bs : g \in x.feedbacks
  <2> TAKE g \in rows
  <2>1. PICK b \in whole : g \in b.feedbacks
    BY <1>4
  <2> DEFINE x == [b EXCEPT !.feedbacks = Piece(g, b.feedbacks)]
  <2>2. x \in bs
    BY <1>2, <2>1
  <2>3. x.feedbacks = Piece(g, b.feedbacks)
    BY <1>3, <2>1
  <2> QED BY <2>1, <2>2, <2>3
<1>9. ASSUME NEW x \in bs, NEW y \in bs, NEW g, g \in x.feedbacks, g \in y.feedbacks PROVE x = y
  <2>1. PICK b \in whole : \E f \in b.feedbacks :
          x = [b EXCEPT !.feedbacks = Piece(f, b.feedbacks)] /\ x.feedbacks = Piece(f, b.feedbacks)
    BY <1>6
  <2>2. PICK c \in whole : \E f \in c.feedbacks :
          y = [c EXCEPT !.feedbacks = Piece(f, c.feedbacks)] /\ y.feedbacks = Piece(f, c.feedbacks)
    BY <1>6
  <2>3. g \in b.feedbacks /\ g \in c.feedbacks
    BY <1>9, <2>1, <2>2
  <2>4. b = c
    BY <1>5, <2>3
  <2>5. x.feedbacks = Piece(g, b.feedbacks) /\ y.feedbacks = Piece(g, b.feedbacks)
    BY <1>9, <2>1, <2>2, <2>4
  <2> QED BY <2>1, <2>2, <2>4, <2>5
<1>10. rows \subseteq UNION {b.feedbacks : b \in bs}
  BY <1>8
<1>11. \A b, c \in bs : b # c => b.feedbacks \cap c.feedbacks = {}
  BY <1>9
<1> QED BY <1>7, <1>10, <1>11 DEF bs, whole

LEMMA RecheckSelects == ASSUME SelectionInv, Recheck PROVE SelectionInv'
<1>1. /\ UNCHANGED <<job, asked, tableVars>> /\ at = "recheck" /\ at' \in {"nothing", "batches"}
      /\ selected' = selected \ analyzed
  BY DEF Recheck
<1>2. /\ TableInv' /\ JobInv' /\ Saved' = Saved /\ analyzed' = analyzed /\ ScopeComments' = ScopeComments
      /\ \A f : (HasComment(f)' <=> HasComment(f)) /\ (NotTest(f)' <=> NotTest(f))
      /\ \A f, g : Older(f, g)' <=> Older(f, g)
  BY <1>1, JobReads
<1>3. \A f \in selected' : Passes(f)
  <2> SUFFICES ASSUME NEW f \in selected PROVE Passes(f)
    BY <1>1
  <2> QED BY ScopePasses DEF SelectionInv
<1>4. BatchesInv' /\ selected' \subseteq UNION {b.feedbacks : b \in batches'}
  BY <1>3, BatchesCut DEF Recheck, BatchesInv
<1>5. LeftInv'
  BY <1>1, <1>2 DEF SelectionInv, LeftInv
<1>6. at' = "nothing" => selected' = {} /\ analyzed # asked.analyzed
  <2>1. at' = "nothing" => batches' = {}
    BY DEF Recheck
  <2> QED BY <1>1, <1>4, <2>1 DEF SelectionInv
<1>7. selected' \subseteq ScopeComments'
  BY <1>1, <1>2 DEF SelectionInv
<1> QED BY <1>1, <1>2, <1>4, <1>5, <1>6, <1>7 DEF SelectionInv

\* An answer that is complete names every comment of the batch.
LEMMA CompleteAnswers ==
  ASSUME NEW E, IsFiniteSet(E), NEW reply \in Answers(E), Complete(reply, E)
  PROVE  {reply[i] : i \in DOMAIN reply} = E
<1>1. PICK n \in 0 .. Cardinality(E) + 1 : reply \in [1 .. n -> E \cup {Null}]
  BY DEF Answers
<1>2. n \in Nat /\ DOMAIN reply = 1 .. n /\ IsFiniteSet(1 .. n) /\ Cardinality(1 .. n) = n
  BY <1>1, FS_CardinalityType, FS_Interval
<1>3. reply \in [1 .. n -> E] /\ n = Cardinality(E)
  BY <1>1, <1>2 DEF Complete
<1>4. \A a, b \in 1 .. n : reply[a] = reply[b] => a = b
  <2> SUFFICES ASSUME NEW a \in 1 .. n, NEW b \in 1 .. n, a < b PROVE reply[b] # reply[a]
    BY <1>2
  <2>1. a \in 1 .. b - 1
    BY <1>2
  <2> QED BY <1>2, <2>1 DEF Complete
<1>5. reply \in Injection(1 .. n, E)
  BY <1>3, <1>4 DEF Injection, IsInjective
<1>6. reply \in Surjection(1 .. n, E)
  BY <1>2, <1>3, <1>5, FS_Injection
<1> QED BY <1>2, <1>3, <1>6 DEF Surjection

LEMMA RunSelects == ASSUME SelectionInv, NEW b \in batches, RunBatch(b) PROVE SelectionInv'
<1> DEFINE sent == b.feedbacks \ analyzed
<1>1. UNCHANGED <<job, selected, asked, content, life, created, made, clock>> /\ at = "batches"
  BY DEF RunBatch
<1>2. sent \subseteq ScopeComments /\ IsFiniteSet(sent)
  <2>1. sent \subseteq ScopeComments /\ ScopeComments \subseteq Saved /\ TableInv
    BY ScopeIsSaved DEF SelectionInv, BatchesInv
  <2> HIDE DEF sent
  <2> QED BY <2>1, SavedIsFinite
<1>3. \/ sent = {} /\ batches' = batches \ {b} /\ analyzed' = analyzed /\ at' = at
      \/ analyzed' = analyzed \cup sent /\ batches' = batches \ {b} /\ at' = at
      \/ at' = "failed" /\ analyzed' = analyzed /\ batches' = batches
  <2>1. CASE sent = {} /\ batches' = batches \ {b} /\ UNCHANGED <<analyzed, at>>
    BY <2>1
  <2>2. CASE \E reply \in Answers(sent) :
              IF Complete(reply, sent)
                THEN /\ analyzed' = analyzed \cup {reply[i] : i \in DOMAIN reply}
                     /\ batches' = batches \ {b} /\ UNCHANGED at
                ELSE at' = "failed" /\ UNCHANGED <<analyzed, batches>>
    <3>1. PICK reply \in Answers(sent) :
              IF Complete(reply, sent)
                THEN /\ analyzed' = analyzed \cup {reply[i] : i \in DOMAIN reply}
                     /\ batches' = batches \ {b} /\ UNCHANGED at
                ELSE at' = "failed" /\ UNCHANGED <<analyzed, batches>>
      BY <2>2
    <3> HIDE DEF sent
    <3>2. Complete(reply, sent) => {reply[i] : i \in DOMAIN reply} = sent
      BY <1>2, CompleteAnswers
    <3> QED BY <3>1, <3>2
  <2> QED BY <2>1, <2>2 DEF RunBatch
<1>4. analyzed \subseteq analyzed' /\ analyzed' \subseteq analyzed \cup sent /\ Saved' = Saved
  BY <1>1, <1>3 DEF Saved, Feedbacks
<1>5. TableInv' /\ Grows
  <2>1. \A f \in sent : f \in Saved /\ HasComment(f) /\ NotTest(f)
    BY <1>2, ScopeIsSaved
  <2> HIDE DEF sent
  <2> QED BY <1>1, <1>4, <2>1 DEF SelectionInv, TableInv, Grows, Feedbacks, Saved, HasComment, NotTest
<1>6. ScopeComments \subseteq ScopeComments'
  BY <1>1, <1>5, ScopeGrows DEF SelectionInv
<1>7. LeftInv'
  BY <1>1, <1>4 DEF SelectionInv, LeftInv, Older
<1>8. BatchesInv' /\ JobInv'
  BY <1>1, <1>3 DEF SelectionInv, BatchesInv, JobInv
<1>9. at' = "batches" => selected \ analyzed' \subseteq UNION {c.feedbacks : c \in batches'}
  <2> SUFFICES ASSUME at' = "batches", NEW f \in selected, f \notin analyzed'
               PROVE  \E c \in batches' : f \in c.feedbacks
    OBVIOUS
  <2>1. PICK c \in batches : f \in c.feedbacks
    BY <1>1, <1>4 DEF SelectionInv
  <2>2. c # b
    BY <1>3, <2>1
  <2> QED BY <1>3, <2>1, <2>2
<1> HIDE DEF sent
<1> QED BY <1>1, <1>3, <1>4, <1>5, <1>6, <1>7, <1>8, <1>9 DEF SelectionInv

LEMMA FinishSelects == ASSUME SelectionInv, FinishSelection PROVE SelectionInv'
<1>1. /\ UNCHANGED <<job, selected, batches, asked, tableVars>> /\ at = "batches" /\ at' = "done" /\ batches = {}
  BY DEF FinishSelection
<1>2. /\ TableInv' /\ JobInv' /\ Saved' = Saved /\ analyzed' = analyzed /\ ScopeComments' = ScopeComments
      /\ \A f, g : Older(f, g)' <=> Older(f, g)
  BY <1>1, JobReads
<1>3. LeftInv' /\ BatchesInv'
  BY <1>1, <1>2 DEF SelectionInv, LeftInv, BatchesInv
<1> QED BY <1>1, <1>2, <1>3 DEF SelectionInv

LEMMA SelectionKept == ASSUME SelectionInv, [SelectionNext]_<<tableVars, selectionVars>> PROVE SelectionInv'
<1>1. CASE /\ at \in {"new", "pending", "count", "recheck", "batches"} /\ Write(LastSelectionTick)
           /\ UNCHANGED selectionVars
  <2>1. TableInv' /\ Grows
    BY <1>1, TableKept DEF SelectionInv
  <2> QED BY <1>1, <2>1, OthersWrite
<1>2. CASE UNCHANGED <<tableVars, selectionVars>>
  <2>1. TableInv' /\ Grows
    BY <1>2, TableStays DEF SelectionInv
  <2> QED BY <1>2, <2>1, OthersWrite
<1> QED BY <1>1, <1>2, BeginSelects, FetchSelects, CountSelects, RecheckSelects, RunSelects, FinishSelects
    DEF SelectionNext

\* The selection of an analysis (AnalysisSelection): a job that ends leaves no comment
\* of its scope without analysis that was there when it began, a limit leaves only
\* younger ones; nothing is sent twice; and it refuses only scopes with too few comments.
THEOREM NothingIsLeftPending == SelectionSpec => []NothingPendingIsLeft
<1>1. SelectionInit => SelectionInv
  BY SelectionStarts
<1>2. SelectionInv /\ [SelectionNext]_<<tableVars, selectionVars>> => SelectionInv'
  BY SelectionKept
<1>3. SelectionInv => NothingPendingIsLeft
  <2> SUFFICES ASSUME SelectionInv PROVE NothingPendingIsLeft
    OBVIOUS
  <2>1. at \in {"done", "nothing"} =>
          \A f \in asked.comments \ analyzed : job.limit # Null /\ \A g \in selected : Older(g, f)
    BY DEF SelectionInv, LeftInv
  <2> QED BY <2>1 DEF SelectionInv, BatchesInv, NothingPendingIsLeft
<1> QED BY <1>1, <1>2, <1>3, PTL DEF SelectionSpec

-----------------------------------------------------------------------------
(* QuestionMetrics.                                                          *)

FormsInv ==
  /\ config \in [Questions \cup Subquestions -> [text : Texts, active : BOOLEAN]]
  /\ form = [f \in Forms |-> form[f]] /\ seen = [f \in Forms |-> seen[f]]
  /\ \A f \in Forms :
       /\ form[f] \in {"none", "questions", "filled", "saved"}
       /\ DOMAIN seen[f] \subseteq Questions \cup Subquestions
       /\ seen[f] = [x \in DOMAIN seen[f] |-> seen[f][x]]
       /\ \A x \in DOMAIN seen[f] : seen[f][x] \in Texts
       /\ form[f] \in {"none", "questions"} => DOMAIN seen[f] \subseteq Questions
       /\ \A x \in DOMAIN seen[f] \cap Subquestions : ParentOf[x] \in DOMAIN seen[f]

MetricsInv ==
  /\ FormsInv
  /\ ask \in {"feedback", "answers", "subanswers", "defs", "subdefs", "answered", "failed"}
  /\ past = feedbackIds /\ feedbackIds \subseteq SavedForms
  /\ ask \in {"subanswers", "defs", "subdefs"} => answerRows = AnswersOf(feedbackIds, Questions)
  /\ ask \in {"defs", "subdefs"} => subAnswerRows = AnswersOf(feedbackIds, Subquestions)
  /\ ask = "subdefs" => DOMAIN currentQ = {r[2] : r \in answerRows}
  /\ ask = "answered" => MetricsCoverTheAnswers
  /\ ask \in {"feedback", "answers", "subanswers", "defs", "subdefs"} => metrics = {}

LEMMA MetricsStart == QuestionsInit => MetricsInv
<1> SUFFICES ASSUME QuestionsInit PROVE MetricsInv
  OBVIOUS
<1>1. config \in [Questions \cup Subquestions -> [text : Texts, active : BOOLEAN]]
  BY QuestionsAssumption DEF QuestionsInit
<1>2. FormsInv
  BY <1>1 DEF QuestionsInit, FormsInv, NoQuestions
<1> QED BY <1>2 DEF QuestionsInit, MetricsInv, SavedForms

\* The answers of a saved form never change.
LEMMA AnswersStay ==
  ASSUME MetricsInv, feedbackIds' = feedbackIds,
         \A f \in SavedForms : form'[f] = "saved" /\ seen'[f] = seen[f]
  PROVE  /\ AnswersOf(feedbackIds, Questions)' = AnswersOf(feedbackIds, Questions)
         /\ AnswersOf(feedbackIds, Subquestions)' = AnswersOf(feedbackIds, Subquestions)
         /\ SavedForms \subseteq SavedForms'
<1>1. \A f \in feedbackIds : seen'[f] = seen[f]
  BY DEF MetricsInv
<1> QED BY <1>1 DEF AnswersOf, SavedForms

LEMMA FormsMove ==
  ASSUME MetricsInv, ask \notin {"answered", "failed"}, UNCHANGED readVars,
         FormsInv', \A f \in SavedForms : form'[f] = "saved" /\ seen'[f] = seen[f]
  PROVE  MetricsInv'
<1>1. UNCHANGED <<ask, feedbackIds, answerRows, subAnswerRows, currentQ, metrics, past>>
  BY DEF readVars
<1> QED BY <1>1, AnswersStay DEF MetricsInv

LEMMA WritersKeepMetrics ==
  ASSUME MetricsInv, ask \notin {"answered", "failed"},
         \/ \E x \in Questions \cup Subquestions : Edit(x)
         \/ \E f \in Forms : ReadQuestions(f) \/ ReadSubquestions(f) \/ SaveAnswers(f)
  PROVE  MetricsInv'
<1>0. FormsInv
  BY DEF MetricsInv
<1>1. ASSUME NEW x \in Questions \cup Subquestions, Edit(x) PROVE MetricsInv'
  <2>1. FormsInv'
    BY <1>0, <1>1 DEF Edit, FormsInv, formVars
  <2>2. UNCHANGED readVars /\ \A f \in SavedForms : form'[f] = "saved" /\ seen'[f] = seen[f]
    BY <1>1 DEF Edit, formVars, SavedForms
  <2> QED BY <2>1, <2>2, FormsMove
<1>2. ASSUME NEW f \in Forms, ReadQuestions(f) PROVE MetricsInv'
  <2> DEFINE ids0 == {q \in Questions : config[q].active}
  <2>1. /\ form[f] = "none" /\ form' = [form EXCEPT ![f] = "questions"]
        /\ seen' = [seen EXCEPT ![f] = Wording(ids0)] /\ config' = config /\ UNCHANGED readVars
    BY <1>2 DEF ReadQuestions, configVars
  <2>2. /\ DOMAIN Wording(ids0) = ids0 /\ Wording(ids0) = [x \in ids0 |-> Wording(ids0)[x]]
        /\ \A x \in ids0 : Wording(ids0)[x] \in Texts
    BY <1>0 DEF Wording, FormsInv
  <2>3. ids0 \subseteq Questions
    OBVIOUS
  <2> HIDE DEF ids0
  <2> DEFINE w0 == Wording(ids0)
  <2>a. /\ w0 = [x \in DOMAIN w0 |-> w0[x]] /\ DOMAIN w0 \subseteq Questions
        /\ \A x \in DOMAIN w0 : w0[x] \in Texts
    BY <2>2, <2>3
  <2>b. seen' = [seen EXCEPT ![f] = w0]
    BY <2>1
  <2> HIDE DEF w0
  <2>c. DOMAIN w0 \cap Subquestions = {}
    BY <2>a, QuestionsAssumption
  <2>d. form' = [g \in Forms |-> form'[g]] /\ seen' = [g \in Forms |-> seen'[g]]
    BY <1>0, <2>1, <2>b DEF FormsInv
  <2>e. form'[f] = "questions" /\ seen'[f] = w0
    BY <1>0, <2>1, <2>b DEF FormsInv
  <2>f. \A g \in Forms \ {f} : form'[g] = form[g] /\ seen'[g] = seen[g]
    BY <1>0, <2>1, <2>b DEF FormsInv
  <2>4. FormsInv'
    BY <1>0, <2>1, <2>a, <2>c, <2>d, <2>e, <2>f DEF FormsInv
  <2>5. \A g \in SavedForms : form'[g] = "saved" /\ seen'[g] = seen[g]
    BY <1>0, <2>1 DEF SavedForms, FormsInv
  <2> QED BY <2>1, <2>4, <2>5, FormsMove
<1>3. ASSUME NEW f \in Forms, ReadSubquestions(f) PROVE MetricsInv'
  <2> DEFINE subs == {s \in Subquestions : ParentOf[s] \in DOMAIN seen[f] /\ config[s].active}
             w == [x \in DOMAIN seen[f] \cup subs |-> IF x \in subs THEN config[x].text ELSE seen[f][x]]
  <2>1. /\ form[f] = "questions" /\ form' = [form EXCEPT ![f] = "filled"]
        /\ seen' = [seen EXCEPT ![f] = w] /\ config' = config /\ UNCHANGED readVars
    BY <1>3 DEF ReadSubquestions, configVars
  <2>2. DOMAIN seen[f] \subseteq Questions /\ \A x \in DOMAIN seen[f] : seen[f][x] \in Texts
    BY <1>0, <2>1 DEF FormsInv
  <2>3. /\ DOMAIN w = DOMAIN seen[f] \cup subs /\ w = [x \in DOMAIN w |-> w[x]]
        /\ \A x \in DOMAIN w : w[x] \in Texts
    BY <1>0, <2>2 DEF FormsInv
  <2>4. DOMAIN w \subseteq Questions \cup Subquestions /\ \A x \in DOMAIN w \cap Subquestions : ParentOf[x] \in DOMAIN w
    BY <2>2, <2>3, QuestionsAssumption
  <2> HIDE DEF subs, w
  <2>5. FormsInv'
    BY <1>0, <2>1, <2>3, <2>4 DEF FormsInv
  <2>6. \A g \in SavedForms : form'[g] = "saved" /\ seen'[g] = seen[g]
    BY <1>0, <2>1 DEF SavedForms, FormsInv
  <2> QED BY <2>1, <2>5, <2>6, FormsMove
<1>4. ASSUME NEW f \in Forms, SaveAnswers(f) PROVE MetricsInv'
  <2>1. FormsInv'
    BY <1>0, <1>4 DEF SaveAnswers, FormsInv, configVars
  <2>2. UNCHANGED readVars /\ \A g \in SavedForms : form'[g] = "saved" /\ seen'[g] = seen[g]
    BY <1>0, <1>4 DEF SaveAnswers, SavedForms, FormsInv
  <2> QED BY <2>1, <2>2, FormsMove
<1> QED BY <1>1, <1>2, <1>3, <1>4

\* The queries that only collect rows.
LEMMA CollectKeeps ==
  ASSUME MetricsInv, ReadFeedbacks \/ ReadAnswers \/ ReadSubAnswers \/ ReadQuestionDefs \/ MetricsFail
  PROVE  MetricsInv'
<1>1. UNCHANGED <<config, form, seen>> /\ FormsInv' /\ SavedForms' = SavedForms
  BY DEF MetricsInv, FormsInv, ReadFeedbacks, ReadAnswers, ReadSubAnswers, ReadQuestionDefs, MetricsFail, configVars, formVars, SavedForms
<1>2. CASE ReadFeedbacks
  <2>1. SavedForms = {} => past' = {} /\ metrics' = {}
    BY <1>2 DEF ReadFeedbacks, MetricsInv
  <2>2. ask' = "answered" => MetricsCoverTheAnswers'
    BY <1>2, <2>1 DEF ReadFeedbacks, MetricsCoverTheAnswers
  <2> QED BY <1>1, <1>2, <2>2 DEF MetricsInv, ReadFeedbacks
<1>3. ASSUME feedbackIds' = feedbackIds
      PROVE  /\ AnswersOf(feedbackIds, Questions)' = AnswersOf(feedbackIds, Questions)
             /\ AnswersOf(feedbackIds, Subquestions)' = AnswersOf(feedbackIds, Subquestions)
  BY <1>1, <1>3 DEF AnswersOf
<1>4. feedbackIds \cap SavedForms = feedbackIds
  BY DEF MetricsInv
<1>5. CASE ReadAnswers
  BY <1>1, <1>3, <1>4, <1>5 DEF MetricsInv, ReadAnswers
<1>6. CASE ReadSubAnswers
  BY <1>1, <1>3, <1>4, <1>6 DEF MetricsInv, ReadSubAnswers
<1>7. CASE ReadQuestionDefs
  BY <1>1, <1>3, <1>7 DEF MetricsInv, ReadQuestionDefs
<1>8. CASE MetricsFail
  BY <1>1, <1>8 DEF MetricsInv, MetricsFail
<1> QED BY <1>2, <1>5, <1>6, <1>7, <1>8

Agg(rows, i, t) == [id |-> i, text |-> t, from |-> {o \in rows : o[2] = i /\ o[3] = t}]

LEMMA AggregatesAre ==
  ASSUME NEW rows
  PROVE  /\ \A a \in Aggregates(rows) : /\ a = Agg(rows, a.id, a.text) /\ a.from # {}
                                        /\ \A o \in a.from : o \in rows /\ o[2] = a.id /\ o[3] = a.text
         /\ \A r \in rows : Agg(rows, r[2], r[3]) \in Aggregates(rows) /\ r \in Agg(rows, r[2], r[3]).from
         /\ \A i, t : Agg(rows, i, t).id = i /\ Agg(rows, i, t).text = t
<1>1. \A a : a \in Aggregates(rows) <=> \E r \in rows : a = Agg(rows, r[2], r[3])
  BY DEF Aggregates, Agg
<1>2. \A i, t : /\ Agg(rows, i, t).id = i /\ Agg(rows, i, t).text = t
                /\ Agg(rows, i, t).from = {o \in rows : o[2] = i /\ o[3] = t}
  BY DEF Agg
<1>3. \A a \in Aggregates(rows) : \E r \in rows : a = Agg(rows, r[2], r[3]) /\ a.id = r[2] /\ a.text = r[3]
  BY <1>1, <1>2
<1>4. \A r \in rows : r \in Agg(rows, r[2], r[3]).from
  BY <1>2
<1>5. \A a \in Aggregates(rows) : a = Agg(rows, a.id, a.text) /\ a.from # {} /\ a.from = {o \in rows : o[2] = a.id /\ o[3] = a.text}
  BY <1>2, <1>3, <1>4
<1> QED BY <1>1, <1>2, <1>4, <1>5

\* There are finitely many answers, and finitely many entries.
LEMMA FinitelyMany == ASSUME MetricsInv PROVE IsFiniteSet(Aggregates(AnswersOf(feedbackIds, Questions)))
<1> DEFINE rows == AnswersOf(feedbackIds, Questions)
           P == {p \in feedbackIds \X Questions : p[2] \in DOMAIN seen[p[1]]}
           g == [p \in P |-> <<p[1], p[2], seen[p[1]][p[2]]>>]
           h == [r \in rows |-> Agg(rows, r[2], r[3])]
<1>1. feedbackIds \subseteq Forms
  BY DEF MetricsInv, SavedForms
<1>2. IsFiniteSet(feedbackIds \X Questions)
  BY <1>1, QuestionsAssumption, FS_Subset, FS_Product
<1>3. IsFiniteSet(P)
  BY <1>2, FS_Subset
<1>4. ASSUME NEW p \in P PROVE g[p] \in rows
  BY <1>1 DEF AnswersOf, MetricsInv, FormsInv
<1>5. ASSUME NEW r \in rows PROVE \E p \in P : g[p] = r
  <2> DEFINE p == <<r[1], r[2]>>
  <2>1. p \in P /\ g[p] = r
    BY DEF AnswersOf
  <2> QED BY <2>1
<1> HIDE DEF P
<1>6. g \in Surjection(P, rows)
  BY <1>4, <1>5 DEF Surjection
<1> HIDE DEF g, rows
<1>7. IsFiniteSet(rows)
  BY <1>3, <1>6, FS_Surjection
<1>8. h \in Surjection(rows, Aggregates(rows))
  BY DEF Surjection, Aggregates, Agg
<1> HIDE DEF h
<1>9. IsFiniteSet(Aggregates(rows))
  BY <1>7, <1>8, FS_Surjection
<1> QED BY <1>9 DEF rows

SubEntry(b) ==
  [sub |-> b.id, text |-> b.text, from |-> b.from,
   status |-> subMetricStatus(IF ParentOf[b.id] \in DOMAIN currentQ THEN currentQ[ParentOf[b.id]] ELSE NoConfig,
                              config[b.id], b.text)]
Entry(a, host) ==
  [question |-> a.id, text |-> a.text, from |-> a.from,
   status |-> questionMetricStatus(currentQ[a.id], a.text),
   subquestions |-> IF a \in host THEN SubsOf(a.id) ELSE {}]

LEMMA EntriesAre ==
  /\ \A q : SubsOf(q) = {SubEntry(b) : b \in {c \in Aggregates(subAnswerRows) : ParentOf[c.id] = q}}
  /\ \A b : SubEntry(b).sub = b.id /\ SubEntry(b).from = b.from
  /\ \A a, host : /\ Entry(a, host).question = a.id /\ Entry(a, host).from = a.from
                  /\ Entry(a, host).status = questionMetricStatus(currentQ[a.id], a.text)
                  /\ Entry(a, host).subquestions = IF a \in host THEN SubsOf(a.id) ELSE {}
<1>1. ASSUME NEW q PROVE SubsOf(q) = {SubEntry(b) : b \in {c \in Aggregates(subAnswerRows) : ParentOf[c.id] = q}}
  <2>1. \A x : x \in SubsOf(q) <=> \E b \in {c \in Aggregates(subAnswerRows) : ParentOf[c.id] = q} : x = SubEntry(b)
    BY DEF SubsOf, SubEntry
  <2> QED BY <2>1
<1>2. \A b : SubEntry(b).sub = b.id /\ SubEntry(b).from = b.from
  BY DEF SubEntry
<1>3. \A a, host : /\ Entry(a, host).question = a.id /\ Entry(a, host).from = a.from
                   /\ Entry(a, host).status = questionMetricStatus(currentQ[a.id], a.text)
                   /\ Entry(a, host).subquestions = IF a \in host THEN SubsOf(a.id) ELSE {}
  BY DEF Entry
<1> QED BY <1>1, <1>2, <1>3

\* The answer: every row of the two queries has one place in it.
LEMMA AnswerCovers == ASSUME MetricsInv, ReadSubquestionDefs PROVE MetricsCoverTheAnswers'
<1> DEFINE rows == AnswersOf(feedbackIds, Questions)
           subs == AnswersOf(feedbackIds, Subquestions)
           aggs == Aggregates(rows)
           of(q) == {a \in aggs : a.id = q}
<1>1. /\ ask = "subdefs" /\ answerRows = rows /\ subAnswerRows = subs /\ DOMAIN currentQ = {r[2] : r \in rows}
      /\ past = feedbackIds /\ past' = past /\ seen' = seen
  BY DEF ReadSubquestionDefs, MetricsInv, formVars
<1>2. PICK host \in SUBSET aggs :
         /\ \A q \in DOMAIN currentQ :
              /\ host \cap of(q) = host \cap Hosts(q, of(q))
              /\ Cardinality(host \cap Hosts(q, of(q))) = IF Hosts(q, of(q)) = {} THEN 0 ELSE 1
         /\ metrics' = {Entry(a, host) : a \in aggs}
  BY <1>1 DEF ReadSubquestionDefs, Entry
<1>3. /\ \A r \in rows : r[1] \in past /\ r[2] \in Questions /\ r = <<r[1], r[2], r[3]>>
      /\ \A r \in subs : r[1] \in past /\ r[2] \in Subquestions /\ r = <<r[1], r[2], r[3]>>
  BY <1>1 DEF AnswersOf
<1>4. ASSUME NEW f \in past, NEW x \in DOMAIN seen[f]
      PROVE  /\ x \in Questions \/ x \in Subquestions
             /\ x \in Questions => <<f, x, seen[f][x]>> \in rows
             /\ x \in Subquestions => <<f, x, seen[f][x]>> \in subs /\ ParentOf[x] \in DOMAIN seen[f] /\ ParentOf[x] \in Questions
  BY <1>1, QuestionsAssumption DEF MetricsInv, FormsInv, AnswersOf, SavedForms
<1>5. IsFiniteSet(aggs)
  BY FinitelyMany
<1>6. /\ \A a \in aggs : /\ a = Agg(rows, a.id, a.text) /\ a.from # {}
                         /\ \A o \in a.from : o \in rows /\ o[2] = a.id /\ o[3] = a.text
      /\ \A r \in rows : Agg(rows, r[2], r[3]) \in aggs /\ r \in Agg(rows, r[2], r[3]).from
      /\ \A i, t : Agg(rows, i, t).id = i /\ Agg(rows, i, t).text = t
  BY AggregatesAre
<1>7. /\ \A a \in Aggregates(subs) : /\ a = Agg(subs, a.id, a.text) /\ a.from # {}
                                     /\ \A o \in a.from : o \in subs /\ o[2] = a.id /\ o[3] = a.text
      /\ \A r \in subs : Agg(subs, r[2], r[3]) \in Aggregates(subs) /\ r \in Agg(subs, r[2], r[3]).from
      /\ \A i, t : Agg(subs, i, t).id = i /\ Agg(subs, i, t).text = t
  BY AggregatesAre
<1>8. \A a \in aggs : a.id \in DOMAIN currentQ
  BY <1>1, <1>6
<1>9. \A q : SubsOf(q) = {SubEntry(b) : b \in {c \in Aggregates(subs) : ParentOf[c.id] = q}}
  BY <1>1, EntriesAre
<1> HIDE DEF rows, subs, aggs
<1>10. ASSUME NEW f \in past, NEW x \in DOMAIN seen[f], x \in Questions
       PROVE  Cardinality(Places(f, x)') = 1
  <2> DEFINE r == <<f, x, seen[f][x]>>
             a0 == Agg(rows, x, seen[f][x])
  <2>1. r \in rows /\ a0 \in aggs /\ r \in a0.from
    BY <1>4, <1>6, <1>10
  <2>2. \A a \in aggs : r \in a.from => a = a0
    BY <1>6
  <2>3. \A e \in metrics' : \A s \in e.subquestions : r \notin s.from
    <3> SUFFICES ASSUME NEW a \in aggs, NEW s \in SubsOf(a.id), r \in s.from PROVE FALSE
      BY <1>2, EntriesAre
    <3>1. PICK b \in Aggregates(subs) : s = SubEntry(b)
      BY <1>9
    <3>2. r \in b.from
      BY <3>1, EntriesAre
    <3>3. x \in Subquestions
      BY <1>3, <1>7, <3>2
    <3> QED BY <3>3, <1>10, QuestionsAssumption
  <2>4. {e \in metrics' : r \in e.from} = {Entry(a0, host)}
    BY <1>2, <2>1, <2>2, EntriesAre
  <2>5. Places(f, x)' = {Entry(a0, host)}
    BY <1>1, <2>3, <2>4 DEF Places
  <2> QED BY <2>5, FS_Singleton
<1>11. ASSUME NEW f \in past, NEW x \in DOMAIN seen[f], x \in Subquestions
       PROVE  Cardinality(Places(f, x)') = 1
  <2> DEFINE r == <<f, x, seen[f][x]>>
             b0 == Agg(subs, x, seen[f][x])
             q == ParentOf[x]
  <2>1. r \in subs /\ b0 \in Aggregates(subs) /\ r \in b0.from /\ b0.id = x
    BY <1>4, <1>7, <1>11
  <2>2. \A b \in Aggregates(subs) : r \in b.from => b = b0
    BY <1>7
  <2>3. <<f, q, seen[f][q]>> \in rows
    BY <1>4, <1>11
  <2>4. q \in DOMAIN currentQ /\ of(q) # {}
    BY <1>1, <1>6, <2>3
  <2>5. Hosts(q, of(q)) # {} /\ Hosts(q, of(q)) \subseteq of(q)
    BY <2>4 DEF Hosts
  <2>6. PICK h : host \cap of(q) = {h}
    <3>1. Cardinality(host \cap of(q)) = 1
      BY <1>2, <2>4, <2>5
    <3>2. IsFiniteSet(host \cap of(q))
      BY <1>5, FS_Subset
    <3> QED BY <3>1, <3>2, FS_Singleton
  <2>7. h \in host /\ h \in aggs /\ h.id = q
    BY <2>6
  <2>8. \A e \in metrics' : r \notin e.from
    <3> SUFFICES ASSUME NEW a \in aggs, r \in a.from PROVE FALSE
      BY <1>2, EntriesAre
    <3>1. r[2] \in Questions
      BY <1>3, <1>6
    <3> QED BY <3>1, <1>11, QuestionsAssumption
  <2>9. Entry(h, host) \in metrics' /\ SubEntry(b0) \in Entry(h, host).subquestions
    BY <1>2, <1>9, <2>1, <2>7, EntriesAre
  <2>10. ASSUME NEW a \in aggs, NEW s \in Entry(a, host).subquestions, r \in s.from
         PROVE  a = h /\ s = SubEntry(b0)
    <3>1. a \in host /\ s \in SubsOf(a.id)
      BY <2>10, EntriesAre
    <3>2. PICK b \in Aggregates(subs) : s = SubEntry(b) /\ ParentOf[b.id] = a.id
      BY <1>9, <3>1
    <3>3. b = b0
      BY <2>2, <2>10, <3>2, EntriesAre
    <3>4. a \in host \cap of(q)
      BY <2>1, <3>1, <3>2, <3>3
    <3> QED BY <2>6, <3>2, <3>3, <3>4
  <2> DEFINE place == <<Entry(h, host), SubEntry(b0)>>
  <2>11. r \in SubEntry(b0).from
    BY <2>1, EntriesAre
  <2>12. \A p \in metrics' \X UNION {e.subquestions : e \in metrics'} :
            p[2] \in p[1].subquestions /\ r \in p[2].from <=> p = place
    <3> SUFFICES ASSUME NEW e \in metrics', NEW s, s \in e.subquestions, r \in s.from
                 PROVE  e = Entry(h, host) /\ s = SubEntry(b0)
      BY <2>9, <2>11
    <3>1. PICK a \in aggs : e = Entry(a, host)
      BY <1>2
    <3> QED BY <2>10, <3>1
  <2>13. place \in metrics' \X UNION {e.subquestions : e \in metrics'}
    BY <2>9
  <2> HIDE DEF place
  <2>14. Places(f, x)' = {place}
    BY <1>1, <2>8, <2>12, <2>13 DEF Places
  <2> QED BY <2>14, FS_Singleton
<1>12. ASSUME NEW e \in metrics'
       PROVE  /\ \A r \in e.from : r[1] \in past
              /\ \A s \in e.subquestions : /\ ParentOf[s.sub] = e.question
                                           /\ \A r \in s.from : r[1] \in past
  <2>1. PICK a \in aggs : e = Entry(a, host)
    BY <1>2
  <2>2. \A r \in e.from : r[1] \in past
    BY <1>3, <1>6, <2>1, EntriesAre
  <2>3. ASSUME NEW s \in e.subquestions PROVE ParentOf[s.sub] = e.question /\ \A r \in s.from : r[1] \in past
    <3>1. PICK b \in Aggregates(subs) : s = SubEntry(b) /\ ParentOf[b.id] = a.id
      BY <1>9, <2>1, EntriesAre
    <3> QED BY <1>3, <1>7, <2>1, <3>1, EntriesAre
  <2> QED BY <2>2, <2>3
<1>13. ASSUME NEW e \in metrics', NEW o \in metrics', e.question = o.question, e.status # "past", e # o
       PROVE  o.status = "past" /\ o.subquestions = {}
  <2>1. PICK a \in aggs : e = Entry(a, host)
    BY <1>2
  <2>2. PICK b \in aggs : o = Entry(b, host)
    BY <1>2
  <2>3. a.id = b.id /\ a # b /\ a.id \in DOMAIN currentQ
    BY <1>8, <1>13, <2>1, <2>2, EntriesAre
  <2>4. a.text # b.text
    BY <1>6, <2>3
  <2>5. currentQ[a.id].text = a.text
    BY <1>13, <2>1, EntriesAre DEF questionMetricStatus
  <2>6. o.status = "past"
    BY <2>2, <2>3, <2>4, <2>5, EntriesAre DEF questionMetricStatus
  <2>7. a \in of(a.id) /\ b \in of(a.id)
    BY <2>3
  <2>8. b \notin Hosts(a.id, of(a.id))
    BY <2>4, <2>5, <2>7 DEF Hosts
  <2>9. b \notin host
    BY <1>2, <2>3, <2>7, <2>8
  <2> QED BY <2>2, <2>6, <2>9, EntriesAre
<1> QED BY <1>1, <1>4, <1>10, <1>11, <1>12, <1>13 DEF MetricsCoverTheAnswers

LEMMA MetricsKept == ASSUME MetricsInv, [QuestionsNext]_metricVars PROVE MetricsInv'
<1>1. CASE ReadSubquestionDefs
  <2>1. MetricsCoverTheAnswers'
    BY <1>1, AnswerCovers
  <2>2. UNCHANGED <<config, form, seen, feedbackIds, past>> /\ ask' = "answered"
    BY <1>1 DEF ReadSubquestionDefs, configVars, formVars
  <2>3. FormsInv' /\ SavedForms' = SavedForms
    BY <2>2 DEF MetricsInv, FormsInv, SavedForms
  <2> QED BY <2>1, <2>2, <2>3 DEF MetricsInv
<1>2. CASE UNCHANGED metricVars
  <2>1. UNCHANGED <<config, form, seen, ask, feedbackIds, answerRows, subAnswerRows, currentQ, metrics, past>>
    BY <1>2 DEF metricVars, configVars, formVars, readVars
  <2>2. FormsInv' /\ SavedForms' = SavedForms
    BY <2>1 DEF MetricsInv, FormsInv, SavedForms
  <2>3. /\ AnswersOf(feedbackIds, Questions)' = AnswersOf(feedbackIds, Questions)
        /\ AnswersOf(feedbackIds, Subquestions)' = AnswersOf(feedbackIds, Subquestions)
    BY <2>1 DEF AnswersOf
  <2>4. MetricsCoverTheAnswers => MetricsCoverTheAnswers'
    BY <2>1 DEF MetricsCoverTheAnswers, Places
  <2> QED BY <2>1, <2>2, <2>3, <2>4 DEF MetricsInv
<1> QED BY <1>1, <1>2, WritersKeepMetrics, CollectKeeps DEF QuestionsNext

\* The numbers of each question (QuestionMetrics): every answer of every feedback saved
\* before the request is counted once, under its own question, whatever is edited or
\* sent between its five queries; one wording at most is not past and shows the subquestions.
THEOREM EveryAnswerIsCounted == QuestionsSpec => []MetricsCoverTheAnswers
<1>1. QuestionsInit => MetricsInv
  BY MetricsStart
<1>2. MetricsInv /\ [QuestionsNext]_metricVars => MetricsInv'
  BY MetricsKept
<1>3. MetricsInv => MetricsCoverTheAnswers
  BY DEF MetricsInv, MetricsCoverTheAnswers
<1> QED BY <1>1, <1>2, <1>3, PTL DEF QuestionsSpec

-----------------------------------------------------------------------------
(* FeedbackList: a row that is not twinned keeps its place among the newer   *)
(* ones, and those only grow in number.                                      *)

FilterGiven == <<filter.category, filter.named>> # <<Null, Null>>
WantedItem(i) ==
  /\ filter.category = "COMPANY" => i = Null
  /\ filter.category \in Kinds => i # Null /\ KindOf[i] = filter.category
  /\ filter.named # Null => i \in filter.named
WantedPoints == {p \in Points \cap made : Owner[p] = Company /\ WantedItem(ItemOf[p])}
Reading == {"count", "page", "enrich"}

\* The points a request resolved; those of an earlier request are found again.
ListIdsInv ==
  /\ ~FilterGiven /\ step # "done" => listIds = Null /\ step # "points"
  /\ FilterGiven /\ step \in Reading \cup (IF page > 1 THEN {"items", "points"} ELSE {}) =>
       listIds # {} /\ listIds \subseteq WantedPoints
  /\ FilterGiven /\ step \in Reading => \A f \in atStart : Wanted(f) => content[f].point \in listIds
  /\ step = "points" /\ filter.category # "COMPANY" =>
       /\ listItems # {} /\ listItems \subseteq Named
       /\ \A f \in atStart : Wanted(f) => ItemOf[content[f].point] \in listItems
       /\ page > 1 => \A p \in listIds : ItemOf[p] \in listItems
  /\ step = "points" /\ filter.category = "COMPANY" => filter.named = Null

Ahead(f) == {g \in Listed(listIds) : created[g] > created[f]}
\* Rows still to come that have an instant of their own.
Missed == {f \in atStart : Wanted(f) /\ f \notin shown /\ \A twin \in Saved \ {f} : created[twin] # created[f]}

WalkInv ==
  /\ TableInv /\ ListIdsInv
  /\ filter.category \in Kinds \cup {"COMPANY", Null} /\ (filter.named = Null \/ filter.named \subseteq Items)
  /\ step \in {"idle", "items", "points", "done", "failed"} \cup Reading
  /\ page \in Nat \ {0} /\ total \in Nat /\ atStart \subseteq Saved
  /\ step = "idle" => atStart = {} /\ page = 1
  /\ \A f \in shown : f \in Saved /\ Wanted(f)
  /\ step = "enrich" => \A f \in answer : f \in Saved /\ Wanted(f)
  /\ step \in {"items", "points", "count", "page"} =>
       \A f \in Missed : Cardinality(Ahead(f)) >= (page - 1) * Limit
  /\ step = "page" => news \subseteq Saved /\ (news = Saved => total = Cardinality(Listed(listIds)))
  /\ step = "enrich" =>
       \A f \in Missed \ answer :
         Cardinality(Ahead(f)) >= page * Limit /\ (news # {} \/ total > page * Limit)
  /\ step = "done" => news # {} \/ Missed = {}

LEMMA WalkStarts == ListInit => WalkInv
<1> SUFFICES ASSUME ListInit PROVE WalkInv
  OBVIOUS
<1>1. PICK w \in Walks : filter = w.filter /\ TableInit(w)
  BY DEF ListInit
<1>2. TableInv
  BY <1>1, WalksAssumption, TableStarts
<1>3. filter.category \in Kinds \cup {"COMPANY", Null} /\ (filter.named = Null \/ filter.named \subseteq Items)
  BY <1>1, WalksAssumption
<1>4. ListIdsInv
  BY DEF ListInit, ListIdsInv, Reading
<1> QED BY <1>2, <1>3, <1>4 DEF ListInit, WalkInv, Reading

\* What is wanted is a matter of the point, and the points of wanted rows exist.
LEMMA WantedMeans == ASSUME TableInv, NEW f \in Saved
  PROVE  Wanted(f) <=> content[f].point \in WantedPoints
BY DEF Wanted, WantedPoints, WantedItem, TableInv, Saved, Feedbacks, CompanyOf

LEMMA WantedNamed ==
  ASSUME WalkInv, FilterGiven, filter.category # "COMPANY"
  PROVE  /\ \A p \in WantedPoints : ItemOf[p] \in Named
         /\ \A i \in Named : WantedItem(i)
<1>1. filter.category \in Kinds \/ filter.named # Null
  BY DEF WalkInv, FilterGiven
<1>2. Null \notin Items /\ Null \notin Kinds
  BY NullIsNothing
<1>3. ASSUME NEW p \in WantedPoints PROVE ItemOf[p] \in Named
  <2>1. p \in Points \cap made /\ Owner[p] = Company /\ WantedItem(ItemOf[p])
    BY DEF WantedPoints
  <2>2. ItemOf[p] # Null
    BY <1>1, <1>2, <2>1 DEF WantedItem, WalkInv
  <2>3. ItemOf[p] \in Items /\ Owner[ItemOf[p]] = Company /\ ItemOf[p] \in made
    BY <2>1, <2>2, CatalogIsWhole DEF WalkInv, TableInv
  <2>4. filter.category # Null => filter.category \in Kinds
    BY DEF WalkInv
  <2> QED BY <2>1, <2>3, <2>4 DEF Named, WantedItem
<1>4. ASSUME NEW i \in Named PROVE WantedItem(i)
  BY <1>2 DEF Named, WantedItem
<1> QED BY <1>3, <1>4

\* Only what is wanted is listed, and all of it that was there at the beginning.
LEMMA ListedIsWanted ==
  ASSUME WalkInv, step \in Reading
  PROVE  /\ \A f \in Listed(listIds) : f \in Saved /\ Wanted(f)
         /\ \A f \in atStart : Wanted(f) => f \in Listed(listIds)
<1>1. CASE ~FilterGiven
  <2>1. listIds = Null /\ filter.category = Null /\ filter.named = Null
    BY <1>1 DEF WalkInv, ListIdsInv, Reading, FilterGiven
  <2> QED BY <2>1, NullIsNothing DEF Listed, Wanted, WalkInv
<1>2. CASE FilterGiven
  <2>1. listIds # {} /\ listIds \subseteq WantedPoints /\ \A f \in atStart : Wanted(f) => content[f].point \in listIds
    BY <1>2 DEF WalkInv, ListIdsInv
  <2>2. listIds # Null
    BY <2>1, NullIsNothing DEF WantedPoints
  <2>3. \A f \in Listed(listIds) : f \in Saved /\ content[f].point \in WantedPoints
    BY <2>1, <2>2 DEF Listed
  <2>4. \A f \in atStart : Wanted(f) => f \in Listed(listIds)
    BY <2>1 DEF Listed, WalkInv, Wanted
  <2> QED BY <2>3, <2>4, WantedMeans DEF WalkInv
<1> QED BY <1>1, <1>2

LEMMA AheadIsFinite ==
  ASSUME TableInv, NEW f PROVE IsFiniteSet(Ahead(f)) /\ Cardinality(Ahead(f)) \in Nat
<1>1. Ahead(f) \subseteq Saved
  BY DEF Ahead, Listed
<1> QED BY <1>1, SavedIsFinite

\* Two times of the same walk, the table having grown.
LEMMA ListGrows ==
  ASSUME WalkInv, TableInv', Grows, UNCHANGED <<filter, listIds>>
  PROVE  /\ \A f : Wanted(f)' <=> Wanted(f)
         /\ WantedPoints \subseteq WantedPoints' /\ Named \subseteq Named'
         /\ Listed(listIds) \subseteq Listed(listIds)'
         /\ \A f \in Saved : /\ Ahead(f) \subseteq Ahead(f)' /\ Cardinality(Ahead(f)') >= Cardinality(Ahead(f))
                             /\ Cardinality(Ahead(f)) \in Nat /\ Cardinality(Ahead(f)') \in Nat
<1>1. \A f : (Wanted(f)' <=> Wanted(f)) /\ CompanyOf(f)' = CompanyOf(f)
  BY DEF Grows, Wanted, CompanyOf
<1>2. WantedPoints \subseteq WantedPoints' /\ Named \subseteq Named'
  BY DEF Grows, WantedPoints, WantedItem, Named
<1>3. Listed(listIds) \subseteq Listed(listIds)'
  BY <1>1 DEF Grows, Listed
<1>4. ASSUME NEW f \in Saved
      PROVE  /\ Ahead(f) \subseteq Ahead(f)' /\ Cardinality(Ahead(f)') >= Cardinality(Ahead(f))
             /\ Cardinality(Ahead(f)) \in Nat /\ Cardinality(Ahead(f)') \in Nat
  <2>1. \A g \in Listed(listIds) : g \in Saved
    BY DEF Listed
  <2>2. Ahead(f) \subseteq Ahead(f)'
    BY <1>3, <2>1 DEF Ahead, Grows
  <2>3. Ahead(f)' \subseteq Feedbacks'
    BY DEF Ahead, Listed, Saved
  <2>4. IsFiniteSet(Ahead(f)')
    BY <2>3, FS_Subset DEF TableInv
  <2> QED BY <2>2, <2>4, FS_Subset, FS_CardinalityType
<1> QED BY <1>1, <1>2, <1>3, <1>4

LEMMA WritersKeepWalk == ASSUME WalkInv, TableInv', Grows, UNCHANGED listVars PROVE WalkInv'
<1>1. UNCHANGED <<filter, step, page, total, listIds, listItems, answer, news, shown, atStart>>
  BY DEF listVars
<1>2. /\ \A f : Wanted(f)' <=> Wanted(f)
      /\ WantedPoints \subseteq WantedPoints' /\ Named \subseteq Named'
      /\ Listed(listIds) \subseteq Listed(listIds)'
      /\ \A f \in Saved : /\ Cardinality(Ahead(f)') >= Cardinality(Ahead(f))
                          /\ Cardinality(Ahead(f)) \in Nat /\ Cardinality(Ahead(f)') \in Nat
  BY <1>1, ListGrows
<1>3. content' = content /\ Saved \subseteq Saved' /\ \A f \in Saved : created'[f] = created[f]
  BY DEF Grows
<1>4. Missed' \subseteq Missed
  BY <1>1, <1>2, <1>3 DEF Missed, WalkInv
<1>5. \A f \in Missed : f \in Saved
  BY DEF Missed, WalkInv
<1>6. ListIdsInv'
  <2>1. FilterGiven' = FilterGiven
    BY <1>1 DEF FilterGiven
  <2> QED BY <1>1, <1>2, <1>3, <2>1 DEF WalkInv, ListIdsInv
<1>7. step = "page" => news \subseteq Saved' /\ (news = Saved' => Saved' = Saved)
  BY <1>3 DEF WalkInv
<1>8. Saved' = Saved => Listed(listIds)' = Listed(listIds)
  BY <1>1, <1>3 DEF Listed, CompanyOf
<1>9. page \in Nat \ {0} /\ Limit \in Nat \ {0} /\ (page - 1) * Limit \in Int /\ page * Limit \in Int
  BY WalksAssumption DEF WalkInv
<1>10. step \in {"items", "points", "count", "page"} =>
         \A f \in Missed' : Cardinality(Ahead(f)') >= (page - 1) * Limit
  <2> SUFFICES ASSUME step \in {"items", "points", "count", "page"}, NEW f \in Missed'
               PROVE  Cardinality(Ahead(f)') >= (page - 1) * Limit
    OBVIOUS
  <2>1. Cardinality(Ahead(f)) >= (page - 1) * Limit /\ f \in Saved
    BY <1>4, <1>5 DEF WalkInv
  <2> QED BY <1>2, <1>9, <2>1
<1>11. step = "enrich" =>
         \A f \in Missed' \ answer : Cardinality(Ahead(f)') >= page * Limit /\ (news # {} \/ total > page * Limit)
  <2> SUFFICES ASSUME step = "enrich", NEW f \in Missed', f \notin answer
               PROVE  Cardinality(Ahead(f)') >= page * Limit /\ (news # {} \/ total > page * Limit)
    OBVIOUS
  <2>1. Cardinality(Ahead(f)) >= page * Limit /\ f \in Saved /\ (news # {} \/ total > page * Limit)
    BY <1>4, <1>5 DEF WalkInv
  <2> QED BY <1>2, <1>9, <2>1
<1>12. step \in {"items", "points", "count", "page"} =>
         \A f \in Missed' : Cardinality(Ahead(f))' >= (page - 1) * Limit
  BY <1>10
<1>13. /\ \A f \in shown : f \in Saved' /\ Wanted(f)'
       /\ step = "enrich" => \A f \in answer : f \in Saved' /\ Wanted(f)'
       /\ atStart \subseteq Saved'
  BY <1>2, <1>3 DEF WalkInv
<1>14. step = "page" => news \subseteq Saved' /\ (news = Saved' => total = Cardinality(Listed(listIds))')
  BY <1>7, <1>8 DEF WalkInv
<1>15. step = "done" => news # {} \/ Missed' = {}
  BY <1>4 DEF WalkInv
<1> QED BY <1>1, <1>6, <1>11, <1>12, <1>13, <1>14, <1>15 DEF WalkInv

LEMMA OpenKeeps == ASSUME WalkInv, Open PROVE WalkInv'
<1>1. /\ UNCHANGED <<filter, page, total, listIds, listItems, answer, news, shown, tableVars>>
      /\ step = "idle" /\ step' = "items" /\ atStart' = Saved /\ page = 1
  BY DEF Open, WalkInv
<1>2. TableInv' /\ Saved' = Saved /\ \A f : Wanted(f)' <=> Wanted(f)
  <2>1. TableInv' /\ Grows /\ Saved' = Saved
    BY <1>1, TableStays DEF WalkInv, Saved, Feedbacks, tableVars
  <2> QED BY <1>1, <2>1, ListGrows
<1>3. ListIdsInv'
  BY <1>1 DEF WalkInv, ListIdsInv, FilterGiven, Reading
<1>4. \A f \in Missed' : Cardinality(Ahead(f)') >= (page' - 1) * Limit
  <2> TAKE f \in Missed'
  <2>1. Ahead(f)' \subseteq Feedbacks'
    BY DEF Ahead, Listed, Saved
  <2>2. Cardinality(Ahead(f)') \in Nat
    BY <1>2, <2>1, FS_Subset, FS_CardinalityType DEF TableInv
  <2>3. (page' - 1) * Limit = 0
    BY <1>1, WalksAssumption
  <2> QED BY <2>2, <2>3
<1> QED BY <1>1, <1>2, <1>3, <1>4 DEF WalkInv, Reading

\* The requests of a walk only read.
LEMMA ListReads ==
  ASSUME WalkInv, UNCHANGED <<filter, atStart, tableVars>>
  PROVE  /\ TableInv' /\ Saved' = Saved /\ FilterGiven' = FilterGiven
         /\ WantedPoints' = WantedPoints /\ Named' = Named
         /\ \A f : Wanted(f)' <=> Wanted(f)
         /\ shown' = shown => Missed' = Missed
         /\ listIds' = listIds => /\ Listed(listIds)' = Listed(listIds)
                                  /\ \A f : Ahead(f)' = Ahead(f)
<1>1. TableInv' /\ Saved' = Saved
  BY TableStays DEF WalkInv, Saved, Feedbacks, tableVars
<1>2. UNCHANGED <<content, created, made>>
  BY DEF tableVars
<1>3. FilterGiven' = FilterGiven /\ WantedPoints' = WantedPoints /\ Named' = Named /\ \A f : Wanted(f)' <=> Wanted(f)
  BY <1>2 DEF FilterGiven, WantedPoints, WantedItem, Named, Wanted, CompanyOf
<1>4. shown' = shown => Missed' = Missed
  BY <1>1, <1>2, <1>3 DEF Missed
<1>5. listIds' = listIds => Listed(listIds)' = Listed(listIds) /\ \A f : Ahead(f)' = Ahead(f)
  BY <1>1, <1>2 DEF Listed, Ahead, CompanyOf
<1> QED BY <1>1, <1>3, <1>4, <1>5

LEMMA NoFilterKeeps == ASSUME WalkInv, NoFilter PROVE WalkInv'
<1>1. /\ UNCHANGED <<filter, shown, atStart, page, total, listItems, answer, news, tableVars>>
      /\ step = "items" /\ step' = "count" /\ listIds' = Null /\ ~FilterGiven
  BY DEF NoFilter, Keep, FilterGiven
<1>2. listIds' = listIds
  BY <1>1 DEF WalkInv, ListIdsInv
<1>3. /\ TableInv' /\ Saved' = Saved /\ FilterGiven' = FilterGiven /\ Missed' = Missed
      /\ \A f : (Wanted(f)' <=> Wanted(f)) /\ Ahead(f)' = Ahead(f)
  BY <1>1, <1>2, ListReads
<1>4. ListIdsInv'
  BY <1>1, <1>3 DEF ListIdsInv
<1> QED BY <1>1, <1>3, <1>4 DEF WalkInv, Reading

LEMMA NothingIsWanted ==
  ASSUME WalkInv, NEW how, NothingToList(how), FilterGiven, \A f \in atStart : ~Wanted(f), step \in {"items", "points"}
  PROVE  WalkInv'
<1>1. /\ UNCHANGED <<filter, shown, atStart, page, listItems, news, tableVars>>
      /\ step' = "done" /\ listIds' = {} /\ total' = 0
  BY DEF NothingToList, Keep
<1>2. /\ TableInv' /\ Saved' = Saved /\ FilterGiven' = FilterGiven /\ Missed' = Missed
      /\ \A f : Wanted(f)' <=> Wanted(f)
  BY <1>1, ListReads
<1>3. Missed' = {}
  BY <1>2 DEF Missed
<1>4. ListIdsInv'
  BY <1>1, <1>2 DEF ListIdsInv, Reading
<1> QED BY <1>1, <1>2, <1>3, <1>4 DEF WalkInv, Reading

LEMMA ItemsKeep == ASSUME WalkInv, ItemsOfFilter PROVE WalkInv'
<1>1. step = "items" /\ FilterGiven
  BY DEF ItemsOfFilter, FilterGiven
<1>0. /\ atStart \subseteq Saved /\ TableInv
      /\ filter.named = Null \/ filter.named \subseteq Items
  BY DEF WalkInv
<1>2. CASE NothingToList(IF filter.category = "COMPANY" THEN filter.named # Null ELSE Named = {})
  <2>1. IF filter.category = "COMPANY" THEN filter.named # Null ELSE Named = {}
    BY <1>2 DEF NothingToList
  <2>2. ASSUME NEW f \in atStart, Wanted(f) PROVE FALSE
    <3>1. content[f].point \in WantedPoints
      BY <1>0, <2>2, WantedMeans
    <3>2. CASE filter.category = "COMPANY"
      BY <1>0, <2>1, <3>1, <3>2, NullIsNothing DEF WantedPoints, WantedItem
    <3>3. CASE filter.category # "COMPANY"
      BY <1>1, <2>1, <3>1, <3>3, WantedNamed
    <3> QED BY <3>2, <3>3
  <2> QED BY <1>1, <1>2, <2>2, NothingIsWanted
<1>3. CASE /\ IF filter.category = "COMPANY" THEN filter.named = Null ELSE Named # {}
           /\ listItems' = Named /\ step' = "points"
           /\ Keep(<<page, total, listIds, answer, news>>)
  <2>1. UNCHANGED <<filter, shown, atStart, page, total, listIds, answer, news, tableVars>>
    BY <1>3 DEF Keep
  <2>2. /\ TableInv' /\ Saved' = Saved /\ FilterGiven' = FilterGiven /\ Missed' = Missed
        /\ WantedPoints' = WantedPoints /\ Named' = Named
        /\ \A f : (Wanted(f)' <=> Wanted(f)) /\ Ahead(f)' = Ahead(f)
    BY <2>1, ListReads
  <2>3. content' = content
    BY <2>1 DEF tableVars
  <2>4. page > 1 => listIds # {} /\ listIds \subseteq WantedPoints
    BY <1>1 DEF WalkInv, ListIdsInv
  <2>5. filter.category # "COMPANY" =>
           /\ \A f \in atStart : Wanted(f) => ItemOf[content[f].point] \in Named
           /\ page > 1 => \A p \in listIds : ItemOf[p] \in Named
    BY <1>0, <1>1, <2>4, WantedNamed, WantedMeans
  <2>6. ListIdsInv'
    BY <1>1, <1>3, <2>1, <2>2, <2>3, <2>4, <2>5 DEF ListIdsInv, Reading
  <2> QED BY <1>1, <1>3, <2>1, <2>2, <2>6 DEF WalkInv, Reading
<1> QED BY <1>2, <1>3 DEF ItemsOfFilter

LEMMA PointsKeep == ASSUME WalkInv, PointsOfFilter PROVE WalkInv'
<1> DEFINE points == IF filter.category = "COMPANY" THEN PointsOfItem(Company, Null)
                     ELSE PointsOfItems(Company, listItems)
<1>1. step = "points" /\ FilterGiven
  BY DEF PointsOfFilter, WalkInv, ListIdsInv
<1>0. atStart \subseteq Saved /\ TableInv
  BY DEF WalkInv
<1>2. page > 1 => listIds # {} /\ listIds \subseteq WantedPoints
  BY <1>1 DEF WalkInv, ListIdsInv
<1>3. /\ points \subseteq WantedPoints
      /\ \A f \in atStart : Wanted(f) => content[f].point \in points
      /\ page > 1 => listIds \subseteq points
  <2>1. CASE filter.category = "COMPANY"
    <3>1. filter.named = Null
      BY <1>1, <2>1 DEF WalkInv, ListIdsInv
    <3>2. points = WantedPoints
      BY <2>1, <3>1 DEF PointsOfItem, WantedPoints, WantedItem, Kinds
    <3> QED BY <1>0, <1>2, <3>2, WantedMeans
  <2>2. CASE filter.category # "COMPANY"
    <3>1. /\ listItems # {} /\ listItems \subseteq Named
          /\ \A f \in atStart : Wanted(f) => ItemOf[content[f].point] \in listItems
          /\ page > 1 => \A p \in listIds : ItemOf[p] \in listItems
      BY <1>1, <2>2 DEF WalkInv, ListIdsInv
    <3>2. points = {p \in Points \cap made : Owner[p] = Company /\ ItemOf[p] \in listItems}
      BY <2>2, <3>1 DEF PointsOfItems
    <3>3. points \subseteq WantedPoints
      BY <1>1, <2>2, <3>1, <3>2, WantedNamed DEF WantedPoints
    <3>4. \A f \in atStart : Wanted(f) => content[f].point \in points
      BY <1>0, <3>1, <3>2, WantedMeans DEF WantedPoints
    <3>5. page > 1 => listIds \subseteq points
      BY <1>2, <3>1, <3>2 DEF WantedPoints
    <3> QED BY <3>3, <3>4, <3>5
  <2> QED BY <2>1, <2>2
<1>4. \/ NothingToList(points = {})
      \/ points # {} /\ listIds' = points /\ step' = "count" /\ Keep(<<page, total, listItems, answer, news>>)
  BY DEF PointsOfFilter
<1> HIDE DEF points
<1>5. CASE NothingToList(points = {})
  <2>1. points = {}
    BY <1>5 DEF NothingToList
  <2> QED BY <1>1, <1>3, <1>5, <2>1, NothingIsWanted
<1>6. CASE points # {} /\ listIds' = points /\ step' = "count" /\ Keep(<<page, total, listItems, answer, news>>)
  <2>1. UNCHANGED <<filter, shown, atStart, page, total, listItems, answer, news, tableVars>>
    BY <1>6 DEF Keep
  <2>2. /\ TableInv' /\ Saved' = Saved /\ FilterGiven' = FilterGiven /\ Missed' = Missed
        /\ WantedPoints' = WantedPoints
        /\ \A f : Wanted(f)' <=> Wanted(f)
    BY <2>1, ListReads
  <2>3. content' = content /\ created' = created
    BY <2>1 DEF tableVars
  <2>4. ListIdsInv'
    BY <1>1, <1>3, <1>6, <2>1, <2>2, <2>3 DEF ListIdsInv, Reading
  <2>5. \A f : IsFiniteSet(Ahead(f)') /\ Cardinality(Ahead(f)') \in Nat
    <3> TAKE f
    <3>1. Ahead(f)' \subseteq Saved
      BY <2>2 DEF Ahead, Listed
    <3> QED BY <1>0, <3>1, SavedIsFinite
  <2>6. ASSUME NEW f \in Missed PROVE Cardinality(Ahead(f)') >= (page - 1) * Limit
    <3>1. CASE page > 1
      <4>1. Listed(listIds) \subseteq Listed(listIds)'
        <5>1. listIds \notin {Null, {}} /\ listIds \subseteq points
          BY <1>2, <1>3, <3>1, NullIsNothing DEF WantedPoints
        <5> QED BY <1>6, <2>2, <2>3, <5>1 DEF Listed, CompanyOf
      <4>2. Ahead(f) \subseteq Ahead(f)'
        BY <2>3, <4>1 DEF Ahead
      <4>3. Cardinality(Ahead(f)) <= Cardinality(Ahead(f)') /\ Cardinality(Ahead(f)) \in Nat
        BY <2>5, <4>2, FS_Subset, FS_CardinalityType
      <4>4. Cardinality(Ahead(f)) >= (page - 1) * Limit
        BY <1>1 DEF WalkInv
      <4>5. (page - 1) * Limit \in Int
        BY WalksAssumption DEF WalkInv
      <4> QED BY <2>5, <4>3, <4>4, <4>5
    <3>2. CASE page = 1
      <4>1. (page - 1) * Limit = 0
        BY <3>2, WalksAssumption
      <4> QED BY <2>5, <4>1
    <3> QED BY <3>1, <3>2 DEF WalkInv
  <2>7. \A f \in Missed' : Cardinality(Ahead(f))' >= (page' - 1) * Limit
    BY <2>1, <2>2, <2>6
  <2> QED BY <1>6, <2>1, <2>2, <2>4, <2>7 DEF WalkInv, Reading
<1> QED BY <1>4, <1>5, <1>6

LEMMA CountKeeps == ASSUME WalkInv, countScopedFeedbacks PROVE WalkInv'
<1>1. /\ UNCHANGED <<filter, shown, atStart, page, listIds, listItems, answer, tableVars>>
      /\ step = "count" /\ step' = "page" /\ total' = Cardinality(Listed(listIds)) /\ news' = Saved
  BY DEF countScopedFeedbacks, Keep
<1>2. /\ TableInv' /\ Saved' = Saved /\ FilterGiven' = FilterGiven /\ Missed' = Missed
      /\ WantedPoints' = WantedPoints /\ Listed(listIds)' = Listed(listIds)
      /\ \A f : (Wanted(f)' <=> Wanted(f)) /\ Ahead(f)' = Ahead(f)
  BY <1>1, ListReads
<1>3. content' = content
  BY <1>1 DEF tableVars
<1>4. ListIdsInv'
  BY <1>1, <1>2, <1>3 DEF WalkInv, ListIdsInv, Reading
<1>5. Cardinality(Listed(listIds)) \in Nat
  <2>1. Listed(listIds) \subseteq Saved
    BY DEF Listed
  <2> QED BY <2>1, SavedIsFinite DEF WalkInv
<1> QED BY <1>1, <1>2, <1>4, <1>5 DEF WalkInv, Reading

\* A row without a twin stands right after the newer ones, whatever the order of the others.
LEMMA PlaceInOrder ==
  ASSUME TableInv, NEW S, S \subseteq Saved, NEW q \in Orders(S), NEW f \in S,
         \A twin \in Saved \ {f} : created[twin] # created[f]
  PROVE  \E k \in 1 .. Cardinality(S) :
           q[k] = f /\ Cardinality({g \in S : created[g] > created[f]}) = k - 1
<1> DEFINE n == Cardinality(S)
           newer == {g \in S : created[g] > created[f]}
<1>1. IsFiniteSet(S) /\ n \in Nat
  BY SavedIsFinite
<1>2. /\ q \in [1 .. n -> S]
      /\ \A i, j \in 1 .. n : i < j => q[i] # q[j] /\ created[q[i]] >= created[q[j]]
  BY DEF Orders
<1>3. \A g \in S : created[g] \in Int
  BY DEF TableInv, Saved
<1> HIDE DEF n
<1>4. \A i, j \in 1 .. n : q[i] = q[j] => i = j
  BY <1>1, <1>2
<1>5. q \in Injection(1 .. n, S)
  BY <1>2, <1>4 DEF Injection, IsInjective
<1>6. IsFiniteSet(1 .. n) /\ Cardinality(1 .. n) = n
  BY <1>1, FS_Interval
<1>7. q \in Surjection(1 .. n, S)
  BY <1>1, <1>5, <1>6, FS_Injection DEF n
<1>8. PICK k \in 1 .. n : q[k] = f
  BY <1>7 DEF Surjection
<1>9. \A i \in 1 .. n : created[q[i]] > created[f] <=> i < k
  <2> TAKE i \in 1 .. n
  <2>1. q[i] \in S /\ created[q[i]] \in Int /\ created[f] \in Int
    BY <1>2, <1>3
  <2>2. CASE i < k
    <3>1. q[i] # f /\ created[q[i]] >= created[f]
      BY <1>2, <1>8, <2>2
    <3>2. created[q[i]] # created[f]
      BY <2>1, <3>1
    <3> QED BY <2>1, <2>2, <3>1, <3>2
  <2>3. CASE i = k
    BY <1>8, <2>1, <2>3
  <2>4. CASE k < i
    BY <1>2, <1>8, <2>1, <2>4
  <2> QED BY <1>1, <1>8, <2>2, <2>3, <2>4
<1> DEFINE h == [i \in 1 .. k - 1 |-> q[i]]
<1>10. \A i \in 1 .. k - 1 : i \in 1 .. n /\ q[i] \in newer
  BY <1>1, <1>2, <1>8, <1>9
<1>11. \A g \in newer : \E i \in 1 .. k - 1 : q[i] = g
  <2> TAKE g \in newer
  <2>1. PICK i \in 1 .. n : q[i] = g
    BY <1>7 DEF Surjection
  <2>2. i < k
    BY <1>9, <2>1
  <2> QED BY <1>1, <2>1, <2>2
<1> HIDE DEF newer
<1>12. h \in Bijection(1 .. k - 1, newer)
  BY <1>4, <1>10, <1>11 DEF Bijection, Injection, Surjection, IsInjective
<1> HIDE DEF h
<1>13. IsFiniteSet(1 .. k - 1) /\ Cardinality(1 .. k - 1) = k - 1
  BY <1>1, FS_Interval
<1>14. Cardinality(newer) = k - 1
  BY <1>12, <1>13, FS_Bijection DEF ExistsBijection
<1> QED BY <1>8, <1>14 DEF newer, n

LEMMA PageKeeps == ASSUME WalkInv, fetchScopedFeedbackPage PROVE WalkInv'
<1>1. /\ UNCHANGED <<filter, page, total, listIds, listItems, shown, atStart, tableVars>>
      /\ step = "page" /\ step' = "enrich" /\ news' = Saved \ news
  BY DEF fetchScopedFeedbackPage
<1>2. PICK q \in Orders(Listed(listIds)) :
         answer' = {q[i] : i \in {k \in DOMAIN q : (page - 1) * Limit < k /\ k <= page * Limit}}
  BY DEF fetchScopedFeedbackPage
<1>3. /\ TableInv' /\ Saved' = Saved /\ FilterGiven' = FilterGiven /\ Missed' = Missed
      /\ WantedPoints' = WantedPoints /\ Listed(listIds)' = Listed(listIds)
      /\ \A f : (Wanted(f)' <=> Wanted(f)) /\ Ahead(f)' = Ahead(f)
  BY <1>1, ListReads
<1>4. content' = content
  BY <1>1 DEF tableVars
<1>5. ListIdsInv'
  BY <1>1, <1>3, <1>4 DEF WalkInv, ListIdsInv, Reading
<1>6. /\ Listed(listIds) \subseteq Saved /\ \A f \in Listed(listIds) : Wanted(f)
      /\ \A f \in atStart : Wanted(f) => f \in Listed(listIds)
  BY <1>1, ListedIsWanted DEF Reading
<1>7. \A f \in answer' : f \in Saved /\ Wanted(f)
  <2>1. \A i \in DOMAIN q : q[i] \in Listed(listIds)
    BY DEF Orders
  <2> QED BY <1>2, <1>6, <2>1
<1>8. page \in Nat \ {0} /\ Limit \in Nat \ {0} /\ (page - 1) * Limit \in Int /\ page * Limit \in Int /\ total \in Nat
  BY WalksAssumption DEF WalkInv
<1>9. ASSUME NEW f \in Missed, f \notin answer'
      PROVE  Cardinality(Ahead(f)) >= page * Limit /\ (Saved \ news # {} \/ total > page * Limit)
  <2>1. f \in Listed(listIds) /\ \A twin \in Saved \ {f} : created[twin] # created[f]
    BY <1>6 DEF Missed
  <2>2. PICK k \in 1 .. Cardinality(Listed(listIds)) : q[k] = f /\ Cardinality(Ahead(f)) = k - 1
    BY <1>6, <2>1, PlaceInOrder DEF WalkInv, Ahead
  <2>3. Cardinality(Ahead(f)) >= (page - 1) * Limit
    BY <1>1 DEF WalkInv
  <2>4. k \in DOMAIN q
    BY DEF Orders
  <2>5. Cardinality(Listed(listIds)) \in Nat
    BY <1>6, SavedIsFinite DEF WalkInv
  <2>6. ~(k <= page * Limit)
    <3>1. (page - 1) * Limit < k
      BY <1>8, <2>2, <2>3, <2>5
    <3> QED BY <1>2, <1>9, <2>2, <2>4, <3>1
  <2>7. news \subseteq Saved /\ (news = Saved => total = Cardinality(Listed(listIds)))
    BY <1>1 DEF WalkInv
  <2>8. k > page * Limit /\ Cardinality(Ahead(f)) >= page * Limit
    BY <1>8, <2>2, <2>5, <2>6
  <2>9. Saved \ news = {} => total > page * Limit
    <3> SUFFICES ASSUME Saved \ news = {} PROVE total > page * Limit
      OBVIOUS
    <3>1. total = Cardinality(Listed(listIds))
      BY <2>7
    <3> QED BY <1>8, <2>2, <2>5, <2>8, <3>1
  <2> QED BY <2>8, <2>9
<1>10. \A f \in Missed' \ answer' :
         Cardinality(Ahead(f))' >= page' * Limit /\ (news' # {} \/ total' > page' * Limit)
  BY <1>1, <1>3, <1>9
<1> QED BY <1>1, <1>3, <1>5, <1>7, <1>10 DEF WalkInv, Reading

\* The last page shows every row the count knew of.
LEMMA LastPage ==
  ASSUME NEW t \in Nat, NEW l \in Nat \ {0}, NEW p \in Nat \ {0}, ~(p < (t + l - 1) \div l)
  PROVE  t <= p * l
<1> DEFINE n == t + l - 1
<1>1. n \in Nat /\ n \div l \in Int /\ n \div l <= p
  BY SMTT(30)
<1>2. n < l * (n \div l) + l
  <2> HIDE DEF n
  <2> QED BY <1>1, SMTT(30)
<1> HIDE DEF n
<1> DEFINE d == n \div l
<1>3. d \in Int /\ d <= p /\ n < l * d + l
  BY <1>1, <1>2
<1> HIDE DEF d
<1>4. n < l * p + l
  <2>1. l * d <= l * p
    BY <1>3, SMTT(30)
  <2>2. l * d \in Int /\ l * p \in Int
    BY <1>3
  <2> QED BY <1>1, <1>3, <2>1, <2>2
<1> QED BY <1>4 DEF n

LEMMA SendKeeps == ASSUME WalkInv, SendPage PROVE WalkInv'
<1>1. /\ UNCHANGED <<filter, total, listIds, listItems, answer, news, atStart, tableVars>>
      /\ step = "enrich" /\ shown' = shown \cup answer
      /\ IF page < TotalPages THEN page' = page + 1 /\ step' = "items" ELSE step' = "done" /\ page' = page
  BY DEF SendPage
<1>2. /\ TableInv' /\ Saved' = Saved /\ FilterGiven' = FilterGiven
      /\ WantedPoints' = WantedPoints
      /\ \A f : (Wanted(f)' <=> Wanted(f)) /\ Ahead(f)' = Ahead(f)
  BY <1>1, ListReads
<1>3. content' = content /\ created' = created
  BY <1>1 DEF tableVars
<1>4. Missed' \subseteq Missed \ answer
  BY <1>1, <1>2, <1>3 DEF Missed
<1>5. ListIdsInv'
  BY <1>1, <1>2, <1>3 DEF WalkInv, ListIdsInv, Reading
<1>6. page \in Nat \ {0} /\ Limit \in Nat \ {0} /\ total \in Nat
  BY WalksAssumption DEF WalkInv
<1>7. \A f \in Missed' : Cardinality(Ahead(f)) >= page * Limit /\ (news # {} \/ total > page * Limit)
  BY <1>1, <1>4 DEF WalkInv
<1>8. \A f \in shown' : f \in Saved /\ Wanted(f)
  BY <1>1 DEF WalkInv
<1>9. CASE page < TotalPages
  <2>1. page' = page + 1 /\ step' = "items" /\ page' - 1 = page /\ page' \in Nat \ {0}
    BY <1>1, <1>6, <1>9
  <2>2. \A f \in Missed' : Cardinality(Ahead(f))' >= (page' - 1) * Limit
    BY <1>2, <1>7, <2>1
  <2> QED BY <1>1, <1>2, <1>5, <1>8, <2>1, <2>2 DEF WalkInv, Reading
<1>10. CASE ~(page < TotalPages)
  <2>1. page' = page /\ step' = "done"
    BY <1>1, <1>10
  <2>2. total <= page * Limit
    BY <1>6, <1>10, LastPage DEF TotalPages
  <2>3. news # {} \/ Missed' = {}
    <3>1. page * Limit \in Int
      BY <1>6
    <3> QED BY <1>6, <1>7, <2>2, <3>1
  <2> QED BY <1>1, <1>2, <1>5, <1>8, <2>1, <2>3 DEF WalkInv, Reading
<1> QED BY <1>9, <1>10

LEMMA FailKeeps == ASSUME WalkInv, QueryFails PROVE WalkInv'
<1>1. /\ UNCHANGED <<filter, page, total, listIds, listItems, answer, news, shown, atStart, tableVars>>
      /\ step' = "failed" /\ step \in {"items", "points", "count", "page", "enrich"}
  BY DEF QueryFails
<1>2. /\ TableInv' /\ Saved' = Saved /\ FilterGiven' = FilterGiven
      /\ \A f : (Wanted(f)' <=> Wanted(f))
  BY <1>1, ListReads
<1>3. ListIdsInv'
  BY <1>1, <1>2 DEF WalkInv, ListIdsInv, Reading
<1> QED BY <1>1, <1>2, <1>3 DEF WalkInv, Reading

LEMMA WalkKept == ASSUME WalkInv, [ListNext]_<<tableVars, listVars>> PROVE WalkInv'
<1>1. CASE Write(LastListTick) /\ UNCHANGED listVars
  <2>1. TableInv' /\ Grows
    BY <1>1, TableKept DEF WalkInv
  <2> QED BY <1>1, <2>1, WritersKeepWalk
<1>2. CASE UNCHANGED <<tableVars, listVars>>
  <2>1. TableInv' /\ Grows
    BY <1>2, TableStays DEF WalkInv
  <2> QED BY <1>2, <2>1, WritersKeepWalk
<1> QED BY <1>1, <1>2, OpenKeeps, NoFilterKeeps, ItemsKeep, PointsKeep, CountKeeps, PageKeeps, SendKeeps,
           FailKeeps DEF ListNext

\* The list of feedbacks (FeedbackList): a walk of its pages shows only what the filter
\* means, and everything that was there when it began, unless it shares its created_at
\* with another or feedback came between the count and the page of the last request.
THEOREM TheWalkShowsTheList == ListSpec => []WalkShowsTheList
<1>1. ListInit => WalkInv
  BY WalkStarts
<1>2. WalkInv /\ [ListNext]_<<tableVars, listVars>> => WalkInv'
  BY WalkKept
<1>3. WalkInv => WalkShowsTheList
  BY DEF WalkInv, WalkShowsTheList, Missed
<1> QED BY <1>1, <1>2, <1>3, PTL DEF ListSpec
=============================================================================
