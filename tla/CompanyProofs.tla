---------------------------- MODULE CompanyProofs ----------------------------
(***************************************************************************)
(* What managers of a company set up, for any number of requests: the AI    *)
(* configuration (IaConfig), the QR points (CollectionPoints) and the       *)
(* questions of an item (CatalogQuestions).                                 *)
(*                                                                         *)
(* IaConfig: a pair that is stored was checked against an answer that came  *)
(* after the request began.  CacheInv says that the entry a request waits   *)
(* for is of its own key, whatever was evicted meanwhile, CheckInv carries  *)
(* the answer to the statement, and PatchInv says that a row with the write *)
(* that a change of the model has read still has the key that it was        *)
(* checked for.  DropInv is about the answers that come late.               *)
(*                                                                         *)
(* CollectionPoints: MetInv says that requests in progress for one scope    *)
(* have met, and that the newest has met them all.  So a request that       *)
(* nobody met is alone with the rows of its scope, between any two of its   *)
(* statements and after it has answered.                                    *)
(*                                                                         *)
(* CatalogQuestions: SlotInv says that a save has locked only rows that are *)
(* behind it in an order that its payload gives.  SerialInv says that a     *)
(* save past the first question holds it, so that no other commits, and     *)
(* sees in each slot it is through with what was asked.                     *)
(***************************************************************************)
EXTENDS CollectionPoints, CatalogQuestions, IaConfig, WellFoundedInduction, TLAPS

-----------------------------------------------------------------------------
(* IaConfig.                                                                 *)

Numbers == written \in Nat /\ made \in Nat

Shaped(q) == q = [kind |-> q.kind, pc |-> q.pc, key |-> q.key, model |-> q.model,
                  expected |-> q.expected, entry |-> q.entry, catalog |-> q.catalog]

ReqInv ==
  /\ req = [r \in ConfigRequests |-> req[r]]
  /\ offered = [r \in ConfigRequests |-> offered[r]]
  /\ \A r \in ConfigRequests : Shaped(req[r])

EntryInv ==
  /\ entry = [e \in Entries |-> entry[e]]
  /\ \A e \in Entries :
       entry[e] = [source |-> entry[e].source, catalog |-> entry[e].catalog,
                   pending |-> entry[e].pending]
  /\ \A e \in Entries : e > made => entry[e] = NoEntry

CacheInv ==
  /\ made <= MaxEntries
  /\ \A k \in DOMAIN cached : cached[k] \in 1 .. made /\ entry[cached[k]].source = k
  /\ \A r \in ConfigRequests : At(r, "waiting") =>
       req[r].entry \in 1 .. made /\ entry[req[r].entry].source = req[r].key

Checked(r, models) == \A m \in models : <<req[r].key, m>> \in offered[r]

CheckInv ==
  \A r \in ConfigRequests :
    /\ At(r, "got") /\ req[r].kind # "get" => Checked(r, req[r].catalog.models)
    /\ At(r, "store") => Checked(r, {req[r].model})

RowInv ==
  row # None =>
    /\ row = [id |-> row.id, write |-> row.write, key |-> row.key, model |-> row.model, by |-> row.by]
    /\ row.write \in 1 .. written
    /\ row.by # None => /\ row.by \in ConfigRequests /\ ~At(row.by, "idle")
                        /\ <<row.key, row.model>> \in offered[row.by]

PatchInv ==
  \A r \in ConfigRequests :
    req[r].kind = "patch" /\ req[r].pc \in {"get", "waiting", "got", "store"} =>
      /\ req[r].expected.write \in 1 .. written /\ req[r].key = req[r].expected.key
      /\ row # None /\ row.write = req[r].expected.write => row.key = req[r].expected.key

ConfigInv == Numbers /\ ReqInv /\ EntryInv /\ CacheInv /\ CheckInv /\ RowInv /\ PatchInv

LEMMA ConfigInitHolds == ConfigInit => ConfigInv
<1> SUFFICES ASSUME ConfigInit PROVE ConfigInv
  OBVIOUS
<1>1. Numbers /\ ReqInv /\ EntryInv
  <2>1. Numbers
    BY DEF ConfigInit, Numbers
  <2>2. ReqInv
    BY DEF ConfigInit, ReqInv, Shaped, NoRequest
  <2>3. EntryInv
    BY DEF ConfigInit, EntryInv, NoEntry
  <2> QED BY <2>1, <2>2, <2>3
<1>2. \A r \in ConfigRequests : req[r].pc = "idle"
  BY DEF ConfigInit, NoRequest
<1>3. CacheInv /\ CheckInv /\ PatchInv
  BY BoundAssumption, <1>2 DEF ConfigInit, CacheInv, CheckInv, PatchInv, At
<1>4. RowInv
  BY DEF ConfigInit, RowInv
<1> QED BY <1>1, <1>3, <1>4 DEF ConfigInv

\* What a step of one request does to it, in terms of fields.
Becomes(r, kind, next, key, model, expected) ==
  /\ \A q \in ConfigRequests \ {r} : req'[q] = req[q]
  /\ req'[r].kind = kind /\ req'[r].pc = next /\ req'[r].key = key
  /\ req'[r].model = model /\ req'[r].expected = expected

\* A request that goes on with its own pair, or ends, disturbs nobody.
LEMMA GoingOn ==
  ASSUME ConfigInv, NEW r \in ConfigRequests, ReqInv', NEW next, next # "idle",
         NEW model,
         Becomes(r, req[r].kind, next, req[r].key, model, req[r].expected),
         UNCHANGED <<row, written, entry, cached, made, offered>>,
         next \notin {"waiting", "got"},
         req[r].pc \notin {"get", "waiting", "got", "store"} => next \notin {"get", "store"},
         next = "store" => Checked(r, {model})
  PROVE  ConfigInv'
<1>1. Numbers' /\ EntryInv'
  BY DEF ConfigInv, Numbers, EntryInv
<1>2. CacheInv'
  BY DEF ConfigInv, CacheInv, At, Becomes
<1>3. CheckInv'
  BY DEF ConfigInv, CheckInv, Checked, At, Becomes
<1>4. RowInv'
  BY DEF ConfigInv, RowInv, At, Becomes
<1>5. PatchInv'
  BY DEF ConfigInv, PatchInv, Becomes
<1> QED BY <1>1, <1>2, <1>3, <1>4, <1>5 DEF ConfigInv

LEMMA GoesBecomes ==
  ASSUME ConfigInv, NEW r \in ConfigRequests, NEW next, Goes(r, next), UNCHANGED offered
  PROVE  ReqInv' /\ Becomes(r, req[r].kind, next, req[r].key, req[r].model, req[r].expected)
<1>1. req' = [req EXCEPT ![r] = [req[r] EXCEPT !.pc = next]]
  BY DEF Goes, Set
<1> QED BY <1>1 DEF ConfigInv, ReqInv, Shaped, Becomes

LEMMA BeginConfigKeeps ==
  ASSUME ConfigInv, NEW r \in ConfigRequests, BeginConfig(r) PROVE ConfigInv'
<1> DEFINE w == wish[r]
           next == CASE w.kind \in {"put", "connect"} -> "get" [] w.kind = "remove" -> "delete" [] OTHER -> "read"
<1>1. /\ req[r].pc = "idle" /\ offered' = [offered EXCEPT ![r] = {}]
      /\ req' = [req EXCEPT ![r] = [NoRequest EXCEPT !.kind = w.kind, !.key = w.key, !.model = w.model,
                                                     !.pc = next]]
      /\ UNCHANGED <<row, written, entry, cached, made>>
  BY DEF BeginConfig, At, Set, KeepTable, cacheVars
<1>2. next \in {"get", "delete", "read"} /\ (w.kind = "patch" => next = "read")
  OBVIOUS
<1> HIDE DEF next
<1>3. ReqInv' /\ Becomes(r, w.kind, next, w.key, w.model, None)
  BY <1>1 DEF ConfigInv, ReqInv, Shaped, Becomes, NoRequest
<1>4. \A q \in ConfigRequests \ {r} : offered'[q] = offered[q]
  BY <1>1 DEF ConfigInv, ReqInv
<1>5. Numbers' /\ EntryInv'
  BY <1>1 DEF ConfigInv, Numbers, EntryInv
<1>6. CacheInv'
  BY <1>1, <1>2, <1>3 DEF ConfigInv, CacheInv, At, Becomes
<1>7. CheckInv'
  BY <1>2, <1>3, <1>4 DEF ConfigInv, CheckInv, Checked, At, Becomes
<1>8. RowInv'
  BY <1>1, <1>3, <1>4 DEF ConfigInv, RowInv, At, Becomes
<1>9. PatchInv'
  BY <1>1, <1>2, <1>3 DEF ConfigInv, PatchInv, Becomes
<1> QED BY <1>3, <1>5, <1>6, <1>7, <1>8, <1>9 DEF ConfigInv

LEMMA ReadConfigKeeps ==
  ASSUME ConfigInv, NEW r \in ConfigRequests, ReadConfig(r) PROVE ConfigInv'
<1>1. UNCHANGED <<row, written, entry, cached, made, offered>> /\ req[r].pc = "read"
  BY DEF ReadConfig, KeepTable, KeepHistory, cacheVars, At
<1>2. CASE Goes(r, "failed")
  <2>1. ReqInv' /\ Becomes(r, req[r].kind, "failed", req[r].key, req[r].model, req[r].expected)
    BY <1>1, <1>2, GoesBecomes
  <2> QED BY <1>1, <2>1, GoingOn DEF Becomes
<1>3. CASE ~(row = None /\ req[r].kind = "patch")
  <2> DEFINE k == IF row = None THEN Public ELSE row.key
  <2>1. req' = [req EXCEPT ![r] = [req[r] EXCEPT !.pc = "get", !.expected = row, !.key = k]]
    BY <1>3 DEF ReadConfig, Set
  <2>2. row # None => k = row.key
    OBVIOUS
  <2> HIDE DEF k
  <2>3. ReqInv' /\ Becomes(r, req[r].kind, "get", k, req[r].model, row)
    <3>1. ReqInv'
      BY <1>1, <2>1 DEF ConfigInv, ReqInv, Shaped
    <3>2. Becomes(r, req[r].kind, "get", k, req[r].model, row)
      <4>1. /\ req'[r] = [req[r] EXCEPT !.pc = "get", !.expected = row, !.key = k]
            /\ \A q \in ConfigRequests \ {r} : req'[q] = req[q]
        BY <2>1 DEF ConfigInv, ReqInv
      <4>2. req[r] = [kind |-> req[r].kind, pc |-> req[r].pc, key |-> req[r].key,
                      model |-> req[r].model, expected |-> req[r].expected,
                      entry |-> req[r].entry, catalog |-> req[r].catalog]
        BY DEF ConfigInv, ReqInv, Shaped
      <4>3. /\ req'[r].kind = req[r].kind /\ req'[r].pc = "get" /\ req'[r].key = k
            /\ req'[r].model = req[r].model /\ req'[r].expected = row
        BY <4>1, <4>2
      <4> QED BY <4>1, <4>3 DEF Becomes
    <3> QED BY <3>1, <3>2
  <2>4. Numbers' /\ EntryInv'
    BY <1>1 DEF ConfigInv, Numbers, EntryInv
  <2>5. CacheInv'
    BY <1>1, <2>3 DEF ConfigInv, CacheInv, At, Becomes
  <2>6. CheckInv'
    BY <1>1, <2>3 DEF ConfigInv, CheckInv, Checked, At, Becomes
  <2>7. RowInv'
    BY <1>1, <2>3 DEF ConfigInv, RowInv, At, Becomes
  <2>8. PatchInv'
    BY <1>1, <1>3, <2>2, <2>3 DEF ConfigInv, PatchInv, RowInv, Becomes
  <2> QED BY <2>3, <2>4, <2>5, <2>6, <2>7, <2>8 DEF ConfigInv
<1> QED BY <1>2, <1>3 DEF ReadConfig

\* Whichever entry the cache has for a key afterwards is an entry of that key.
LEMMA GetCatalogKeeps ==
  ASSUME ConfigInv, NEW r \in ConfigRequests, GetCatalog(r) PROVE ConfigInv'
<1> DEFINE k == req[r].key  e == cached'[k]
<1>1. /\ req[r].pc = "get" /\ UNCHANGED <<row, written, offered>>
      /\ \/ k \in DOMAIN cached /\ UNCHANGED <<cached, made>>
         \/ k \notin DOMAIN cached /\ Room(k)
  BY DEF GetCatalog, Get, At, KeepTable, KeepHistory
<1>2. /\ made' \in Nat /\ made <= made' /\ made' <= MaxEntries /\ k \in DOMAIN cached'
      /\ e \in 1 .. made' /\ (e <= made => entry[e].source = k) /\ (e > made => entry[e] = NoEntry)
      /\ \A x \in DOMAIN cached' \ {k} : x \in DOMAIN cached /\ cached'[x] = cached[x]
  <2>1. CASE k \in DOMAIN cached /\ UNCHANGED <<cached, made>>
    BY <2>1 DEF ConfigInv, Numbers, CacheInv
  <2>2. CASE Room(k)
    <3>1. PICK kept \in SUBSET DOMAIN cached :
            /\ made < MaxEntries /\ made' = made + 1
            /\ cached' = [x \in kept \cup {k} |-> IF x = k THEN made' ELSE cached[x]]
      BY <2>2 DEF Room
    <3>2. made + 1 \in Entries /\ made + 1 > made
      BY BoundAssumption, <3>1 DEF ConfigInv, Numbers, Entries
    <3> QED BY BoundAssumption, <3>1, <3>2 DEF ConfigInv, Numbers, EntryInv
  <2> QED BY <1>1, <2>1, <2>2
<1>3. e \in Entries
  BY BoundAssumption, <1>2 DEF Entries, ConfigInv, Numbers
<1> HIDE DEF e
<1>4. \/ /\ req[r].kind = "get" /\ e <= made /\ UNCHANGED entry
         /\ req' = [req EXCEPT ![r] = [req[r] EXCEPT !.pc = "got", !.key = k, !.entry = e,
                                                     !.catalog = entry[e].catalog]]
      \/ /\ req' = [req EXCEPT ![r] = [req[r] EXCEPT !.pc = "waiting", !.key = k, !.entry = e]]
         /\ entry' = [entry EXCEPT ![e].source = k, ![e].pending = TRUE]
  <2>1. Fresh(e, req[r].kind # "get") => req[r].kind = "get" /\ e <= made
    BY <1>2 DEF Fresh, NoEntry, ConfigInv, Numbers
  <2> QED BY <1>3, <2>1 DEF GetCatalog, Get, Set, e
<1>5. /\ ReqInv' /\ Becomes(r, req[r].kind, req'[r].pc, k, req[r].model, req[r].expected)
      /\ req'[r].pc \in {"got", "waiting"} /\ (req'[r].pc = "got" => req[r].kind = "get")
      /\ req'[r].entry = e
  BY <1>1, <1>4 DEF ConfigInv, ReqInv, Shaped, Becomes
<1>6. /\ entry' = [x \in Entries |-> entry'[x]]
      /\ \A x \in Entries : entry'[x] = [source |-> entry'[x].source, catalog |-> entry'[x].catalog,
                                          pending |-> entry'[x].pending]
      /\ \A x \in Entries \ {e} : entry'[x] = entry[x]
  BY <1>3, <1>4 DEF ConfigInv, EntryInv
<1>7. entry'[e].source = k
  BY <1>2, <1>3, <1>4 DEF ConfigInv, EntryInv
<1>8. Numbers' /\ EntryInv'
  BY <1>1, <1>2, <1>6 DEF ConfigInv, Numbers, EntryInv, Entries
<1>9. CacheInv'
  <2>1. ASSUME NEW x \in DOMAIN cached' PROVE cached'[x] \in 1 .. made' /\ entry'[cached'[x]].source = x
    <3>1. CASE x = k
      BY <1>2, <1>7, <3>1 DEF e
    <3>2. CASE x # k
      <4>1. cached'[x] = cached[x] /\ cached[x] \in 1 .. made /\ entry[cached[x]].source = x
        BY <1>2, <3>2 DEF ConfigInv, CacheInv
      <4>2. cached[x] # e
        BY <1>2, <3>2, <4>1 DEF ConfigInv, Numbers
      <4> QED BY BoundAssumption, <1>2, <1>6, <4>1, <4>2 DEF ConfigInv, Numbers,
        Entries
    <3> QED BY <3>1, <3>2
  <2>2. ASSUME NEW q \in ConfigRequests, req'[q].pc = "waiting"
        PROVE  req'[q].entry \in 1 .. made' /\ entry'[req'[q].entry].source = req'[q].key
    <3>1. CASE q = r
      BY <1>2, <1>5, <1>7, <3>1 DEF Becomes
    <3>2. CASE q # r
      <4>1. req'[q] = req[q] /\ req[q].entry \in 1 .. made /\ entry[req[q].entry].source = req[q].key
        BY <1>5, <2>2, <3>2 DEF ConfigInv, CacheInv, At, Becomes
      <4>2. CASE req[q].entry = e
        BY <1>2, <1>7, <4>1, <4>2 DEF ConfigInv, Numbers
      <4>3. CASE req[q].entry # e
        BY BoundAssumption, <1>2, <1>6, <4>1, <4>3 DEF ConfigInv, Numbers, Entries
      <4> QED BY <4>2, <4>3
    <3> QED BY <3>1, <3>2
  <2> QED BY <1>2, <2>1, <2>2 DEF CacheInv, At
<1>10. CheckInv'
  BY <1>1, <1>5 DEF ConfigInv, CheckInv, Checked, At, Becomes
<1>11. RowInv'
  BY <1>1, <1>5 DEF ConfigInv, RowInv, At, Becomes
<1>12. PatchInv'
  BY <1>1, <1>5 DEF ConfigInv, PatchInv, Becomes
<1> QED BY <1>5, <1>8, <1>9, <1>10, <1>11, <1>12 DEF ConfigInv

LEMMA CheckModelKeeps ==
  ASSUME ConfigInv, NEW r \in ConfigRequests, CheckModel(r) PROVE ConfigInv'
<1>1. UNCHANGED <<row, written, entry, cached, made, offered>> /\ req[r].pc = "got"
  BY DEF CheckModel, KeepTable, KeepHistory, cacheVars, At
<1>2. req[r].kind # "get" => Checked(r, req[r].catalog.models)
  BY <1>1 DEF ConfigInv, CheckInv, At
<1>3. ASSUME NEW next \in {"answered", "failed"}, Goes(r, next) PROVE ConfigInv'
  <2>1. ReqInv' /\ Becomes(r, req[r].kind, next, req[r].key, req[r].model, req[r].expected)
    BY <1>1, <1>3, GoesBecomes
  <2> QED BY <1>1, <2>1, GoingOn DEF Becomes
<1>4. ASSUME NEW m \in req[r].catalog.models, req[r].kind # "get",
             Set(r, [req[r] EXCEPT !.pc = "store", !.model = m])
      PROVE  ConfigInv'
  <2>1. ReqInv' /\ Becomes(r, req[r].kind, "store", req[r].key, m, req[r].expected)
    <3>1. /\ req' = [req EXCEPT ![r] = [req[r] EXCEPT !.pc = "store", !.model = m]]
          /\ req'[r] = [req[r] EXCEPT !.pc = "store", !.model = m] /\ Shaped(req[r])
      BY <1>4 DEF Set, ConfigInv, ReqInv
    <3>2. /\ Shaped(req'[r]) /\ req'[r].pc = "store" /\ req'[r].kind = req[r].kind
          /\ req'[r].key = req[r].key /\ req'[r].model = m /\ req'[r].expected = req[r].expected
      BY <3>1 DEF Shaped
    <3> QED BY <1>1, <3>1, <3>2 DEF ConfigInv, ReqInv, Becomes
  <2>2. Checked(r, {m})
    BY <1>2, <1>4 DEF Checked
  <2> QED BY <1>1, <2>1, <2>2, GoingOn DEF Becomes
<1>5. ASSUME req[r].model \in req[r].catalog.models, req[r].kind # "get", Goes(r,
  "store")
      PROVE  ConfigInv'
  <2>1. ReqInv' /\ Becomes(r, req[r].kind, "store", req[r].key, req[r].model, req[r].expected)
    BY <1>1, <1>5, GoesBecomes
  <2>2. Checked(r, {req[r].model})
    BY <1>2, <1>5 DEF Checked
  <2> QED BY <1>1, <2>1, <2>2, GoingOn DEF Becomes
<1>6. CASE req[r].kind = "get"
  BY <1>3, <1>6 DEF CheckModel
<1>7. CASE req[r].kind = "connect" /\ req[r].model \notin req[r].catalog.models
  <2>1. \/ Goes(r, "failed")
        \/ \E m \in req[r].catalog.models : Set(r, [req[r] EXCEPT !.pc = "store", !.model = m])
    BY <1>7 DEF CheckModel
  <2> QED BY <1>3, <1>4, <1>7, <2>1
<1>8. CASE req[r].kind # "get" /\ ~(req[r].kind = "connect" /\ req[r].model \notin req[r].catalog.models)
  <2>1. Goes(r, IF req[r].model \in req[r].catalog.models THEN "store" ELSE "failed")
    BY <1>8 DEF CheckModel
  <2> QED BY <1>3, <1>5, <1>8, <2>1
<1> QED BY <1>6, <1>7, <1>8

LEMMA UpsertKeeps ==
  ASSUME ConfigInv, NEW r \in ConfigRequests, Upsert(r) PROVE ConfigInv'
<1>1. /\ req[r].pc = "store" /\ req[r].kind # "patch" /\ Goes(r, "invalidate")
      /\ written' = written + 1 /\ UNCHANGED <<entry, cached, made, offered>>
      /\ row' = [id |-> row'.id, write |-> written', key |-> req[r].key, model |-> req[r].model, by |-> r]
  BY DEF Upsert, KeepHistory, cacheVars, At
<1>2. ReqInv' /\ Becomes(r, req[r].kind, "invalidate", req[r].key, req[r].model, req[r].expected)
  BY <1>1, GoesBecomes
<1>3. Numbers' /\ EntryInv' /\ written \in Nat
  BY <1>1 DEF ConfigInv, Numbers, EntryInv
<1>4. CacheInv' /\ CheckInv'
  BY <1>1, <1>2 DEF ConfigInv, CacheInv, CheckInv, Checked, At, Becomes
<1>5. RowInv'
  <2>1. <<req[r].key, req[r].model>> \in offered[r]
    BY <1>1 DEF ConfigInv, CheckInv, Checked, At
  <2>2. /\ row'.write = written + 1 /\ row'.key = req[r].key /\ row'.model = req[r].model
        /\ row'.by = r
        /\ row' = [id |-> row'.id, write |-> row'.write, key |-> row'.key, model |-> row'.model, by |-> row'.by]
    BY <1>1
  <2> QED BY <1>1, <1>2, <1>3, <2>1, <2>2 DEF RowInv, At, Becomes
<1>6. PatchInv'
  <2>1. row'.write = written + 1
    BY <1>1
  <2> QED BY <1>1, <1>2, <1>3, <2>1 DEF ConfigInv, PatchInv, Becomes
<1> QED BY <1>2, <1>3, <1>4, <1>5, <1>6 DEF ConfigInv

\* The row has the write that was read, so it has the key too.
LEMMA UpdateModelKeeps ==
  ASSUME ConfigInv, NEW r \in ConfigRequests, UpdateModel(r) PROVE ConfigInv'
<1>1. /\ req[r].pc = "store" /\ req[r].kind = "patch"
      /\ UNCHANGED <<written, entry, cached, made, offered>>
  BY DEF UpdateModel, KeepHistory, cacheVars, At
<1>2. CASE UNCHANGED row /\ Goes(r, "failed")
  <2>1. ReqInv' /\ Becomes(r, req[r].kind, "failed", req[r].key, req[r].model, req[r].expected)
    BY <1>1, <1>2, GoesBecomes
  <2> QED BY <1>1, <1>2, <2>1, GoingOn DEF Becomes
<1>3. CASE /\ row # None /\ Unchanged(req[r].expected)
           /\ row' = [row EXCEPT !.model = req[r].model, !.by = r] /\ Goes(r, "answered")
  <2>1. ReqInv' /\ Becomes(r, req[r].kind, "answered", req[r].key, req[r].model, req[r].expected)
    BY <1>1, <1>3, GoesBecomes
  <2>2. row = [id |-> row.id, write |-> row.write, key |-> row.key, model |-> row.model, by |-> row.by]
    BY <1>3 DEF ConfigInv, RowInv
  <2>3. row' = [id |-> row.id, write |-> row.write, key |-> row.key, model |-> req[r].model, by |-> r]
    BY <1>3, <2>2
  <2>4. row.key = req[r].key /\ row.write \in 1 .. written
    BY <1>1, <1>3 DEF ConfigInv, PatchInv, RowInv, Unchanged
  <2>5. <<req[r].key, req[r].model>> \in offered[r]
    BY <1>1 DEF ConfigInv, CheckInv, Checked, At
  <2>6. /\ row'.write = row.write /\ row'.key = row.key /\ row'.model = req[r].model /\ row'.by = r
        /\ row' = [id |-> row'.id, write |-> row'.write, key |-> row'.key, model |-> row'.model, by |-> row'.by]
    BY <2>3
  <2>7. RowInv'
    BY <1>1, <2>1, <2>4, <2>5, <2>6 DEF RowInv, At, Becomes
  <2>8. PatchInv'
    BY <1>1, <1>3, <2>1, <2>6 DEF ConfigInv, PatchInv, Becomes
  <2>9. Numbers' /\ EntryInv' /\ CacheInv' /\ CheckInv'
    BY <1>1, <2>1 DEF ConfigInv, Numbers, EntryInv, CacheInv, CheckInv, Checked, At,
      Becomes
  <2> QED BY <2>1, <2>7, <2>8, <2>9 DEF ConfigInv
<1> QED BY <1>2, <1>3 DEF UpdateModel

LEMMA DeleteKeeps ==
  ASSUME ConfigInv, NEW r \in ConfigRequests, Delete(r) PROVE ConfigInv'
<1>1. /\ req[r].pc = "delete" /\ row' = None /\ Goes(r, "invalidate")
      /\ UNCHANGED <<written, entry, cached, made, offered>>
  BY DEF Delete, KeepHistory, cacheVars, At
<1>2. ReqInv' /\ Becomes(r, req[r].kind, "invalidate", req[r].key, req[r].model, req[r].expected)
  BY <1>1, GoesBecomes
<1>3. Numbers' /\ EntryInv' /\ CacheInv' /\ CheckInv'
  BY <1>1, <1>2 DEF ConfigInv, Numbers, EntryInv, CacheInv, CheckInv, Checked, At,
    Becomes
<1>4. RowInv' /\ PatchInv'
  BY <1>1, <1>2 DEF ConfigInv, RowInv, PatchInv, Becomes
<1> QED BY <1>2, <1>3, <1>4 DEF ConfigInv

LEMMA InvalidateKeeps ==
  ASSUME ConfigInv, NEW r \in ConfigRequests, Invalidate(r) PROVE ConfigInv'
<1>1. /\ req[r].pc = "invalidate" /\ Goes(r, "answered") /\ Drop(Keys)
      /\ UNCHANGED <<row, written, entry, made, offered>>
  BY DEF Invalidate, KeepTable, KeepHistory, At
<1>2. ReqInv' /\ Becomes(r, req[r].kind, "answered", req[r].key, req[r].model, req[r].expected)
  BY <1>1, GoesBecomes
<1>3. Numbers' /\ EntryInv' /\ CheckInv'
  BY <1>1, <1>2 DEF ConfigInv, Numbers, EntryInv, CheckInv, Checked, At, Becomes
<1>4. RowInv' /\ PatchInv'
  BY <1>1, <1>2 DEF ConfigInv, RowInv, PatchInv, At, Becomes
<1>5. CacheInv'
  BY <1>1, <1>2 DEF ConfigInv, CacheInv, Drop, At, Becomes
<1> QED BY <1>2, <1>3, <1>4, <1>5 DEF ConfigInv

LEMMA StatementFailsKeeps ==
  ASSUME ConfigInv, NEW r \in ConfigRequests, StatementFails(r) PROVE ConfigInv'
<1>1. UNCHANGED <<row, written, entry, cached, made, offered>> /\ Goes(r, "failed")
  BY DEF StatementFails, KeepTable, KeepHistory, cacheVars
<1>2. ReqInv' /\ Becomes(r, req[r].kind, "failed", req[r].key, req[r].model, req[r].expected)
  BY <1>1, GoesBecomes
<1> QED BY <1>1, <1>2, GoingOn DEF Becomes

\* The end of a fetch: its waiters go on, to `got' with an answer for their key.
LEMMA FetchEnds ==
  ASSUME ConfigInv, NEW e \in Entries, entry[e].pending, UNCHANGED <<row, written,
    made>>,
         EntryInv', \A x \in Entries : entry'[x].source = entry[x].source,
         ReqInv', offered' = [r \in ConfigRequests |-> offered'[r]],
         \A r \in ConfigRequests \ Waiting(e) : req'[r] = req[r],
         \A r \in Waiting(e) :
           /\ req'[r].kind = req[r].kind /\ req'[r].key = req[r].key
           /\ req'[r].model = req[r].model /\ req'[r].expected = req[r].expected
           /\ req'[r].pc \in {"got", "answered", "failed"}
           /\ req'[r].pc = "got" => \A m \in req'[r].catalog.models : <<entry[e].source, m>> \in offered'[r],
         \A r \in ConfigRequests : ~At(r, "idle") => offered[r] \subseteq offered'[r],
         \A k \in DOMAIN cached' : k \in DOMAIN cached /\ cached'[k] = cached[k]
  PROVE  ConfigInv'
<1>1. \A r \in Waiting(e) : req[r].pc = "waiting" /\ entry[e].source = req[r].key
  BY DEF ConfigInv, CacheInv, Waiting, At
<1>2. CacheInv'
  <2>1. \A x \in 1 .. made : x \in Entries
    BY BoundAssumption DEF ConfigInv, Numbers, CacheInv, Entries
  <2>2. \A k \in DOMAIN cached' : cached'[k] \in 1 .. made' /\ entry'[cached'[k]].source = k
    BY <2>1 DEF ConfigInv, CacheInv
  <2>3. ASSUME NEW r \in ConfigRequests, req'[r].pc = "waiting"
        PROVE  req'[r].entry \in 1 .. made' /\ entry'[req'[r].entry].source = req'[r].key
    <3>1. r \notin Waiting(e)
      BY <2>3
    <3>2. req[r].entry \in 1 .. made /\ entry[req[r].entry].source = req[r].key /\ req'[r] = req[r]
      BY <2>3, <3>1 DEF ConfigInv, CacheInv, At
    <3> QED BY <2>1, <3>2
  <2>4. made' <= MaxEntries
    BY DEF ConfigInv, CacheInv
  <2> QED BY <2>2, <2>3, <2>4 DEF CacheInv, At
<1>3. CheckInv'
  <2> SUFFICES ASSUME NEW r \in ConfigRequests
               PROVE  /\ req'[r].pc = "got" /\ req'[r].kind # "get"
                           => \A m \in req'[r].catalog.models : <<req'[r].key, m>> \in offered'[r]
                      /\ req'[r].pc = "store" => <<req'[r].key, req'[r].model>> \in offered'[r]
    BY DEF CheckInv, Checked, At
  <2>1. CASE r \in Waiting(e)
    BY <1>1, <2>1
  <2>2. CASE r \notin Waiting(e)
    BY <2>2 DEF ConfigInv, CheckInv, Checked, At
  <2> QED BY <2>1, <2>2
<1>4. RowInv'
  BY <1>1 DEF ConfigInv, RowInv, At
<1>5. PatchInv'
  BY <1>1 DEF ConfigInv, PatchInv
<1> QED BY <1>2, <1>3, <1>4, <1>5 DEF ConfigInv, Numbers

\* Of an entry, only its answer changes.
LEMMA EntryKeepsSource ==
  ASSUME ConfigInv, NEW e \in Entries, entry[e].pending, UNCHANGED made,
         NEW new,
         entry' = [entry EXCEPT ![e].pending = FALSE, ![e].catalog = new]
         \/ entry' = [entry EXCEPT ![e].pending = FALSE]
  PROVE  EntryInv' /\ \A x \in Entries : entry'[x].source = entry[x].source
<1>1. ~(e > made)
  BY DEF ConfigInv, EntryInv, NoEntry
<1> QED BY <1>1 DEF ConfigInv, EntryInv

LEMMA AnsweredKeeps ==
  ASSUME ConfigInv, NEW e \in Entries, Answered(e) PROVE ConfigInv'
<1> DEFINE models == account[entry[e].source]
           catalog == [models |-> models, at |-> hour, from |-> e]
<1>1. /\ entry[e].pending /\ UNCHANGED <<row, written, made, cached>>
      /\ entry' = Kept(e, catalog)
      /\ req' = [r \in ConfigRequests |->
                   IF r \in Waiting(e) THEN [req[r] EXCEPT !.pc = "got", !.catalog = catalog] ELSE req[r]]
      /\ offered' = [r \in ConfigRequests |-> IF At(r, "idle") THEN {}
                       ELSE offered[r] \cup {<<entry[e].source, m>> : m \in models}]
  BY DEF Answered, KeepTable
<1>2. catalog.models = models
  OBVIOUS
<1> HIDE DEF catalog
<1>3. EntryInv' /\ \A x \in Entries : entry'[x].source = entry[x].source
  BY <1>1, EntryKeepsSource DEF Kept
<1>4. ASSUME NEW r \in Waiting(e)
      PROVE  /\ req'[r].kind = req[r].kind /\ req'[r].key = req[r].key
             /\ req'[r].model = req[r].model /\ req'[r].expected = req[r].expected
             /\ req'[r].pc = "got" /\ req'[r].catalog = catalog /\ Shaped(req'[r])
  <2>1. req'[r] = [req[r] EXCEPT !.pc = "got", !.catalog = catalog] /\ Shaped(req[r])
    BY <1>1 DEF ConfigInv, ReqInv, Waiting
  <2> QED BY <2>1 DEF Shaped
<1>5. /\ ReqInv' /\ offered' = [r \in ConfigRequests |-> offered'[r]]
      /\ \A r \in ConfigRequests \ Waiting(e) : req'[r] = req[r]
  <2>1. \A r \in ConfigRequests \ Waiting(e) : req'[r] = req[r]
    BY <1>1
  <2>2. \A r \in ConfigRequests : Shaped(req'[r])
    BY <1>4, <2>1 DEF ConfigInv, ReqInv
  <2>3. /\ req' = [r \in ConfigRequests |-> req'[r]]
        /\ offered' = [r \in ConfigRequests |-> offered'[r]]
    BY <1>1
  <2> QED BY <2>1, <2>2, <2>3 DEF ReqInv
<1>6. ASSUME NEW r \in Waiting(e), NEW m \in models
  PROVE <<entry[e].source, m>> \in offered'[r]
  BY <1>1 DEF Waiting, At
<1>7. \A r \in ConfigRequests : ~At(r, "idle") => offered[r] \subseteq offered'[r]
  BY <1>1
<1>8. \A r \in Waiting(e) :
        /\ req'[r].kind = req[r].kind /\ req'[r].key = req[r].key
        /\ req'[r].model = req[r].model /\ req'[r].expected = req[r].expected
        /\ req'[r].pc \in {"got", "answered", "failed"}
        /\ req'[r].pc = "got" => \A m \in req'[r].catalog.models : <<entry[e].source, m>> \in offered'[r]
  BY <1>2, <1>4, <1>6
<1> QED BY <1>1, <1>3, <1>5, <1>7, <1>8, FetchEnds

LEMMA FetchFailsKeeps ==
  ASSUME ConfigInv, NEW e \in Entries, Refused(e) \/ Unavailable(e) PROVE ConfigInv'
<1>1. /\ entry[e].pending /\ UNCHANGED <<row, written, made, offered>>
      /\ entry' = [entry EXCEPT ![e].pending = FALSE]
  BY DEF Refused, Unavailable, KeepTable, KeepHistory
<1>2. EntryInv' /\ \A x \in Entries : entry'[x].source = entry[x].source
  BY <1>1, EntryKeepsSource
<1>3. \A k \in DOMAIN cached' : k \in DOMAIN cached /\ cached'[k] = cached[k]
  BY DEF Refused, Unavailable, Drop
<1>4. /\ req' = [r \in ConfigRequests |-> req'[r]]
      /\ \A r \in ConfigRequests \ Waiting(e) : req'[r] = req[r]
      /\ \A r \in Waiting(e) : \/ req'[r] = [req[r] EXCEPT !.pc = "failed"]
                               \/ req'[r] = [req[r] EXCEPT !.pc = "answered", !.catalog = entry[e].catalog]
  <2>1. CASE Refused(e)
    BY <2>1 DEF Refused, Waiting
  <2>2. CASE Unavailable(e)
    BY <2>2 DEF Unavailable, Waiting
  <2> QED BY <2>1, <2>2
<1>5. ASSUME NEW r \in Waiting(e)
      PROVE  /\ req'[r].kind = req[r].kind /\ req'[r].key = req[r].key
             /\ req'[r].model = req[r].model /\ req'[r].expected = req[r].expected
             /\ req'[r].pc \in {"answered", "failed"} /\ Shaped(req'[r])
  <2>1. Shaped(req[r])
    BY DEF ConfigInv, ReqInv, Waiting
  <2>2. CASE req'[r] = [req[r] EXCEPT !.pc = "failed"]
    BY <2>1, <2>2 DEF Shaped
  <2>3. CASE req'[r] = [req[r] EXCEPT !.pc = "answered", !.catalog = entry[e].catalog]
    BY <2>1, <2>3 DEF Shaped
  <2> QED BY <1>4, <2>2, <2>3
<1>6. ReqInv'
  <2>1. \A r \in ConfigRequests : Shaped(req'[r])
    BY <1>4, <1>5 DEF ConfigInv, ReqInv
  <2>2. offered' = [r \in ConfigRequests |-> offered'[r]]
    BY <1>1 DEF ConfigInv, ReqInv
  <2> QED BY <1>4, <2>1, <2>2 DEF ReqInv
<1>7. /\ offered' = [r \in ConfigRequests |-> offered'[r]]
      /\ \A r \in ConfigRequests : offered[r] \subseteq offered'[r]
  BY <1>1 DEF ConfigInv, ReqInv
<1> QED BY <1>1, <1>2, <1>3, <1>4, <1>5, <1>6, <1>7, FetchEnds

LEMMA ConfigNextKeeps == ASSUME ConfigInv, ConfigNext PROVE ConfigInv'
<1>1. CASE AccountChanges \/ Passes
  <2>1. UNCHANGED <<row, written, req, cached, entry, made, offered>>
    BY <1>1 DEF AccountChanges, Passes, KeepTable, KeepHistory, cacheVars
  <2> QED BY <2>1 DEF ConfigInv, Numbers, ReqInv, EntryInv, CacheInv, CheckInv,
    Checked, RowInv, PatchInv, At
<1> QED BY <1>1, BeginConfigKeeps, ReadConfigKeeps, GetCatalogKeeps, CheckModelKeeps, UpsertKeeps,
           UpdateModelKeeps, DeleteKeeps, InvalidateKeeps, StatementFailsKeeps,
           AnsweredKeeps,
           FetchFailsKeeps DEF ConfigNext

(* What a request waits for is an answer for its own key, and what it stores  *)
(* was in one; a row with the write a change has read has the key it had.    *)
THEOREM Invariance == ConfigSpec => []ConfigInv
<1>1. ConfigInit => ConfigInv
  BY ConfigInitHolds
<1>2. ConfigInv /\ [ConfigNext]_configVars => ConfigInv'
  <2>1. ASSUME ConfigInv, UNCHANGED configVars PROVE ConfigInv'
    BY <2>1 DEF ConfigInv, Numbers, ReqInv, EntryInv, CacheInv, CheckInv, Checked,
      RowInv, PatchInv, At,
                configVars, cacheVars
  <2> QED BY <2>1, ConfigNextKeeps
<1> QED BY <1>1, <1>2, PTL DEF ConfigSpec

(* The stored model is one that the stored key was offered after the request *)
(* began that stored the pair (saveIaConfigForEnterprise, updateIaModel).    *)
THEOREM StoredPairIsFresh == ConfigSpec => []StoredModelWasOffered
<1>1. ConfigInv => StoredModelWasOffered
  BY DEF ConfigInv, RowInv, StoredModelWasOffered
<1> QED BY <1>1, Invariance, PTL
-----------------------------------------------------------------------------
(* What a fetch brings late.  A request notes the entries that were dropped  *)
(* before it began; DropInv says that such an entry is not in the cache, so   *)
(* that nobody who begins later joins its fetch or finds its catalogue.      *)

DropInv ==
  /\ dropped = [r \in ConfigRequests |-> dropped[r]]
  /\ \A r \in ConfigRequests : \A e \in dropped[r] : e \in 1 .. made /\ ~Current(e)
  /\ \A r \in ConfigRequests : At(r, "waiting") => req[r].entry \notin dropped[r]
  /\ \A e \in Entries : entry[e].catalog # None => entry[e].catalog.from = e
  /\ DroppedEntriesStayDropped

LEMMA DropInit == ConfigInit => DropInv
BY DEF ConfigInit, DropInv, At, NoRequest, NoEntry, DroppedEntriesStayDropped

LEMMA MadeAreEntries == ASSUME ConfigInv PROVE 1 .. made \subseteq Entries
BY BoundAssumption DEF ConfigInv, Numbers, CacheInv, Entries

\* A step that adds nothing to the cache, and gives a request no catalogue of
\* an entry that was dropped for it.
LEMMA NothingComesBack ==
  ASSUME ConfigInv, DropInv, UNCHANGED <<made, dropped>>,
         \A k \in DOMAIN cached' : k \in DOMAIN cached /\ cached'[k] = cached[k],
         \A e \in Entries :
           /\ entry'[e].source = entry[e].source
           /\ entry'[e].catalog = entry[e].catalog \/ entry'[e].catalog.from = e,
         \A r \in ConfigRequests :
           /\ req'[r].pc = "waiting" => req[r].pc = "waiting" /\ req'[r].entry = req[r].entry
           /\ req'[r].catalog = req[r].catalog \/ req'[r].catalog.from \notin dropped[r]
  PROVE  DropInv'
<1>1. \A r \in ConfigRequests : \A e \in dropped'[r] : e \in 1 .. made' /\ ~Current(e)'
  BY MadeAreEntries DEF DropInv, Current
<1> QED BY <1>1 DEF DropInv, At, DroppedEntriesStayDropped

\* A request that goes on by itself keeps the catalogue it has.
LEMMA OwnStepDrops ==
  ASSUME ConfigInv, DropInv, NEW r \in ConfigRequests,
         ReadConfig(r) \/ CheckModel(r) \/ Upsert(r) \/ UpdateModel(r) \/ Delete(r)
         \/ Invalidate(r) \/ StatementFails(r)
  PROVE  DropInv'
<1>1. /\ UNCHANGED <<entry, made, dropped>>
      /\ \A k \in DOMAIN cached' : k \in DOMAIN cached /\ cached'[k] = cached[k]
  BY DEF ReadConfig, CheckModel, Upsert, UpdateModel, Delete, Invalidate,
    StatementFails, Drop,
         KeepHistory, cacheVars
<1>2. /\ \A q \in ConfigRequests \ {r} : req'[q] = req[q]
      /\ req'[r].pc # "waiting" /\ req'[r].catalog = req[r].catalog
  <2> USE DEF ConfigInv, ReqInv, Shaped, Goes, Set, At
  <2>1. CASE ReadConfig(r)
    BY <2>1 DEF ReadConfig
  <2>2. CASE CheckModel(r)
    BY <2>2 DEF CheckModel
  <2>3. CASE Upsert(r)
    BY <2>3 DEF Upsert
  <2>4. CASE UpdateModel(r)
    BY <2>4 DEF UpdateModel
  <2>5. CASE Delete(r) \/ Invalidate(r) \/ StatementFails(r)
    BY <2>5 DEF Delete, Invalidate, StatementFails
  <2> QED BY <2>1, <2>2, <2>3, <2>4, <2>5
<1> QED BY <1>1, <1>2, NothingComesBack

LEMMA BeginDrops == ASSUME ConfigInv, DropInv, NEW r \in ConfigRequests, BeginConfig(r)
  PROVE DropInv'
<1>1. /\ UNCHANGED <<entry, cached, made>>
      /\ dropped' = [dropped EXCEPT ![r] = {e \in 1 .. made : ~Current(e)}]
      /\ \A q \in ConfigRequests \ {r} : req'[q] = req[q]
      /\ req'[r].pc # "waiting" /\ req'[r].catalog = None
  BY DEF BeginConfig, Set, NoRequest, ConfigInv, ReqInv, cacheVars
<1>2. /\ dropped' = [q \in ConfigRequests |-> dropped'[q]]
      /\ dropped'[r] = {e \in 1 .. made : ~Current(e)}
      /\ \A q \in ConfigRequests \ {r} : dropped'[q] = dropped[q]
  BY <1>1 DEF DropInv
<1>3. \A q \in ConfigRequests : \A e \in dropped'[q] : e \in 1 .. made' /\ ~Current(e)'
  BY <1>1, <1>2 DEF DropInv, Current
<1> QED BY <1>1, <1>2, <1>3 DEF DropInv, At, DroppedEntriesStayDropped

\* The entry that a request finds or makes is the one of the cache.
LEMMA GetCatalogDrops ==
  ASSUME ConfigInv, ConfigInv', DropInv, NEW r \in ConfigRequests, GetCatalog(r)
        PROVE DropInv'
<1> DEFINE k == req[r].key  e == cached'[k]
<1>1. /\ req[r].pc = "get" /\ UNCHANGED dropped
      /\ \/ k \in DOMAIN cached /\ UNCHANGED <<cached, made>>
         \/ k \notin DOMAIN cached /\ Room(k)
  BY DEF GetCatalog, Get, At, KeepHistory
<1>2. /\ made \in Nat /\ made' \in Nat /\ made <= made' /\ k \in DOMAIN cached'
      /\ e \in 1 .. made' /\ (e > made => e = made + 1)
      /\ \A x \in DOMAIN cached' : (x \in DOMAIN cached /\ cached'[x] = cached[x]) \/ cached'[x] = made + 1
  <2>1. CASE k \in DOMAIN cached /\ UNCHANGED <<cached, made>>
    BY <2>1 DEF ConfigInv, Numbers, CacheInv
  <2>2. CASE Room(k)
    <3>1. PICK kept \in SUBSET DOMAIN cached :
            /\ made' = made + 1
            /\ cached' = [x \in kept \cup {k} |-> IF x = k THEN made' ELSE cached[x]]
      BY <2>2 DEF Room
    <3> QED BY <3>1 DEF ConfigInv, Numbers
  <2> QED BY <1>1, <2>1, <2>2
<1>3. e \in Entries /\ entry'[e].source = k
  <2>1. made' <= MaxEntries /\ entry'[e].source = k
    BY <1>2 DEF ConfigInv, CacheInv
  <2> QED BY <1>2, <2>1, BoundAssumption DEF Entries
<1> HIDE DEF e
<1>4. \/ /\ req' = [req EXCEPT ![r] = [req[r] EXCEPT !.pc = "got", !.key = k, !.entry = e,
                                                     !.catalog = entry[e].catalog]]
         /\ entry[e].catalog # None /\ UNCHANGED entry
      \/ /\ req' = [req EXCEPT ![r] = [req[r] EXCEPT !.pc = "waiting", !.key = k, !.entry = e]]
         /\ entry' = [entry EXCEPT ![e].source = k, ![e].pending = TRUE]
  BY <1>3 DEF GetCatalog, Get, Set, Fresh, e
<1>5. /\ \A q \in ConfigRequests \ {r} : req'[q] = req[q]
      /\ req'[r].entry = e
      /\ \/ req'[r].pc = "waiting" /\ req'[r].catalog = req[r].catalog
         \/ req'[r].catalog = entry[e].catalog /\ entry[e].catalog # None
  BY <1>4 DEF ConfigInv, ReqInv, Shaped
<1>6. /\ \A x \in Entries : entry'[x].catalog = entry[x].catalog
      /\ \A x \in Entries \ {e} : entry'[x] = entry[x]
  BY <1>3, <1>4 DEF ConfigInv, EntryInv
<1>7. ASSUME NEW q \in ConfigRequests, NEW x \in dropped[q]
      PROVE  x \in 1 .. made' /\ ~Current(x)' /\ x # e
  <2>1. x \in 1 .. made /\ ~Current(x) /\ x \in Entries
    BY MadeAreEntries DEF DropInv
  <2>2. x = e => entry[x].source = k /\ cached[k] = e /\ k \in DOMAIN cached
    BY <1>2, <2>1, <1>1 DEF e, ConfigInv, CacheInv, Room
  <2>3. x # e
    BY <2>1, <2>2 DEF Current
  <2>4. entry'[x] = entry[x]
    BY <1>6, <2>1, <2>3
  <2>5. ~Current(x)'
    BY <1>2, <2>1, <2>4 DEF Current
  <2> QED BY <1>2, <2>1, <2>3, <2>5
<1>8. \A x \in Entries : entry'[x].catalog # None => entry'[x].catalog.from = x
  BY <1>6 DEF DropInv
<1>9. \A q \in ConfigRequests : req'[q].catalog # None => req'[q].catalog.from \notin dropped[q]
  BY <1>3, <1>5, <1>7 DEF DropInv, DroppedEntriesStayDropped
<1> QED BY <1>1, <1>5, <1>7, <1>8, <1>9 DEF DropInv, At, DroppedEntriesStayDropped


\* The end of a fetch: who waits for it began while its entry was in the cache.
LEMMA FetchDrops ==
  ASSUME ConfigInv, DropInv, NEW e \in Entries,
    Answered(e) \/ Refused(e) \/ Unavailable(e)
  PROVE  DropInv'
<1>1. /\ UNCHANGED <<made, dropped>>
      /\ \A k \in DOMAIN cached' : k \in DOMAIN cached /\ cached'[k] = cached[k]
  BY DEF Answered, Refused, Unavailable, Drop, KeepHistory
<1>2. \A r \in Waiting(e) : r \in ConfigRequests /\ e \notin dropped[r]
  BY DEF DropInv, Waiting
<1>3. CASE Answered(e)
  <2> DEFINE catalog == [models |-> account[entry[e].source], at |-> hour, from |-> e]
  <2>1. /\ entry' = Kept(e, catalog)
        /\ req' = [r \in ConfigRequests |->
             IF r \in Waiting(e) THEN [req[r] EXCEPT !.pc = "got", !.catalog = catalog] ELSE req[r]]
    BY <1>3 DEF Answered
  <2>2. catalog.from = e
    OBVIOUS
  <2> HIDE DEF catalog
  <2>3. \A x \in Entries :
          /\ entry'[x].source = entry[x].source
          /\ entry'[x].catalog = entry[x].catalog \/ entry'[x].catalog.from = x
    <3>1. entry[e] = [source |-> entry[e].source, catalog |-> entry[e].catalog, pending |-> TRUE]
          \/ entry[e] = [source |-> entry[e].source, catalog |-> entry[e].catalog,
                          pending |-> entry[e].pending]
      BY DEF ConfigInv, EntryInv
    <3>2. /\ entry'[e] = [entry[e] EXCEPT !.pending = FALSE,
                                          !.catalog = IF Current(e) THEN catalog ELSE @]
          /\ \A x \in Entries \ {e} : entry'[x] = entry[x]
      BY <2>1 DEF Kept, ConfigInv, EntryInv
    <3>3. /\ entry'[e].source = entry[e].source
          /\ entry'[e].catalog = IF Current(e) THEN catalog ELSE entry[e].catalog
      BY <3>1, <3>2
    <3> QED BY <2>2, <3>2, <3>3
  <2>4. ASSUME NEW r \in ConfigRequests
        PROVE  /\ req'[r].pc = "waiting" => req[r].pc = "waiting" /\ req'[r].entry = req[r].entry
               /\ req'[r].catalog = req[r].catalog \/ req'[r].catalog.from \notin dropped[r]
    <3>1. CASE r \in Waiting(e)
      <4>1. req'[r].pc = "got" /\ req'[r].catalog = catalog
        <5>1. req'[r] = [req[r] EXCEPT !.pc = "got", !.catalog = catalog] /\ Shaped(req[r])
          BY <2>1, <3>1 DEF ConfigInv, ReqInv
        <5> QED BY <5>1 DEF Shaped
      <4> QED BY <1>2, <2>2, <3>1, <4>1
    <3>2. CASE r \notin Waiting(e)
      BY <2>1, <3>2
    <3> QED BY <3>1, <3>2
  <2> QED BY <1>1, <2>3, <2>4, NothingComesBack
<1>4. CASE Refused(e) \/ Unavailable(e)
  <2>1. entry' = [entry EXCEPT ![e].pending = FALSE]
    BY <1>4 DEF Refused, Unavailable
  <2>2. \A x \in Entries : entry'[x].source = entry[x].source /\ entry'[x].catalog = entry[x].catalog
    BY <2>1 DEF ConfigInv, EntryInv
  <2>3. ASSUME NEW r \in ConfigRequests
        PROVE  /\ req'[r].pc = "waiting" => req[r].pc = "waiting" /\ req'[r].entry = req[r].entry
               /\ req'[r].catalog = req[r].catalog \/ req'[r].catalog.from \notin dropped[r]
    <3>1. CASE req'[r] = req[r]
      BY <3>1
    <3>2. CASE req'[r] = [req[r] EXCEPT !.pc = "failed"]
      BY <3>2 DEF ConfigInv, ReqInv, Shaped
    <3>3. CASE /\ r \in Waiting(e) /\ entry[e].catalog # None
               /\ req'[r] = [req[r] EXCEPT !.pc = "answered", !.catalog = entry[e].catalog]
      <4>1. req'[r].pc = "answered" /\ req'[r].catalog = entry[e].catalog
        BY <3>3 DEF ConfigInv, ReqInv, Shaped
      <4>2. entry[e].catalog.from = e
        BY <3>3 DEF DropInv
      <4> QED BY <1>2, <3>3, <4>1, <4>2
    <3> QED BY <1>4, <3>1, <3>2, <3>3 DEF Refused, Unavailable
  <2> QED BY <1>1, <2>2, <2>3, NothingComesBack
<1> QED BY <1>3, <1>4

(* Nobody is answered from a fetch whose entry was invalidated, refused or   *)
(* evicted before his request began, with any keys, size of the cache and    *)
(* order of answers (openRouterModels.get, invalidateEnterprise).            *)
THEOREM LateAnswersStayOut == ConfigSpec => []DroppedEntriesStayDropped
<1>1. ConfigInit => DropInv
  BY DropInit
<1>2. ConfigInv /\ ConfigInv' /\ DropInv /\ [ConfigNext]_configVars => DropInv'
  <2> SUFFICES ASSUME ConfigInv, ConfigInv', DropInv, [ConfigNext]_configVars
        PROVE DropInv'
    OBVIOUS
  <2>1. CASE UNCHANGED <<cached, entry, made, req, dropped>>
    BY <2>1, NothingComesBack
  <2>2. CASE AccountChanges \/ Passes \/ UNCHANGED configVars
    BY <2>1, <2>2 DEF AccountChanges, Passes, KeepHistory, cacheVars, configVars
  <2> QED BY <2>2, BeginDrops, OwnStepDrops, GetCatalogDrops,
    FetchDrops DEF ConfigNext
<1>3. DropInv => DroppedEntriesStayDropped
  BY DEF DropInv
<1> QED BY <1>1, <1>2, <1>3, Invariance, PTL DEF ConfigSpec

-----------------------------------------------------------------------------
(* CollectionPoints.                                                         *)

Alone(r) == \A q \in Requests : ~Together(q, r)
DisablesItem(r) == op[r] = "disable" /\ scope[r] \in Items

\* Types, and what a request that has not begun looks like.
RowsInv ==
  /\ now \in Nat
  /\ points \subseteq Requests /\ active \subseteq points
  /\ created \in [Requests -> 0 .. now] /\ updated \in [Requests -> 0 .. now]
  /\ start \in [Requests -> 0 .. now]
  /\ pc \in [Requests -> {"new", "active", "any", "write", "commit"} \cup Ends]
  /\ op \in [Requests -> {"enable", "disable"}] /\ scope \in [Requests -> Scopes]
  /\ target = [r \in Requests |-> target[r]]
  /\ newest = [s \in Scopes |-> newest[s]]
  /\ \A r \in Requests : target[r] \subseteq PointsOf(scope[r])
  /\ \A p \in points : pc[p] = "done"
  /\ \A r \in Requests : pc[r] \in {"new", "active", "any"} => target[r] = {}
  /\ \A q, r \in Requests : Together(q, r) => pc[q] # "new" /\ pc[r] # "new"

\* Requests in progress for one scope have met, and the newest has met them all.
MetInv ==
  /\ \A q, r \in InFlight : q # r /\ scope[q] = scope[r] => Together(q, r)
  /\ \A q \in InFlight : \A r \in Requests :
       r = newest[scope[q]] /\ q # r => Together(q, r)

TwinInv ==
  /\ TwinPointsMeanOverlap
  /\ \A r \in InFlight : pc[r] \in {"write", "commit"} /\ op[r] = "enable" /\ target[r] = {} =>
       \A p \in PointsOf(scope[r]) : Together(p, r)

ClosedInv ==
  /\ \A r \in Requests : Alone(r) /\ DisablesItem(r) /\ pc[r] = "commit" =>
       ActiveOf(scope[r]) \subseteq target[r]
  /\ \A r \in Requests : LastAlone(r) /\ DisablesItem(r) => ActiveOf(scope[r]) = {}

Orderly(s) ==
  \A d, e \in Requests :
    op[d] = "disable" /\ op[e] = "enable" /\ scope[d] = s => ~Together(d, e)

ShownInv ==
  \A s \in Items : Orderly(s) =>
    /\ \A p \in ActiveOf(s), q \in PointsOf(s) \ active : updated[q] < updated[p]
    /\ \A r \in Requests : pc[r] = "commit" /\ scope[r] = s =>
         /\ op[r] = "enable" => \A q \in PointsOf(s) \ active : updated[q] < start[r]
         /\ op[r] = "disable" => ActiveOf(s) \subseteq target[r]

PointsInv == RowsInv /\ MetInv

LEMMA PointsInit == Init => PointsInv
BY ScopesAssumption DEF Init, PointsInv, RowsInv, MetInv, InFlight, Ends, Scopes,
  PointsOf, Together

Begins(r, o, s) ==
  /\ pc[r] = "new" /\ r \notin points /\ target[r] = {}
  /\ op' = [op EXCEPT ![r] = o] /\ scope' = [scope EXCEPT ![r] = s]
  /\ newest' = [newest EXCEPT ![s] = r]
  /\ overlaps' = overlaps \cup {{q, r} : q \in {x \in InFlight : scope[x] = s}}
  /\ \E next \in {"write", "active", "refused"} : pc' = [pc EXCEPT ![r] = next]
  /\ UNCHANGED <<now, points, active, created, updated, target, start>>

LEMMA BeginStep ==
  ASSUME RowsInv, NEW r \in Requests, Begin(r)
  PROVE  \E o \in {"enable", "disable"}, s \in Scopes : Begins(r, o, s)
BY DEF Begin, Begins, GoTo, RowsInv, tableVars

\* Any other step: what the request does to itself, and to the rows of its scope.
Works(r) ==
  FindActive(r) \/ FindAny(r) \/ StartWrite(r) \/ CommitEnable(r) \/ CommitDisable(r) \/ Fails(r)

LEMMA WorksStep ==
  ASSUME RowsInv, NEW r \in Requests, Works(r)
  PROVE  /\ r \in InFlight /\ UNCHANGED <<op, scope, newest, overlaps>>
         /\ \E next \in {"any", "write", "commit", "done", "failed"} : pc' = [pc EXCEPT ![r] = next]
         /\ \A q \in Requests \ {r} : target'[q] = target[q] /\ start'[q] = start[q]
         /\ points \subseteq points' /\ points' \subseteq points \cup {r}
         /\ \A p \in Requests : scope[p] # scope[r] =>
              /\ p \in active' <=> p \in active
              /\ updated'[p] = updated[p]
<1> USE DEF GoTo, RowsInv, InFlight, Ends
<1>1. CASE FindActive(r)
  BY <1>1 DEF FindActive, tableVars
<1>2. CASE FindAny(r)
  BY <1>2 DEF FindAny, tableVars
<1>3. CASE StartWrite(r)
  BY <1>3 DEF StartWrite, tableVars
<1>4. CASE CommitEnable(r)
  BY <1>4 DEF CommitEnable, Touch, PointsOf
<1>5. CASE CommitDisable(r)
  BY <1>5 DEF CommitDisable, Touch, StillMatching, PointsOf
<1>6. CASE Fails(r)
  BY <1>6 DEF Fails, tableVars
<1> QED BY <1>1, <1>2, <1>3, <1>4, <1>5, <1>6 DEF Works

LEMMA BeginMeets ==
  ASSUME PointsInv, NEW r \in Requests, Begin(r) PROVE PointsInv'
<1>1. PICK o \in {"enable", "disable"}, s \in Scopes : Begins(r, o, s)
  BY BeginStep DEF PointsInv
<1> USE DEF Begins
<1>2. RowsInv'
  <2>1. \A q, p \in Requests : Together(q, p)' => pc'[q] # "new" /\ pc'[p] # "new"
    <3>1. /\ pc'[r] # "new" /\ \A q \in Requests \ {r} : pc'[q] = pc[q]
          /\ \A q \in InFlight : q \in Requests /\ pc[q] # "new" /\ q # r
      BY <1>1 DEF PointsInv, RowsInv, InFlight
    <3>2. ASSUME NEW q \in Requests, NEW p \in Requests, {q, p} \in overlaps
          PROVE  pc'[q] # "new" /\ pc'[p] # "new"
      BY <1>1, <3>1, <3>2 DEF PointsInv, RowsInv, Together
    <3>3. ASSUME NEW q \in Requests, NEW p \in Requests, NEW x \in InFlight, {q,
      p} = {x, r}
          PROVE  pc'[q] # "new" /\ pc'[p] # "new"
      <4>1. q \in {x, r} /\ p \in {x, r}
        BY <3>3
      <4> QED BY <3>1, <4>1
    <3>4. ASSUME NEW q \in Requests, NEW p \in Requests, Together(q, p)'
          PROVE  {q, p} \in overlaps \/ \E x \in InFlight : {q, p} = {x, r}
      BY <1>1, <3>4 DEF Together
    <3>5. ASSUME NEW q \in Requests, NEW p \in Requests, Together(q, p)'
          PROVE  pc'[q] # "new" /\ pc'[p] # "new"
      <4>1. CASE {q, p} \in overlaps
        BY <3>2, <4>1
      <4>2. ASSUME NEW x \in InFlight, {q, p} = {x, r}
            PROVE pc'[q] # "new" /\ pc'[p] # "new"
        BY <3>3, <4>2
      <4> QED BY <3>4, <3>5, <4>1, <4>2
    <3> QED BY <3>5, Zenon
  <2>2. /\ pc' \in [Requests -> {"new", "active", "any", "write", "commit"} \cup Ends]
        /\ op' \in [Requests -> {"enable", "disable"}] /\ scope' \in [Requests -> Scopes]
        /\ newest' = [x \in Scopes |-> newest'[x]]
    BY <1>1 DEF PointsInv, RowsInv, Ends
  <2>3. /\ \A q \in Requests : target'[q] \subseteq PointsOf(scope[q])'
        /\ \A p \in points' : pc'[p] = "done"
        /\ \A q \in Requests : pc'[q] \in {"new", "active", "any"} => target'[q] = {}
    BY <1>1 DEF PointsInv, RowsInv, PointsOf
  <2> QED BY <1>1, <2>1, <2>2, <2>3 DEF PointsInv, RowsInv
<1>3. /\ \A q \in Requests \ {r} : scope'[q] = scope[q] /\ (q \in InFlight' <=> q \in InFlight)
      /\ r \notin InFlight /\ scope'[r] = s
  BY <1>1 DEF PointsInv, RowsInv, InFlight
<1>4. ASSUME NEW q \in InFlight, scope[q] = s PROVE Together(q, r)' /\ Together(r, q)'
  BY <1>1, <1>4 DEF Together
<1>5. \A p, q \in Requests : Together(p, q) => Together(p, q)'
  BY <1>1 DEF Together
<1>6. MetInv'
  <2>1. ASSUME NEW p \in InFlight', NEW q \in InFlight', p # q, scope'[p] = scope'[q]
        PROVE  Together(p, q)'
    BY <1>3, <1>4, <1>5, <2>1 DEF PointsInv, MetInv, InFlight
  <2>2. ASSUME NEW q \in InFlight', NEW p \in Requests, p = newest'[scope'[q]], q # p
        PROVE  Together(p, q)'
    <3>1. newest'[s] = r /\ \A x \in Scopes \ {s} : newest'[x] = newest[x]
      BY <1>1 DEF PointsInv, RowsInv
    <3>2. q # r /\ q \in InFlight /\ scope'[q] = scope[q] /\ scope[q] \in Scopes
      BY <1>3, <2>2, <3>1 DEF PointsInv, RowsInv, InFlight
    <3>3. CASE scope[q] = s
      BY <1>4, <2>2, <3>1, <3>2, <3>3
    <3>4. CASE scope[q] # s
      <4>1. p = newest[scope[q]]
        BY <2>2, <3>1, <3>2, <3>4
      <4>2. Together(p, q)
        BY <2>2, <3>2, <4>1 DEF PointsInv, MetInv, Together
      <4> QED BY <1>5, <2>2, <3>2, <4>2 DEF InFlight
    <3> QED BY <3>3, <3>4
  <2> QED BY <2>1, <2>2 DEF MetInv, Together
<1> QED BY <1>2, <1>6 DEF PointsInv
LEMMA WorksKeepRows ==
  ASSUME PointsInv, NEW r \in Requests, Works(r) PROVE RowsInv'
<1> USE DEF PointsInv
<1>1. /\ r \in InFlight /\ UNCHANGED <<op, scope, newest, overlaps>> /\ pc[r] \notin {"new"} \cup Ends
      /\ \E next \in {"any", "write", "commit", "done", "failed"} : pc' = [pc EXCEPT ![r] = next]
      /\ points \subseteq points' /\ points' \subseteq points \cup {r}
  BY WorksStep DEF InFlight
<1>2. pc' \in [Requests -> {"new", "active", "any", "write", "commit"} \cup Ends] /\ pc'[r] # "new"
  BY <1>1 DEF RowsInv, Ends
<1>3. \A q, p \in Requests : Together(q, p)' => pc'[q] # "new" /\ pc'[p] # "new"
  BY <1>1, <1>2 DEF RowsInv, Together
<1>4. /\ op' \in [Requests -> {"enable", "disable"}] /\ scope' \in [Requests -> Scopes]
      /\ newest' = [s \in Scopes |-> newest'[s]]
  BY <1>1 DEF RowsInv
<1>5. CASE FindActive(r) \/ FindAny(r) \/ Fails(r)
  <2>1. UNCHANGED <<now, points, active, created, updated, start>>
    BY <1>5 DEF FindActive, FindAny, Fails, tableVars
  <2>2. \A p \in points : pc'[p] = "done"
    BY <1>1, <2>1 DEF RowsInv, Ends
  <2>3. /\ target' = [q \in Requests |-> target'[q]]
        /\ \A q \in Requests : target'[q] \subseteq PointsOf(scope[q])
        /\ \A q \in Requests : pc'[q] \in {"new", "active", "any"} => target'[q] = {}
    BY <1>1, <1>5 DEF RowsInv, FindActive, FindAny, Fails, GoTo, ActiveOf, LatestOf,
      PointsOf
  <2> QED BY <1>1, <1>2, <1>3, <1>4, <2>1, <2>2, <2>3 DEF RowsInv, PointsOf
<1>6. CASE StartWrite(r)
  <2>1. /\ now' = now + 1 /\ start' = [start EXCEPT ![r] = now'] /\ target' = [target EXCEPT ![r] = Rows(r)]
        /\ UNCHANGED <<points, active, created, updated>> /\ pc' = [pc EXCEPT ![r] = "commit"]
    BY <1>6 DEF StartWrite, tableVars, GoTo
  <2>2. Rows(r) \subseteq PointsOf(scope[r])
    BY DEF Rows, ActiveOf, RowsInv
  <2>3. /\ now' \in Nat /\ created' \in [Requests -> 0 .. now'] /\ updated' \in [Requests -> 0 .. now']
        /\ start' \in [Requests -> 0 .. now']
    BY <2>1 DEF RowsInv
  <2>4. /\ target' = [q \in Requests |-> target'[q]]
        /\ \A q \in Requests : target'[q] \subseteq PointsOf(scope[q])
        /\ \A q \in Requests : pc'[q] \in {"new", "active", "any"} => target'[q] = {}
        /\ \A p \in points : pc'[p] = "done"
    BY <1>1, <2>1, <2>2 DEF RowsInv, Ends
  <2> QED BY <1>1, <1>2, <1>3, <1>4, <2>1, <2>3, <2>4 DEF RowsInv, PointsOf
<1>7. CASE CommitEnable(r) \/ CommitDisable(r)
  <2>1. UNCHANGED <<now, target, start>> /\ pc' = [pc EXCEPT ![r] = "done"] /\ pc[r] = "commit"
    BY <1>7 DEF CommitEnable, CommitDisable, GoTo
  <2>2. points' \subseteq Requests /\ active' \subseteq points'
    BY <1>7 DEF CommitEnable, CommitDisable, RowsInv, PointsOf
  <2>3. created' \in [Requests -> 0 .. now'] /\ updated' \in [Requests -> 0 .. now']
    BY <1>7, <2>1 DEF CommitEnable, CommitDisable, Touch, RowsInv
  <2>4. /\ \A q \in Requests : pc'[q] \in {"new", "active", "any"} => target'[q] = {}
        /\ \A p \in points' : pc'[p] = "done"
        /\ \A q \in Requests : target'[q] \subseteq PointsOf(scope[q])'
    BY <1>1, <2>1 DEF RowsInv, PointsOf
  <2> QED BY <1>1, <1>2, <1>3, <1>4, <2>1, <2>2, <2>3, <2>4 DEF RowsInv
<1> QED BY <1>5, <1>6, <1>7 DEF Works

LEMMA WorksKeep ==
  ASSUME PointsInv, NEW r \in Requests, Works(r) PROVE PointsInv'
<1>1. /\ UNCHANGED <<scope, newest, overlaps>>
      /\ \E next \in {"any", "write", "commit", "done", "failed"} : pc' = [pc EXCEPT ![r] = next]
      /\ r \in InFlight
  BY WorksStep DEF PointsInv
<1>2. InFlight' \subseteq InFlight
  BY <1>1 DEF InFlight, Ends, PointsInv, RowsInv
<1>3. MetInv'
  BY <1>1, <1>2 DEF PointsInv, MetInv, Together, InFlight
<1> QED BY <1>3, WorksKeepRows DEF PointsInv

LEMMA PointsKept == ASSUME PointsInv, [Next]_vars PROVE PointsInv'
<1>1. CASE UNCHANGED vars
  BY <1>1 DEF vars, tableVars, PointsInv, RowsInv, MetInv, InFlight, PointsOf,
    Together
<1> QED BY <1>1, BeginMeets, WorksKeep DEF Next, Works

\* Two points of a scope that were made by requests that never met.
LEMMA TwinsKept ==
  ASSUME PointsInv, TwinInv, [Next]_vars PROVE TwinInv'
<1>1. CASE UNCHANGED vars
  BY <1>1 DEF vars, tableVars, TwinInv, TwinPointsMeanOverlap, InFlight, PointsOf,
    Together
<1>2. ASSUME NEW r \in Requests, Begin(r) PROVE TwinInv'
  <2>1. PICK o \in {"enable", "disable"}, s \in Scopes : Begins(r, o, s)
    BY <1>2, BeginStep DEF PointsInv
  <2> USE DEF Begins
  <2>2. \A p, q \in Requests : Together(p, q) => Together(p, q)'
    BY <2>1 DEF Together
  <2>3. \A p \in points : p \in Requests /\ scope'[p] = scope[p] /\ p # r
    BY <2>1 DEF PointsInv, RowsInv
  <2>4. op'[r] = "enable" => pc'[r] \notin {"write", "commit"}
    BY <1>2, <2>1 DEF PointsInv, RowsInv, Begin, GoTo
  <2>5. TwinPointsMeanOverlap'
    BY <2>1, <2>2, <2>3 DEF TwinInv, TwinPointsMeanOverlap
  <2>6. ASSUME NEW q \in InFlight', pc'[q] \in {"write", "commit"},
    op'[q] = "enable", target'[q] = {},
               NEW p \in PointsOf(scope[q])'
        PROVE  Together(p, q)'
    <3>1. q # r /\ q \in Requests
      BY <2>4, <2>6 DEF InFlight
    <3>2. q \in InFlight /\ pc[q] \in {"write", "commit"} /\ op[q] = "enable" /\ target[q] = {}
          /\ scope'[q] = scope[q]
      BY <2>1, <2>6, <3>1 DEF InFlight, PointsInv, RowsInv
    <3>3. p \in PointsOf(scope[q]) /\ p \in Requests
      BY <2>1, <2>3, <2>6, <3>2 DEF PointsOf
    <3> QED BY <2>2, <3>1, <3>2, <3>3 DEF TwinInv
  <2> QED BY <2>5, <2>6 DEF TwinInv
<1>3. ASSUME NEW r \in Requests, Works(r) PROVE TwinInv'
  <2>1. /\ r \in InFlight /\ UNCHANGED <<op, scope, newest, overlaps>>
        /\ \E next \in {"any", "write", "commit", "done", "failed"} : pc' = [pc EXCEPT ![r] = next]
        /\ \A q \in Requests \ {r} : target'[q] = target[q]
    BY <1>3, WorksStep DEF PointsInv
  <2>2. /\ \A q \in Requests \ {r} : pc'[q] = pc[q] /\ (q \in InFlight' <=> q \in InFlight)
        /\ r \in Requests
    BY <2>1 DEF InFlight, PointsInv, RowsInv
  <2>3. CASE UNCHANGED points
    <3>1. pc'[r] \in {"write", "commit"} /\ op[r] = "enable" /\ target'[r] = {} =>
            \/ PointsOf(scope[r]) = {}
            \/ pc[r] \in {"write", "commit"} /\ target[r] = {}
      <4> USE DEF PointsInv, RowsInv, GoTo
      <4>1. CASE FindActive(r)
        BY <4>1 DEF FindActive
      <4>2. CASE FindAny(r)
        BY <4>2 DEF FindAny
      <4>3. CASE StartWrite(r)
        BY <4>3 DEF StartWrite, Rows
      <4>4. CASE CommitEnable(r) \/ CommitDisable(r) \/ Fails(r)
        BY <4>4 DEF CommitEnable, CommitDisable, Fails
      <4> QED BY <1>3, <4>1, <4>2, <4>3, <4>4 DEF Works
    <3>2. TwinPointsMeanOverlap'
      BY <2>1, <2>3 DEF TwinInv, TwinPointsMeanOverlap, Together
    <3>3. ASSUME NEW q \in InFlight', pc'[q] \in {"write", "commit"},
      op'[q] = "enable", target'[q] = {},
                 NEW p \in PointsOf(scope[q])'
          PROVE  Together(p, q)'
      <4>1. q \in Requests /\ p \in PointsOf(scope[q])
        BY <2>1, <2>3, <3>3 DEF InFlight, PointsOf
      <4>2. q \in InFlight /\ pc[q] \in {"write", "commit"} /\ target[q] = {}
        BY <2>1, <2>2, <3>1, <3>3, <4>1
      <4> QED BY <2>1, <3>3, <4>1, <4>2 DEF TwinInv, Together
    <3> QED BY <3>2, <3>3 DEF TwinInv
  <2>4. CASE ~UNCHANGED points
    <3>1. /\ CommitEnable(r) /\ pc[r] = "commit" /\ op[r] = "enable" /\ target[r] = {}
          /\ points' = points \cup {r} /\ pc'[r] = "done" /\ target'[r] = {}
      <4>1. CommitEnable(r)
        BY <1>3, <2>4 DEF Works, FindActive, FindAny, StartWrite, CommitDisable,
          Fails, tableVars
      <4>2. target[r] # {} => target[r] \subseteq points /\ points' = points \cup target[r]
        BY <4>1 DEF CommitEnable, PointsInv, RowsInv, PointsOf
      <4>3. target[r] = {}
        BY <2>4, <4>2
      <4> QED BY <4>1, <4>3 DEF CommitEnable, GoTo, PointsInv, RowsInv
    <3>2. \A p \in PointsOf(scope[r]) : Together(p, r) /\ Together(r, p)
      BY <2>1, <3>1 DEF TwinInv, Together
    <3>3. TwinPointsMeanOverlap'
      BY <2>1, <3>1, <3>2 DEF TwinInv, TwinPointsMeanOverlap, PointsOf, Together
    <3>4. ASSUME NEW q \in InFlight', pc'[q] \in {"write", "commit"},
      op'[q] = "enable", target'[q] = {},
                 NEW p \in PointsOf(scope[q])'
          PROVE  Together(p, q)'
      <4>1. q # r /\ q \in InFlight /\ pc[q] = pc'[q] /\ target[q] = {} /\ op[q] = "enable"
        BY <2>1, <2>2, <3>1, <3>4 DEF InFlight
      <4>2. p \in PointsOf(scope[q]) \/ (p = r /\ scope[q] = scope[r])
        BY <2>1, <3>1, <3>4 DEF PointsOf
      <4> QED BY <2>1, <3>4, <4>1, <4>2 DEF TwinInv, PointsInv, MetInv, Together
    <3> QED BY <3>3, <3>4 DEF TwinInv
  <2> QED BY <2>3, <2>4
<1> QED BY <1>1, <1>2, <1>3 DEF Next, Works

-----------------------------------------------------------------------------
\* A request that nobody met leaves its item closed.
LEMMA ClosedKept == ASSUME PointsInv, ClosedInv, [Next]_vars PROVE ClosedInv'
<1>1. CASE UNCHANGED vars
  BY <1>1 DEF vars, tableVars, ClosedInv, Alone, LastAlone, DisablesItem, ActiveOf,
    PointsOf, Together
<1>2. ASSUME NEW r \in Requests, Begin(r) PROVE ClosedInv'
  <2>1. PICK o \in {"enable", "disable"}, s \in Scopes : Begins(r, o, s)
    BY <1>2, BeginStep DEF PointsInv
  <2> USE DEF Begins
  <2>2. \A q \in Requests : Alone(q)' => Alone(q)
    BY <2>1 DEF Alone, Together
  <2>3. pc'[r] \notin {"commit", "done"}
    BY <2>1 DEF PointsInv, RowsInv
  <2>4. ASSUME NEW q \in Requests, q # r
        PROVE  /\ pc'[q] = pc[q] /\ (DisablesItem(q)' <=> DisablesItem(q))
               /\ ActiveOf(scope[q])' = ActiveOf(scope[q]) /\ target'[q] = target[q]
               /\ newest'[scope[q]] = q => newest[scope[q]] = q
               /\ scope'[q] = scope[q]
    BY <2>1, <2>4 DEF DisablesItem, ActiveOf, PointsOf, PointsInv, RowsInv
  <2>5. ASSUME NEW q \in Requests, Alone(q)', DisablesItem(q)', pc'[q] = "commit"
        PROVE  ActiveOf(scope[q])' \subseteq target'[q]
    BY <2>2, <2>3, <2>4, <2>5 DEF ClosedInv
  <2>6. ASSUME NEW q \in Requests, LastAlone(q)', DisablesItem(q)'
        PROVE  ActiveOf(scope[q])' = {}
    <3>1. q # r /\ pc'[q] = "done" /\ newest'[scope'[q]] = q /\ Alone(q)'
      BY <2>3, <2>6 DEF LastAlone, Alone
    <3>2. LastAlone(q) /\ DisablesItem(q)
      BY <2>2, <2>4, <2>6, <3>1 DEF LastAlone, Alone
    <3> QED BY <2>4, <3>1, <3>2 DEF ClosedInv
  <2> QED BY <2>5, <2>6 DEF ClosedInv
<1>3. ASSUME NEW r \in Requests, Works(r) PROVE ClosedInv'
  <2>1. /\ r \in InFlight /\ UNCHANGED <<op, scope, newest, overlaps>>
        /\ \A q \in Requests \ {r} : target'[q] = target[q] /\ pc'[q] = pc[q]
        /\ \A p \in Requests : scope[p] # scope[r] => (p \in active' <=> p \in active)
    BY <1>3, WorksStep DEF PointsInv, RowsInv
  <2>2. /\ \A q \in Requests : (Alone(q)' <=> Alone(q)) /\ (DisablesItem(q)' <=> DisablesItem(q))
        /\ \A q \in Requests : scope[q] # scope[r] => ActiveOf(scope[q])' = ActiveOf(scope[q])
    <3>1. \A q \in Requests : (Alone(q)' <=> Alone(q)) /\ (DisablesItem(q)' <=> DisablesItem(q))
      BY <2>1 DEF Alone, DisablesItem, Together
    <3>2. active \subseteq Requests /\ active' \subseteq Requests
      BY <1>3, WorksKeepRows DEF PointsInv, RowsInv
    <3>3. ASSUME NEW q \in Requests, scope[q] # scope[r]
          PROVE ActiveOf(scope[q])' = ActiveOf(scope[q])
      <4>1. ActiveOf(scope[q]) = {p \in active : scope[p] = scope[q]}
        BY DEF ActiveOf, PointsOf, PointsInv, RowsInv
      <4>2. ActiveOf(scope[q])' = {p \in active' : scope[p] = scope[q]}
        BY <1>3, <2>1, WorksKeepRows DEF ActiveOf, PointsOf, RowsInv
      <4> QED BY <2>1, <3>2, <3>3, <4>1, <4>2
    <3> QED BY <3>1, <3>3
  <2>3. ASSUME NEW q \in Requests, q # r, Alone(q),
    pc[q] = "commit" \/ newest[scope[q]] = q
        PROVE  scope[q] # scope[r]
    BY <2>1, <2>3 DEF PointsInv, MetInv, InFlight, Ends, Alone, Together
  <2>4. ASSUME Alone(r), DisablesItem(r), pc'[r] = "commit"
        PROVE ActiveOf(scope[r])' \subseteq target'[r]
    <3>1. StartWrite(r)
      BY <1>3, <2>4 DEF Works, FindActive, FindAny, CommitEnable, CommitDisable,
        Fails, GoTo,
         PointsInv, RowsInv
    <3> QED BY <2>4, <3>1 DEF StartWrite, Rows, DisablesItem, ActiveOf, PointsOf,
      tableVars,
            PointsInv, RowsInv
  <2>5. ASSUME Alone(r), DisablesItem(r), pc'[r] = "done"
        PROVE ActiveOf(scope[r])' = {}
    <3> USE DEF PointsInv, RowsInv, GoTo, ActiveOf, PointsOf, tableVars
    <3>1. CASE FindActive(r)
      BY <2>5, <3>1 DEF FindActive, DisablesItem
    <3>2. CASE CommitDisable(r)
      <4>1. ActiveOf(scope[r]) \subseteq target[r] /\ op[r] = "disable" /\ scope[r] \in Items
        BY <2>5, <3>2 DEF CommitDisable, ClosedInv, DisablesItem
      <4> QED BY <4>1, <3>2 DEF CommitDisable, StillMatching
    <3>3. CASE FindAny(r) \/ StartWrite(r) \/ CommitEnable(r) \/ Fails(r)
      BY <2>5, <3>3 DEF FindAny, StartWrite, CommitEnable, Fails, DisablesItem
    <3> QED BY <1>3, <3>1, <3>2, <3>3 DEF Works
  <2>6. ASSUME NEW q \in Requests, Alone(q)', DisablesItem(q)', pc'[q] = "commit"
        PROVE  ActiveOf(scope[q])' \subseteq target'[q]
    BY <2>1, <2>2, <2>3, <2>4, <2>6 DEF ClosedInv
  <2>7. ASSUME NEW q \in Requests, LastAlone(q)', DisablesItem(q)'
        PROVE  ActiveOf(scope[q])' = {}
    <3>1. Alone(q) /\ DisablesItem(q) /\ pc'[q] = "done" /\ newest[scope[q]] = q
      BY <2>1, <2>2, <2>7 DEF LastAlone, Alone
    <3>2. CASE q = r
      BY <2>5, <3>1, <3>2
    <3>3. CASE q # r
      <4>1. scope[q] # scope[r]
        BY <2>3, <3>1, <3>3
      <4>2. LastAlone(q)
        BY <2>1, <3>1, <3>3 DEF LastAlone, Alone
      <4> QED BY <2>2, <3>1, <4>1, <4>2 DEF ClosedInv
    <3> QED BY <3>2, <3>3
  <2> QED BY <2>1, <2>6, <2>7 DEF ClosedInv
<1> QED BY <1>1, <1>2, <1>3 DEF Next, Works

-----------------------------------------------------------------------------
\* What the list of the catalog shows: the row that was touched last.

LEMMA LeastNumber ==
  ASSUME NEW S \in SUBSET Nat, S # {} PROVE \E m \in S : \A k \in S : m <= k
<1>1. PICK m \in S : \A k \in S : <<k, m>> \notin OpToRel(<, Nat)
  BY WFMin, NatLessThanWellFounded, Zenon
<1>2. \A k \in S : ~(k < m)
  BY <1>1, Zenon DEF OpToRel
<1> QED BY <1>2

\* A scope that has points has a latest one.
LEMMA SomeLatest == ASSUME RowsInv, NEW s, PointsOf(s) # {} PROVE LatestOf(s) # {}
<1>1. PointsOf(s) \subseteq Requests
  BY DEF RowsInv, PointsOf
<1>2. /\ now \in Nat
      /\ \A p \in PointsOf(s) : updated[p] \in 0 .. now /\ created[p] \in 0 .. now
  BY <1>1 DEF RowsInv
<1> DEFINE Ages == {now - updated[p] : p \in PointsOf(s)}
<1>3. Ages \in SUBSET Nat /\ Ages # {}
  BY <1>2
<1>4. PICK least \in Ages : \A k \in Ages : least <= k
  BY <1>3, LeastNumber
<1>5. PICK u \in PointsOf(s) : least = now - updated[u]
  BY <1>4
<1>6. \A p \in PointsOf(s) : updated[p] <= updated[u]
  <2> SUFFICES ASSUME NEW p \in PointsOf(s) PROVE updated[p] <= updated[u]
    OBVIOUS
  <2>1. now - updated[p] \in Ages
    OBVIOUS
  <2>2. now - updated[u] <= now - updated[p]
    BY <1>4, <1>5, <2>1
  <2> QED BY <1>2, <2>2
<1> DEFINE Last == {p \in PointsOf(s) : updated[p] = updated[u]}
           Births == {now - created[p] : p \in Last}
<1>7. Births \in SUBSET Nat /\ Births # {}
  BY <1>2
<1>8. PICK young \in Births : \A k \in Births : young <= k
  BY <1>7, LeastNumber
<1>9. PICK p \in Last : young = now - created[p]
  BY <1>8
<1>10. \A q \in Last : created[q] <= created[p]
  <2> SUFFICES ASSUME NEW q \in Last PROVE created[q] <= created[p]
    OBVIOUS
  <2>1. now - created[q] \in Births
    OBVIOUS
  <2>2. now - created[p] <= now - created[q]
    BY <1>8, <1>9, <2>1
  <2> QED BY <1>2, <1>9, <2>2
<1>11. \A q \in PointsOf(s) : ~Before(p, q)
  BY <1>2, <1>6, <1>9, <1>10 DEF Before
<1> QED BY <1>9, <1>11 DEF LatestOf

\* A point that is open was touched after all those that are closed.
LEMMA OrderlyIsShown ==
  ASSUME RowsInv, ShownInv, NEW s \in Items, Orderly(s) PROVE Shown(s) <=> Open(s)
<1>1. Shown(s) => Open(s)
  BY DEF Shown, Open, LatestOf, PointsOf
<1>2. ASSUME Open(s) PROVE Shown(s)
  <2>1. PICK p \in ActiveOf(s) : p \in PointsOf(s)
    BY <1>2 DEF Open, ActiveOf, PointsOf, RowsInv
  <2>2. PICK q \in LatestOf(s) : q \in PointsOf(s) /\ ~Before(q, p)
    BY <2>1, SomeLatest DEF LatestOf
  <2>3. q \notin active => Before(q, p)
    BY <2>1, <2>2 DEF ShownInv, Before
  <2> QED BY <2>2, <2>3 DEF Shown
<1> QED BY <1>1, <1>2

LEMMA ShownKept == ASSUME PointsInv, PointsInv', ShownInv, [Next]_vars PROVE ShownInv'
<1>1. CASE UNCHANGED vars
  <2>1. \A s \in Items : Orderly(s)' <=> Orderly(s)
    BY <1>1 DEF vars, Orderly, Together
  <2> QED BY <1>1, <2>1 DEF vars, tableVars, ShownInv, ActiveOf, PointsOf
<1>2. ASSUME NEW r \in Requests, Begin(r) PROVE ShownInv'
  <2>1. PICK o \in {"enable", "disable"}, x \in Scopes : Begins(r, o, x)
    BY <1>2, BeginStep DEF PointsInv
  <2> USE DEF Begins
  <2>2. \A q, p \in Requests : Together(q, p) => q # r /\ p # r /\ Together(q, p)'
    BY <2>1 DEF PointsInv, RowsInv, Together
  <2>3. \A q \in Requests \ {r} : op'[q] = op[q] /\ scope'[q] = scope[q] /\ pc'[q] = pc[q]
    BY <2>1 DEF PointsInv, RowsInv
  <2>4. \A s \in Items : Orderly(s)' => Orderly(s)
    BY <2>2, <2>3 DEF Orderly
  <2>5. \A s : PointsOf(s)' = PointsOf(s) /\ ActiveOf(s)' = ActiveOf(s)
    BY <2>1, <2>3 DEF PointsOf, ActiveOf, PointsInv, RowsInv
  <2>6. pc'[r] # "commit"
    BY <2>1 DEF PointsInv, RowsInv
  <2> QED BY <2>1, <2>3, <2>4, <2>5, <2>6 DEF ShownInv
<1>3. ASSUME NEW r \in Requests, Works(r) PROVE ShownInv'
  <2>1. /\ r \in InFlight /\ UNCHANGED <<op, scope, newest, overlaps>>
        /\ \A q \in Requests \ {r} : target'[q] = target[q] /\ start'[q] = start[q] /\ pc'[q] = pc[q]
        /\ points \subseteq points' /\ points' \subseteq points \cup {r}
        /\ \A p \in Requests : scope[p] # scope[r] => (p \in active' <=> p \in active) /\ updated'[p] = updated[p]
    BY <1>3, WorksStep DEF PointsInv, RowsInv
  <2>2. \A s \in Items : Orderly(s)' <=> Orderly(s)
    BY <2>1 DEF Orderly, Together
  <2>3. /\ points \subseteq Requests /\ active \subseteq points
        /\ points' \subseteq Requests /\ active' \subseteq points'
    BY DEF PointsInv, RowsInv
  <2>4. ASSUME NEW s \in Items, Orderly(s), s # scope[r]
        PROVE  /\ \A p \in ActiveOf(s)', q \in PointsOf(s)' \ active' : updated'[q] < updated'[p]
               /\ \A q \in Requests : pc'[q] = "commit" /\ scope'[q] = s =>
                    /\ op'[q] = "enable" => \A p \in PointsOf(s)' \ active' : updated'[p] < start'[q]
                    /\ op'[q] = "disable" => ActiveOf(s)' \subseteq target'[q]
    <3>1. /\ \A p : p \in ActiveOf(s)' <=> p \in ActiveOf(s)
          /\ \A p : p \in PointsOf(s)' \ active' <=> p \in PointsOf(s) \ active
      BY <2>1, <2>3, <2>4 DEF ActiveOf, PointsOf
    <3>2. \A p \in PointsOf(s) : updated'[p] = updated[p]
      BY <2>1, <2>3, <2>4 DEF PointsOf
    <3>3. \A q \in Requests : scope'[q] = s => q # r
      BY <2>1, <2>4
    <3>4. ActiveOf(s) \subseteq PointsOf(s)
      BY DEF ActiveOf
    <3>5. \A p \in ActiveOf(s)', q \in PointsOf(s)' \ active' : updated'[q] < updated'[p]
      BY <2>4, <3>1, <3>2, <3>4 DEF ShownInv
    <3>6. ASSUME NEW q \in Requests, pc'[q] = "commit", scope'[q] = s
          PROVE  /\ op'[q] = "enable" => \A p \in PointsOf(s)' \ active' : updated'[p] < start'[q]
                 /\ op'[q] = "disable" => ActiveOf(s)' \subseteq target'[q]
      <4>1. /\ pc[q] = "commit" /\ scope[q] = s /\ op'[q] = op[q] /\ start'[q] = start[q]
            /\ target'[q] = target[q]
        BY <2>1, <3>3, <3>6
      <4> QED BY <2>4, <3>1, <3>2, <4>1 DEF ShownInv
    <3> QED BY <3>5, <3>6
  <2>5. ASSUME NEW s \in Items, Orderly(s), s = scope[r]
        PROVE  /\ \A p \in ActiveOf(s)', q \in PointsOf(s)' \ active' : updated'[q] < updated'[p]
               /\ \A q \in Requests : pc'[q] = "commit" /\ scope'[q] = s =>
                    /\ op'[q] = "enable" => \A p \in PointsOf(s)' \ active' : updated'[p] < start'[q]
                    /\ op'[q] = "disable" => ActiveOf(s)' \subseteq target'[q]
    <3>1. /\ \A p \in ActiveOf(s), q \in PointsOf(s) \ active : updated[q] < updated[p]
          /\ \A q \in Requests : pc[q] = "commit" /\ scope[q] = s =>
               /\ op[q] = "enable" => \A p \in PointsOf(s) \ active : updated[p] < start[q]
               /\ op[q] = "disable" => ActiveOf(s) \subseteq target[q]
      BY <2>5 DEF ShownInv
    <3>2. ASSUME NEW q \in Requests, q # r, pc[q] = "commit", scope[q] = s
          PROVE op[q] = op[r]
      <4>1. Together(q, r) /\ Together(r, q)
        BY <2>1, <2>5, <3>2 DEF PointsInv, MetInv, InFlight, Ends, Together
      <4> QED BY <2>1, <2>5, <3>2, <4>1 DEF Orderly, PointsInv, RowsInv, InFlight
    <3>3. s \in Scopes /\ s # Company /\ r \in Requests /\ scope'[r] = s
      BY <2>1, <2>5, ScopesAssumption DEF Scopes
    <3>4. CASE FindActive(r) \/ FindAny(r) \/ Fails(r)
      <4>1. UNCHANGED <<points, active, updated>> /\ pc'[r] # "commit"
        BY <3>4 DEF FindActive, FindAny, Fails, GoTo, tableVars, PointsInv, RowsInv
      <4>2. PointsOf(s)' = PointsOf(s) /\ ActiveOf(s)' = ActiveOf(s)
        BY <2>1, <4>1 DEF PointsOf, ActiveOf
      <4> QED BY <2>1, <3>1, <4>1, <4>2
    <3>5. CASE StartWrite(r)
      <4>1. UNCHANGED <<points, active, updated>> /\ start'[r] = now + 1 /\ target'[r] = Rows(r)
        BY <3>5 DEF StartWrite, tableVars, PointsInv, RowsInv
      <4>2. PointsOf(s)' = PointsOf(s) /\ ActiveOf(s)' = ActiveOf(s)
        BY <2>1, <4>1 DEF PointsOf, ActiveOf
      <4>3. \A p \in PointsOf(s) : updated[p] < now + 1
        BY <2>3 DEF PointsOf, PointsInv, RowsInv
      <4>4. op[r] = "disable" => Rows(r) = ActiveOf(s)
        BY <2>5 DEF Rows
      <4> QED BY <2>1, <3>1, <4>1, <4>2, <4>3, <4>4
    <3>6. CASE CommitEnable(r)
      <4> DEFINE rows == IF target[r] = {} THEN {r} ELSE target[r]
      <4>1. /\ pc[r] = "commit" /\ op[r] = "enable" /\ pc'[r] = "done"
            /\ points' = points \cup rows /\ active' = active \cup rows
            /\ \A p \in Requests : updated'[p] = IF p \in rows THEN start[r] ELSE updated[p]
        BY <3>6 DEF CommitEnable, GoTo, Touch, PointsInv, RowsInv
      <4>2. rows \subseteq Requests
        BY DEF PointsInv, RowsInv, PointsOf
      <4> HIDE DEF rows
      <4>3. \A q \in PointsOf(s)' \ active' :
              q \in PointsOf(s) \ active /\ q \in Requests /\ updated'[q] = updated[q]
        BY <2>1, <2>3, <2>5, <4>1 DEF PointsOf
      <4>4. \A p \in ActiveOf(s)' :
              \/ p \in ActiveOf(s) /\ updated'[p] = updated[p]
              \/ updated'[p] = start[r]
        BY <2>1, <2>3, <2>5, <4>1 DEF ActiveOf, PointsOf
      <4>5. \A q \in PointsOf(s) \ active : updated[q] < start[r]
        BY <2>5, <3>1, <4>1
      <4>6. \A p \in ActiveOf(s)', q \in PointsOf(s)' \ active' : updated'[q] < updated'[p]
        BY <3>1, <4>3, <4>4, <4>5
      <4>7. \A q \in Requests : pc'[q] = "commit" /\ scope'[q] = s =>
              /\ q # r /\ pc[q] = "commit" /\ op'[q] = "enable" /\ scope[q] = s /\ op[q] = "enable"
              /\ start'[q] = start[q]
        BY <2>1, <3>2, <4>1
      <4> QED BY <3>1, <4>3, <4>6, <4>7
    <3>7. CASE CommitDisable(r)
      <4>1. /\ pc[r] = "commit" /\ op[r] = "disable" /\ pc'[r] = "done"
            /\ active' = active \ StillMatching(r)
        BY <3>7 DEF CommitDisable, GoTo, PointsInv, RowsInv
      <4>2. ActiveOf(s) \subseteq StillMatching(r)
        BY <2>5, <3>1, <4>1 DEF StillMatching, ActiveOf
      <4>3. ActiveOf(s)' = {}
        BY <2>1, <2>3, <2>5, <3>7, <4>1, <4>2 DEF ActiveOf, PointsOf, CommitDisable
      <4>4. \A q \in Requests : pc'[q] = "commit" /\ scope'[q] = s => op'[q] # "enable"
        BY <2>1, <3>2, <4>1
      <4> QED BY <4>3, <4>4
    <3> QED BY <1>3, <3>4, <3>5, <3>6, <3>7 DEF Works
  <2> QED BY <2>1, <2>2, <2>4, <2>5 DEF ShownInv
<1> QED BY <1>1, <1>2, <1>3 DEF Next, Works

(* A scope gets a second point only by requests in progress together, with   *)
(* any number of requests, items and failures (activateOrCreateCatalogQr,    *)
(* activateOrCreateCompanyQr).                                               *)
THEOREM TwinPoints == Spec => []TwinPointsMeanOverlap
<1>1. Init => PointsInv /\ TwinInv
  BY PointsInit DEF Init, TwinInv, TwinPointsMeanOverlap, InFlight
<1>2. PointsInv /\ TwinInv /\ [Next]_vars => PointsInv' /\ TwinInv'
  BY PointsKept, TwinsKept
<1>3. TwinInv => TwinPointsMeanOverlap
  BY DEF TwinInv
<1> QED BY <1>1, <1>2, <1>3, PTL DEF Spec

(* Who disables an item, alone, has closed its form, and the list and the    *)
(* form disagree on an item only after a disabling met an enabling           *)
(* (deactivateCatalogQr, getQrCatalogController, resolveQrCollectionPoint).  *)
THEOREM ClosedItems == Spec => []DisabledItemIsClosed
<1>1. Init => PointsInv /\ ClosedInv /\ ShownInv
  BY PointsInit DEF Init, ClosedInv, ShownInv, DisablesItem, LastAlone, ActiveOf,
    PointsOf
<1>2. PointsInv /\ ClosedInv /\ ShownInv /\ [Next]_vars => PointsInv' /\ ClosedInv' /\ ShownInv'
  BY PointsKept, ClosedKept, ShownKept
<1>3. PointsInv /\ ClosedInv /\ ShownInv => DisabledItemIsClosed
  <2> SUFFICES ASSUME PointsInv, ClosedInv, ShownInv PROVE DisabledItemIsClosed
    OBVIOUS
  <2>1. ASSUME NEW r \in Requests, LastAlone(r), op[r] = "disable", scope[r] \in Items
        PROVE  ~Open(scope[r])
    BY <2>1 DEF ClosedInv, DisablesItem, Open, ActiveOf, PointsOf, PointsInv, RowsInv
  <2>2. ASSUME NEW s \in Items, Shown(s) # Open(s) PROVE ~Orderly(s)
    <3>1. Shown(s) \in BOOLEAN /\ Open(s) \in BOOLEAN
      BY Zenon DEF Shown, Open
    <3> QED BY <2>2, <3>1, OrderlyIsShown DEF PointsInv
  <2> QED BY <2>1, <2>2 DEF DisabledItemIsClosed, Orderly
<1> QED BY <1>1, <1>2, <1>3, PTL DEF Spec

-----------------------------------------------------------------------------
(* CatalogQuestions.                                                         *)

\* The rows of a slot in the order in which a save locks them, and how far it is.
Rank(s, x) == IF (x[1] = "question") = (payload[s][x[2]] # "empty") THEN 2 * x[2] ELSE 2 * x[2] + 1
Reached(s) == IF step[s] \in {"slot", "insert", "off"} THEN 2 * turn[s]
         ELSE IF step[s] \in {"sub", "insertSub", "offQuestion"} THEN 2 * turn[s] + 1
         ELSE 2 * turn[s] + 2

SlotShape ==
  /\ lock = [x \in SlotRows |-> lock[x]] /\ pending = [x \in SlotRows |-> pending[x]]
  /\ step \in [Saves -> {"new"} \cup Steps \cup SaveEnds] /\ turn \in [Saves -> Nat]
  /\ payload \in [Saves -> [Slots -> {"empty", "text", "both"}]]
  /\ missed = [s \in Saves |-> missed[s]]
  /\ \A x \in SlotRows : lock[x] \in Saves \cup {Nobody}

SlotInv(s) ==
  /\ InTransaction(s) => turn[s] \in Slots
  /\ step[s] = "commit" => turn[s] = LastSlot
  /\ step[s] \in {"insert", "sub", "insertSub"} => payload[s][turn[s]] # "empty"
  /\ step[s] = "insertSub" => payload[s][turn[s]] = "both"
  /\ step[s] \in {"off", "offQuestion"} => payload[s][turn[s]] = "empty"
  /\ step[s] \in {"sub", "insertSub"} =>
       lock[<<"question", turn[s]>>] = s /\ pending[<<"question", turn[s]>>] = NewText(s)
  /\ \A x \in SlotRows : lock[x] = s => InTransaction(s) /\ Rank(s, x) < Reached(s)

\* The question of the first slot is behind it.
Past(s) == InTransaction(s) /\ (turn[s] > 1 \/ step[s] \in {"sub", "insertSub", "commit"})
FirstSeen == \A s \in Saves : 1 \notin missed[s]

\* What the form would show if this save committed now.
Form(question, sub) ==
  IF question = NoRow THEN {}
  ELSE IF ~question.live THEN {}
  ELSE {<<"question", question.by>>}
         \cup (IF sub = NoRow THEN {} ELSE IF sub.live THEN {<<"sub", sub.by>>} ELSE {})
Would(s, q) == Form(SeenBy(s, <<"question", q>>), SeenBy(s, <<"sub", q>>))
Through(s, q) == step[s] = "commit" \/ (InTransaction(s) /\ q < turn[s])

SerialInv(s) ==
  /\ Past(s) => lock[<<"question", 1>>] = s
  /\ \A q \in Slots : Through(s, q) => Would(s, q) = Asked(s, q)

LastInv ==
  last # Nobody =>
    /\ last \in Saves /\ step[last] \in {"read"} \cup SaveEnds
    /\ FirstSeen => \A q \in Slots : FormShows(q) = Asked(last, q)

SaveInv ==
  /\ SlotShape /\ \A s \in Saves : SlotInv(s)
  /\ FirstSeen => \A s \in Saves : SerialInv(s)
  /\ LastInv

SaveStep(s) ==
  \/ BeginSave(s) \/ UpdateQuestion(s) \/ InsertQuestion(s) \/ UpdateSub(s) \/ InsertSub(s)
  \/ FindSlot(s) \/ DeactivateSub(s) \/ DeactivateQuestion(s)
  \/ CommitSave(s) \/ AbortSave(s) \/ ReadSnapshot(s)

-----------------------------------------------------------------------------
LEMMA SlotNumbers == LastSlot \in Nat /\ 1 \in Slots /\ \A q \in Slots : q \in Nat /\ q >= 1
BY SavesAssumption DEF Slots

LEMMA RowOf == \A q \in Slots : <<"question", q>> \in SlotRows /\ <<"sub", q>> \in SlotRows
BY DEF SlotRows, Tables

LEMMA TextIsARow == \A s \in Saves : NewText(s) # NoRow /\ NewText(s).live /\ NewText(s).by = s
<1> TAKE s \in Saves
<1>1. [by |-> s, live |-> TRUE] \in [by : Saves \cup {Nobody}, live : BOOLEAN]
  OBVIOUS
<1> QED BY <1>1, SavesAssumption DEF NewText

LEMMA Written ==
  ASSUME SlotShape, NEW s \in Saves, NEW x \in SlotRows, NEW c, Write(s, x, c)
  PROVE  /\ lock[x] \in {Nobody, s} /\ lock'[x] = s /\ pending'[x] = c /\ stored' = stored
         /\ \A y \in SlotRows : y # x => lock'[y] = lock[y] /\ pending'[y] = pending[y]
         /\ lock' = [y \in SlotRows |-> lock'[y]] /\ pending' = [y \in SlotRows |-> pending'[y]]
BY DEF SlotShape, Write

LEMMA Released ==
  ASSUME SlotShape, NEW s \in Saves, Release(s)
  PROVE  /\ \A x \in SlotRows : lock[x] = s => lock'[x] = Nobody
         /\ \A x \in SlotRows : lock[x] # s => lock'[x] = lock[x] /\ pending'[x] = pending[x]
         /\ lock' = [y \in SlotRows |-> lock'[y]] /\ pending' = [y \in SlotRows |-> pending'[y]]
BY DEF SlotShape, Release

LEMMA Advanced ==
  ASSUME SlotShape, NEW s \in Saves, turn[s] \in Slots, NextSlot(s)
  PROVE  /\ \/ turn[s] < LastSlot /\ step'[s] = "slot" /\ turn'[s] = turn[s] + 1
            \/ turn[s] = LastSlot /\ step'[s] = "commit" /\ turn'[s] = turn[s]
         /\ turn'[s] \in Slots /\ Reached(s)' = 2 * turn[s] + 2
         /\ step' \in [Saves -> {"new"} \cup Steps \cup SaveEnds] /\ turn' \in [Saves -> Nat]
         /\ \A t \in Saves \ {s} : step'[t] = step[t] /\ turn'[t] = turn[t]
<1>1. CASE turn[s] < LastSlot
  <2>1. step' = [step EXCEPT ![s] = "slot"] /\ turn' = [turn EXCEPT ![s] = turn[s] + 1]
    BY <1>1 DEF NextSlot, SaveGoes
  <2>2. turn[s] + 1 \in Slots /\ turn[s] \in Nat
    BY <1>1, SlotNumbers DEF Slots
  <2>3. step'[s] = "slot" /\ turn'[s] = turn[s] + 1
    BY <2>1 DEF SlotShape
  <2>4. Reached(s)' = 2 * turn[s] + 2
    BY <2>2, <2>3 DEF Reached
  <2> QED BY <1>1, <2>1, <2>2, <2>3, <2>4 DEF SlotShape, Steps
<1>2. CASE ~(turn[s] < LastSlot)
  <2>1. step' = [step EXCEPT ![s] = "commit"] /\ turn' = turn /\ turn[s] = LastSlot
    BY <1>2, SlotNumbers DEF NextSlot, SaveGoes, Slots
  <2> QED BY <2>1 DEF SlotShape, Reached, Steps
<1> QED BY <1>1, <1>2

LEMMA SaveMoves ==
  ASSUME SlotShape, NEW s \in Saves, NEW label \in {"new"} \cup Steps \cup SaveEnds,
         SaveGoes(s, label)
  PROVE  /\ step'[s] = label /\ \A t \in Saves \ {s} : step'[t] = step[t]
         /\ step' \in [Saves -> {"new"} \cup Steps \cup SaveEnds]
BY DEF SlotShape, SaveGoes

LEMMA SaveShapeKept ==
  ASSUME SlotShape, \A s \in Saves : SlotInv(s), NEW s \in Saves, SaveStep(s) PROVE SlotShape'
<1>1. InTransaction(s) => turn[s] \in Slots
  BY DEF SlotInv
<1>2. CASE BeginSave(s)
  <2>1. payload' \in [Saves -> [Slots -> {"empty", "text", "both"}]] /\ turn' \in [Saves -> Nat]
    BY <1>2 DEF BeginSave, SlotShape
  <2> QED BY <1>2, <2>1, SaveMoves DEF BeginSave, SlotShape, rowVars, historyVars, Steps
<1>3. CASE UpdateQuestion(s)
  <2>1. <<"question", Slot(s)>> \in SlotRows
    BY <1>1, <1>3, RowOf DEF UpdateQuestion, InTransaction, Steps, Slot, SlotAt
  <2> QED BY <1>3, <2>1, SaveMoves, Written
          DEF UpdateQuestion, SlotShape, rowVars, payloadVars, historyVars, Steps
<1>4. CASE InsertQuestion(s)
  <2>1. <<"question", Slot(s)>> \in SlotRows
    BY <1>1, <1>4, RowOf DEF InsertQuestion, InTransaction, Steps, Slot, SlotAt
  <2> QED BY <1>4, <2>1, SaveMoves, Written
          DEF InsertQuestion, SlotShape, rowVars, payloadVars, historyVars, Steps
<1>5. CASE UpdateSub(s)
  <2>1. turn[s] \in Slots /\ <<"sub", Slot(s)>> \in SlotRows
    BY <1>1, <1>5, RowOf DEF UpdateSub, InTransaction, Steps, Slot, SlotAt
  <2> QED BY <1>5, <2>1, SaveMoves, Advanced, Written
          DEF UpdateSub, SlotShape, rowVars, payloadVars, historyVars, Steps
<1>6. CASE InsertSub(s)
  <2>1. turn[s] \in Slots /\ <<"sub", Slot(s)>> \in SlotRows
    BY <1>1, <1>6, RowOf DEF InsertSub, InTransaction, Steps, Slot, SlotAt
  <2> QED BY <1>6, <2>1, Advanced, Written
          DEF InsertSub, SlotShape, payloadVars, historyVars
<1>7. CASE FindSlot(s)
  <2>1. turn[s] \in Slots
    BY <1>1, <1>7 DEF FindSlot, InTransaction, Steps
  <2>2. missed' = [t \in Saves |-> missed'[t]]
    BY <1>7 DEF FindSlot, SlotShape
  <2> QED BY <1>7, <2>1, <2>2, SaveMoves, Advanced DEF FindSlot, SlotShape, rowVars, payloadVars,
    Steps
<1>8. CASE DeactivateSub(s)
  <2>1. <<"sub", Slot(s)>> \in SlotRows
    BY <1>1, <1>8, RowOf DEF DeactivateSub, InTransaction, Steps, Slot, SlotAt
  <2> QED BY <1>8, <2>1, SaveMoves, Written
          DEF DeactivateSub, SlotShape, rowVars, payloadVars, historyVars, Steps
<1>9. CASE DeactivateQuestion(s)
  <2>1. turn[s] \in Slots /\ <<"question", Slot(s)>> \in SlotRows
    BY <1>1, <1>9, RowOf DEF DeactivateQuestion, InTransaction, Steps, Slot, SlotAt
  <2>2. /\ Write(s, <<"question", Slot(s)>>, Deactivated(s, <<"question", Slot(s)>>))
        /\ NextSlot(s) /\ UNCHANGED <<payload, missed>>
    BY <1>9 DEF DeactivateQuestion, payloadVars, historyVars
  <2> QED BY <2>1, <2>2, Advanced, Written DEF SlotShape
<1>10. CASE CommitSave(s)
  BY <1>10, SaveMoves, Released DEF CommitSave, SlotShape, payloadVars, Steps
<1>11. CASE AbortSave(s)
  BY <1>11, SaveMoves, Released DEF AbortSave, SlotShape, payloadVars, historyVars, SaveEnds
<1>12. CASE ReadSnapshot(s)
  BY <1>12, SaveMoves DEF ReadSnapshot, SlotShape, rowVars, payloadVars, historyVars, SaveEnds
<1> QED BY <1>2, <1>3, <1>4, <1>5, <1>6, <1>7, <1>8, <1>9, <1>10, <1>11, <1>12 DEF SaveStep

\* What a step leaves to the other saves.
LEMMA OthersOfSave ==
  ASSUME SlotShape, \A s \in Saves : SlotInv(s), NEW t \in Saves, SaveStep(t),
         NEW s \in Saves, s # t
  PROVE  /\ step'[s] = step[s] /\ turn'[s] = turn[s] /\ payload'[s] = payload[s]
         /\ missed'[s] = missed[s]
         /\ \A x \in SlotRows : lock'[x] = s <=> lock[x] = s
         /\ \A x \in SlotRows : lock[x] = s => pending'[x] = pending[x]
<1>1. InTransaction(t) => turn[t] \in Slots
  BY DEF SlotInv
<1>2. s # Nobody
  BY SavesAssumption
<1>3. /\ step'[s] = step[s] /\ turn'[s] = turn[s] /\ payload'[s] = payload[s]
      /\ missed'[s] = missed[s]
  <2> USE DEF SlotShape, SaveGoes, NextSlot, payloadVars, historyVars
  <2>1. CASE BeginSave(t)
    BY <2>1 DEF BeginSave
  <2>2. CASE UpdateQuestion(t) \/ InsertQuestion(t)
    BY <2>2 DEF UpdateQuestion, InsertQuestion
  <2>3. CASE UpdateSub(t) \/ InsertSub(t)
    BY <2>3 DEF UpdateSub, InsertSub
  <2>4. CASE FindSlot(t)
    BY <2>4 DEF FindSlot
  <2>5. CASE DeactivateSub(t) \/ DeactivateQuestion(t)
    BY <2>5 DEF DeactivateSub, DeactivateQuestion
  <2>6. CASE CommitSave(t) \/ AbortSave(t) \/ ReadSnapshot(t)
    BY <2>6 DEF CommitSave, AbortSave, ReadSnapshot
  <2> QED BY <2>1, <2>2, <2>3, <2>4, <2>5, <2>6 DEF SaveStep
<1>4. ASSUME NEW x \in SlotRows, NEW c, Write(t, x, c)
      PROVE  \A y \in SlotRows : /\ lock'[y] = s <=> lock[y] = s
                                 /\ lock[y] = s => pending'[y] = pending[y]
  BY <1>2, <1>4, Written
<1>5. ASSUME Release(t)
      PROVE  \A y \in SlotRows : /\ lock'[y] = s <=> lock[y] = s
                                 /\ lock[y] = s => pending'[y] = pending[y]
  BY <1>2, <1>5, Released
<1>6. \A y \in SlotRows : /\ lock'[y] = s <=> lock[y] = s
                          /\ lock[y] = s => pending'[y] = pending[y]
  <2>1. CASE BeginSave(t) \/ FindSlot(t) \/ ReadSnapshot(t)
    BY <2>1 DEF BeginSave, FindSlot, ReadSnapshot, rowVars
  <2>2. CASE CommitSave(t) \/ AbortSave(t)
    BY <1>5, <2>2 DEF CommitSave, AbortSave
  <2>3. CASE UpdateQuestion(t) \/ InsertQuestion(t) \/ DeactivateQuestion(t)
    <3>1. <<"question", Slot(t)>> \in SlotRows
      BY <1>1, <2>3, RowOf
         DEF UpdateQuestion, InsertQuestion, DeactivateQuestion, InTransaction, Steps, Slot, SlotAt
    <3>2. UNCHANGED rowVars \/ \E c : Write(t, <<"question", Slot(t)>>, c)
      BY <2>3 DEF UpdateQuestion, InsertQuestion, DeactivateQuestion
    <3> QED BY <1>4, <3>1, <3>2 DEF rowVars
  <2>4. CASE UpdateSub(t) \/ InsertSub(t) \/ DeactivateSub(t)
    <3>1. <<"sub", Slot(t)>> \in SlotRows
      BY <1>1, <2>4, RowOf
         DEF UpdateSub, InsertSub, DeactivateSub, InTransaction, Steps, Slot, SlotAt
    <3>2. UNCHANGED rowVars \/ \E c : Write(t, <<"sub", Slot(t)>>, c)
      BY <2>4 DEF UpdateSub, InsertSub, DeactivateSub
    <3> QED BY <1>4, <3>1, <3>2 DEF rowVars
  <2> QED BY <2>1, <2>2, <2>3, <2>4 DEF SaveStep
<1> QED BY <1>3, <1>6

LEMMA OtherSlotInv ==
  ASSUME SlotShape, \A s \in Saves : SlotInv(s), NEW t \in Saves, SaveStep(t),
         NEW s \in Saves, s # t
  PROVE  SlotInv(s)'
<1>1. /\ step'[s] = step[s] /\ turn'[s] = turn[s] /\ payload'[s] = payload[s]
      /\ \A x \in SlotRows : lock'[x] = s <=> lock[x] = s
      /\ \A x \in SlotRows : lock[x] = s => pending'[x] = pending[x]
  BY OthersOfSave
<1>2. SlotInv(s)
  OBVIOUS
<1>3. step[s] \in {"sub", "insertSub"} => <<"question", turn[s]>> \in SlotRows
  BY <1>2, RowOf DEF SlotInv, InTransaction, Steps
<1>4. (InTransaction(s)' <=> InTransaction(s)) /\ Reached(s)' = Reached(s) /\ \A x : Rank(s, x)' = Rank(s, x)
  BY <1>1 DEF InTransaction, Reached, Rank
<1> HIDE DEF InTransaction, Reached, Rank
<1> QED BY <1>1, <1>2, <1>3, <1>4 DEF SlotInv, NewText

\* A save that writes the row of its position goes to a later one.
LEMMA RanksGrow ==
  ASSUME NEW s \in Saves, SlotShape, SlotInv(s), NEW x \in SlotRows, Rank(s, x) = Reached(s),
         Reached(s) < Reached(s)', InTransaction(s)', payload'[s] = payload[s], turn[s] \in Slots, turn'[s] \in Slots,
         \A y \in SlotRows : y # x => lock'[y] = lock[y]
  PROVE  \A y \in SlotRows : lock'[y] = s => InTransaction(s)' /\ Rank(s, y)' < Reached(s)'
<1>1. \A y \in SlotRows : Rank(s, y)' = Rank(s, y) /\ Rank(s, y) \in Nat
  BY SlotNumbers DEF Rank, SlotRows
<1>2. Reached(s) \in Nat /\ Reached(s)' \in Nat
  BY SlotNumbers DEF Reached
<1> HIDE DEF Reached, Rank, InTransaction
<1> QED BY <1>1, <1>2 DEF SlotInv

LEMMA OwnSlotInv ==
  ASSUME SlotShape, NEW s \in Saves, SlotInv(s), SaveStep(s) PROVE SlotInv(s)'
<1> DEFINE q == turn[s]
<1>0. /\ s # Nobody /\ (InTransaction(s) => q \in Slots)
      /\ \A y \in SlotRows : lock[y] = s => InTransaction(s) /\ Rank(s, y) < Reached(s)
  BY SavesAssumption DEF SlotInv
<1>1. CASE BeginSave(s)
  <2>1. step[s] = "new" /\ step'[s] = "slot" /\ turn'[s] = 1 /\ UNCHANGED <<lock, pending>>
    BY <1>1 DEF BeginSave, SaveGoes, SlotShape, rowVars
  <2>2. \A y \in SlotRows : lock'[y] # s
    BY <1>0, <2>1 DEF InTransaction, Steps
  <2> QED BY <2>1, <2>2, SlotNumbers DEF SlotInv, InTransaction, Steps
<1>2. CASE CommitSave(s) \/ AbortSave(s)
  <2>1. step'[s] \in {"read", "failed"} /\ Release(s)
    BY <1>2 DEF CommitSave, AbortSave, SaveGoes, SlotShape
  <2>2. \A y \in SlotRows : lock'[y] # s
    BY <1>0, <2>1, Released
  <2> QED BY <2>1, <2>2 DEF SlotInv, InTransaction, Steps
<1>3. CASE ReadSnapshot(s)
  <2>1. step[s] = "read" /\ step'[s] \in {"saved", "failed"} /\ UNCHANGED lock
    BY <1>3 DEF ReadSnapshot, SaveGoes, SlotShape, rowVars
  <2>2. \A y \in SlotRows : lock'[y] # s
    BY <1>0, <2>1 DEF InTransaction, Steps
  <2> QED BY <2>1, <2>2 DEF SlotInv, InTransaction, Steps
<1>4. CASE UpdateQuestion(s) \/ InsertQuestion(s)
  <2> DEFINE x == <<"question", q>>
  <2>1. /\ step[s] \in {"slot", "insert"} /\ turn' = turn /\ payload' = payload
        /\ payload[s][q] # "empty" /\ q \in Slots /\ x \in SlotRows
    BY <1>0, <1>4, RowOf DEF UpdateQuestion, InsertQuestion, payloadVars, InTransaction, Steps, SlotInv,
                             Slot, SlotAt
  <2>2. \/ step[s] = "slot" /\ step'[s] = "insert" /\ UNCHANGED <<lock, pending>>
        \/ step'[s] = "sub" /\ Write(s, x, NewText(s))
    BY <1>4 DEF UpdateQuestion, InsertQuestion, SaveGoes, SlotShape, rowVars, Slot, SlotAt
  <2>3. CASE step[s] = "slot" /\ step'[s] = "insert" /\ UNCHANGED <<lock, pending>>
    <3>1. Reached(s)' = Reached(s) /\ (\A y \in SlotRows : Rank(s, y)' = Rank(s, y)) /\ InTransaction(s)'
      BY <2>1, <2>3 DEF Reached, Rank, InTransaction, Steps
    <3> HIDE DEF Reached, Rank, InTransaction
    <3> QED BY <1>0, <2>1, <2>3, <3>1 DEF SlotInv
  <2>4. CASE step'[s] = "sub" /\ Write(s, x, NewText(s))
    <3>1. /\ lock'[x] = s /\ pending'[x] = NewText(s)
          /\ \A y \in SlotRows : y # x => lock'[y] = lock[y]
      BY <2>1, <2>4, Written
    <3>2. Rank(s, x) = Reached(s) /\ Reached(s) < Reached(s)' /\ InTransaction(s)'
      BY <2>1, <2>4, SlotNumbers DEF Rank, Reached, InTransaction, Steps
    <3>3. \A y \in SlotRows : lock'[y] = s => InTransaction(s)' /\ Rank(s, y)' < Reached(s)'
      BY <2>1, <3>1, <3>2, RanksGrow
    <3> HIDE DEF Reached, Rank, InTransaction
    <3> QED BY <2>1, <2>4, <3>1, <3>2, <3>3 DEF SlotInv, NewText
  <2> QED BY <2>2, <2>3, <2>4
<1>5. ASSUME NEW x \in SlotRows, Rank(s, x) = Reached(s),
             Reached(s) = 2 * q + 1 \/ Reached(s) = 2 * q, q \in Slots,
             NextSlot(s), payload' = payload, \A y \in SlotRows : y # x => lock'[y] = lock[y]
      PROVE  SlotInv(s)'
  <2>1. /\ step'[s] \in {"slot", "commit"} /\ turn'[s] \in Slots /\ Reached(s)' = 2 * q + 2
        /\ step'[s] = "commit" => turn'[s] = LastSlot
    BY <1>5, Advanced
  <2>2. Reached(s) < Reached(s)' /\ InTransaction(s)'
    BY <1>5, <2>1, SlotNumbers DEF InTransaction, Steps
  <2>3. \A y \in SlotRows : lock'[y] = s => InTransaction(s)' /\ Rank(s, y)' < Reached(s)'
    BY <1>5, <2>1, <2>2, RanksGrow
  <2> HIDE DEF Reached, Rank, InTransaction
  <2> QED BY <2>1, <2>2, <2>3 DEF SlotInv
<1>6. CASE UpdateSub(s) \/ InsertSub(s)
  <2> DEFINE x == <<"sub", q>>
  <2>1. /\ step[s] \in {"sub", "insertSub"} /\ payload' = payload
        /\ payload[s][q] # "empty" /\ q \in Slots /\ x \in SlotRows
    BY <1>0, <1>6, RowOf DEF UpdateSub, InsertSub, payloadVars, InTransaction, Steps, SlotInv
  <2>2. Rank(s, x) = Reached(s) /\ Reached(s) = 2 * q + 1
    BY <2>1, SlotNumbers DEF Rank, Reached
  <2>3. \/ /\ step[s] = "sub" /\ step'[s] = "insertSub" /\ payload[s][q] = "both"
           /\ UNCHANGED <<lock, pending, turn>>
        \/ NextSlot(s) /\ (UNCHANGED <<lock, pending>> \/ \E c : Write(s, x, c))
    BY <1>6 DEF UpdateSub, InsertSub, SaveGoes, SlotShape, rowVars, Slot, SlotAt
  <2>4. CASE /\ step[s] = "sub" /\ step'[s] = "insertSub" /\ payload[s][q] = "both"
             /\ UNCHANGED <<lock, pending, turn>>
    <3>1. Reached(s)' = Reached(s) /\ (\A y \in SlotRows : Rank(s, y)' = Rank(s, y)) /\ InTransaction(s)'
      BY <2>1, <2>4 DEF Reached, Rank, InTransaction, Steps
    <3> HIDE DEF Reached, Rank, InTransaction
    <3> QED BY <1>0, <2>1, <2>4, <3>1 DEF SlotInv, NewText
  <2>5. CASE NextSlot(s) /\ (UNCHANGED <<lock, pending>> \/ \E c : Write(s, x, c))
    <3>1. \A y \in SlotRows : y # x => lock'[y] = lock[y]
      BY <2>1, <2>5, Written
    <3> HIDE DEF x, q
    <3> QED BY <1>5, <2>1, <2>2, <2>5, <3>1 DEF q
  <2> QED BY <2>3, <2>4, <2>5
<1>7. CASE FindSlot(s)
  <2> DEFINE x == <<"question", q>>
  <2>1. /\ step[s] = "slot" /\ payload' = payload /\ UNCHANGED <<lock, pending>>
        /\ payload[s][q] = "empty" /\ q \in Slots /\ <<"sub", q>> \in SlotRows
    BY <1>0, <1>7, RowOf DEF FindSlot, payloadVars, rowVars, InTransaction, Steps, Slot, SlotAt
  <2>2. NextSlot(s) \/ (step'[s] = "off" /\ turn' = turn)
    BY <1>7 DEF FindSlot, SaveGoes, SlotShape
  <2>3. CASE NextSlot(s)
    <3>1. Rank(s, <<"sub", q>>) = Reached(s) /\ Reached(s) = 2 * q
      BY <2>1, SlotNumbers DEF Rank, Reached
    <3> QED BY <1>5, <2>1, <2>3, <3>1
  <2>4. CASE step'[s] = "off" /\ turn' = turn
    <3>1. Reached(s)' = Reached(s) /\ (\A y \in SlotRows : Rank(s, y)' = Rank(s, y)) /\ InTransaction(s)'
      BY <2>1, <2>4 DEF Reached, Rank, InTransaction, Steps
    <3> HIDE DEF Reached, Rank, InTransaction
    <3> QED BY <1>0, <2>1, <2>4, <3>1 DEF SlotInv
  <2> QED BY <2>2, <2>3, <2>4
<1>8. CASE DeactivateSub(s)
  <2> DEFINE x == <<"sub", q>>
  <2>1. /\ step[s] = "off" /\ step'[s] = "offQuestion" /\ payload' = payload /\ turn' = turn
        /\ payload[s][q] = "empty" /\ q \in Slots /\ x \in SlotRows
    BY <1>0, <1>8, RowOf DEF DeactivateSub, SaveGoes, SlotShape, payloadVars, InTransaction,
      Steps, SlotInv
  <2>2. UNCHANGED <<lock, pending>> \/ \E c : Write(s, x, c)
    BY <1>8 DEF DeactivateSub, rowVars, Slot, SlotAt
  <2>3. \A y \in SlotRows : y # x => lock'[y] = lock[y]
    BY <2>1, <2>2, Written
  <2>4. Rank(s, x) = Reached(s) /\ Reached(s) < Reached(s)' /\ InTransaction(s)'
    BY <2>1, SlotNumbers DEF Rank, Reached, InTransaction, Steps
  <2>5. \A y \in SlotRows : lock'[y] = s => InTransaction(s)' /\ Rank(s, y)' < Reached(s)'
    BY <2>1, <2>3, <2>4, RanksGrow
  <2> HIDE DEF Reached, Rank, InTransaction
  <2> QED BY <2>1, <2>4, <2>5 DEF SlotInv
<1>9. CASE DeactivateQuestion(s)
  <2> DEFINE x == <<"question", q>>
  <2>1. /\ step[s] = "offQuestion" /\ payload' = payload /\ NextSlot(s)
        /\ payload[s][q] = "empty" /\ q \in Slots /\ x \in SlotRows
    BY <1>0, <1>9, RowOf DEF DeactivateQuestion, payloadVars, InTransaction, Steps, SlotInv
  <2>2. \E c : Write(s, x, c)
    BY <1>9 DEF DeactivateQuestion, Slot, SlotAt
  <2>3. \A y \in SlotRows : y # x => lock'[y] = lock[y]
    BY <2>1, <2>2, Written
  <2>4. Rank(s, x) = Reached(s) /\ Reached(s) = 2 * q + 1
    BY <2>1, SlotNumbers DEF Rank, Reached
  <2> HIDE DEF x, q
  <2> QED BY <1>5, <2>1, <2>3, <2>4 DEF q
<1> QED BY <1>1, <1>2, <1>3, <1>4, <1>6, <1>7, <1>8, <1>9 DEF SaveStep

LEMMA StoredStays ==
  ASSUME NEW t \in Saves, SaveStep(t), ~CommitSave(t)
  PROVE  stored' = stored /\ last' = last
<1> USE DEF rowVars, historyVars, Write, Release
<1>1. CASE BeginSave(t) \/ FindSlot(t) \/ ReadSnapshot(t) \/ AbortSave(t)
  BY <1>1 DEF BeginSave, FindSlot, ReadSnapshot, AbortSave
<1>2. CASE UpdateQuestion(t) \/ InsertQuestion(t) \/ DeactivateQuestion(t)
  BY <1>2 DEF UpdateQuestion, InsertQuestion, DeactivateQuestion
<1>3. CASE UpdateSub(t) \/ InsertSub(t) \/ DeactivateSub(t)
  BY <1>3 DEF UpdateSub, InsertSub, DeactivateSub
<1> QED BY <1>1, <1>2, <1>3 DEF SaveStep

LEMMA ThroughIsPast ==
  ASSUME SlotShape, NEW s \in Saves, NEW q \in Slots, Through(s, q) PROVE Past(s)
<1>1. CASE step[s] = "commit"
  BY <1>1 DEF Past, InTransaction, Steps
<1>2. CASE InTransaction(s) /\ q < turn[s]
  BY <1>2, SlotNumbers DEF Past, SlotShape
<1> QED BY <1>1, <1>2 DEF Through

\* While a save has the question of the first slot, no other commits.
LEMMA OtherSerial ==
  ASSUME SaveInv, FirstSeen, NEW t \in Saves, SaveStep(t), NEW s \in Saves, s # t
  PROVE  SerialInv(s)'
<1>1. /\ SlotShape /\ (\A r \in Saves : SlotInv(r)) /\ SerialInv(s) /\ SerialInv(t)
  BY DEF SaveInv
<1>2. /\ step'[s] = step[s] /\ turn'[s] = turn[s] /\ payload'[s] = payload[s]
      /\ \A x \in SlotRows : lock'[x] = s <=> lock[x] = s
      /\ \A x \in SlotRows : lock[x] = s => pending'[x] = pending[x]
  BY <1>1, OthersOfSave
<1>3. /\ Past(s)' <=> Past(s)
      /\ \A q \in Slots : (Through(s, q)' <=> Through(s, q)) /\ Asked(s, q)' = Asked(s, q)
  BY <1>2 DEF Past, Through, Asked, InTransaction
<1>4. <<"question", 1>> \in SlotRows
  BY RowOf, SlotNumbers
<1>5. CASE ~Past(s)
  BY <1>1, <1>3, <1>5, ThroughIsPast DEF SerialInv
<1>6. CASE Past(s)
  <2>1. lock[<<"question", 1>>] = s
    BY <1>1, <1>6 DEF SerialInv
  <2>2. ~CommitSave(t)
    BY <1>1, <2>1 DEF SerialInv, Past, CommitSave, InTransaction, Steps
  <2>3. \A x \in SlotRows : SeenBy(s, x)' = SeenBy(s, x)
    BY <1>2, <2>2, StoredStays DEF SeenBy
  <2>4. \A q \in Slots : Would(s, q)' = Would(s, q)
    BY <2>3, RowOf DEF Would, Form
  <2> HIDE DEF Past, Through, Asked, Would
  <2> QED BY <1>1, <1>2, <1>3, <1>4, <2>1, <2>4 DEF SerialInv
<1> QED BY <1>5, <1>6

LEMMA OwnView ==
  ASSUME SlotShape, NEW s \in Saves, NEW x \in SlotRows, NEW c,
         Write(s, x, c) \/ (UNCHANGED rowVars /\ SeenBy(s, x) = c)
  PROVE  /\ SeenBy(s, x)' = c /\ \A y \in SlotRows : y # x => SeenBy(s, y)' = SeenBy(s, y)
         /\ \A y \in SlotRows : lock[y] = s => lock'[y] = s
<1>1. CASE UNCHANGED rowVars /\ SeenBy(s, x) = c
  BY <1>1 DEF SeenBy, rowVars
<1>2. CASE Write(s, x, c)
  BY <1>2, Written DEF SeenBy
<1> QED BY <1>1, <1>2

LEMMA StrictlyBelow == ASSUME NEW q \in Slots, NEW n \in Slots, q <= n, q # n PROVE q < n
BY SlotNumbers

\* The slot that a save completes is as it was asked for.
LEMMA SerialAdvances ==
  ASSUME SlotShape, NEW s \in Saves, SerialInv(s), NEW n \in Slots, n = turn[s], InTransaction(s),
         step[s] # "commit", NextSlot(s), payload' = payload,
         \A y \in SlotRows : y[2] # n => SeenBy(s, y)' = SeenBy(s, y),
         \A y \in SlotRows : lock[y] = s => lock'[y] = s,
         Would(s, n)' = Asked(s, n),
         n = 1 => lock'[<<"question", 1>>] = s
  PROVE  SerialInv(s)'
<1>1. /\ \/ step'[s] = "slot" /\ turn'[s] = n + 1
         \/ n = LastSlot /\ step'[s] = "commit"
      /\ n \in Nat /\ n >= 1
  BY Advanced, SlotNumbers
<1>2. lock'[<<"question", 1>>] = s
  <2>1. <<"question", 1>> \in SlotRows
    BY RowOf, SlotNumbers
  <2>2. n # 1 => Past(s)
    BY <1>1 DEF Past
  <2> QED BY <2>1, <2>2 DEF SerialInv
<1>3. ASSUME NEW q \in Slots, Through(s, q)' PROVE Would(s, q)' = Asked(s, q)'
  <2>1. q <= n
    BY <1>1, <1>3, SlotNumbers DEF Through, Slots
  <2>2. Asked(s, q)' = Asked(s, q)
    BY DEF Asked
  <2>3. CASE q = n
    BY <2>2, <2>3
  <2>4. CASE q # n
    <3>1. Through(s, q)
      <4>1. q < n
        BY <2>1, <2>4, StrictlyBelow, Zenon
      <4> QED BY <4>1 DEF Through
    <3>2. Would(s, q)' = Would(s, q)
      <4>1. \A tab \in Tables : <<tab, q>> \in SlotRows /\ <<tab, q>>[2] = q
        BY DEF SlotRows
      <4>2. \A tab \in Tables : SeenBy(s, <<tab, q>>)' = SeenBy(s, <<tab, q>>)
        BY <2>4, <4>1
      <4> HIDE DEF SeenBy
      <4> QED BY <4>2 DEF Would, Form, Tables
    <3> QED BY <2>2, <3>1, <3>2 DEF SerialInv
  <2> QED BY <2>3, <2>4
<1> HIDE DEF Would, Asked, Through, Past
<1> QED BY <1>2, <1>3 DEF SerialInv

LEMMA OwnSerial ==
  ASSUME SaveInv, FirstSeen, FirstSeen', NEW s \in Saves, SaveStep(s), NEW n, n = turn[s]
  PROVE  SerialInv(s)'
<1> DEFINE question == <<"question", n>>  sub == <<"sub", n>>
<1>0. /\ SlotShape /\ SlotInv(s) /\ SerialInv(s)
      /\ InTransaction(s) => n \in Slots /\ question \in SlotRows /\ sub \in SlotRows
  BY RowOf DEF SaveInv, SlotInv
<1>1. ASSUME ~Past(s)', step'[s] # "commit" PROVE SerialInv(s)'
  <2>1. SlotShape'
    BY <1>0, SaveShapeKept DEF SaveInv
  <2>2. \A q \in Slots : ~Through(s, q)'
    BY <1>1, <2>1, SlotNumbers DEF Through, Past, SlotShape
  <2> QED BY <1>1, <2>2 DEF SerialInv
<1>2. CASE BeginSave(s)
  <2>1. step'[s] = "slot" /\ turn'[s] = 1
    BY <1>0, <1>2 DEF BeginSave, SaveGoes, SlotShape
  <2> QED BY <1>1, <2>1 DEF Past
<1>3. CASE CommitSave(s) \/ AbortSave(s) \/ ReadSnapshot(s)
  <2>1. step'[s] \in {"read", "saved", "failed"}
    BY <1>0, <1>3 DEF CommitSave, AbortSave, ReadSnapshot, SaveGoes, SlotShape
  <2> QED BY <1>1, <2>1 DEF Past, InTransaction, Steps
\* A step inside a slot.
<1>4. ASSUME InTransaction(s), step[s] # "commit", step'[s] # "commit", InTransaction(s)',
             turn' = turn, payload' = payload,
             \A y \in SlotRows : y[2] # n => SeenBy(s, y)' = SeenBy(s, y),
             \A y \in SlotRows : lock[y] = s => lock'[y] = s,
             Past(s)' => Past(s) \/ lock'[<<"question", 1>>] = s
      PROVE  SerialInv(s)'
  <2>1. Past(s)' => lock'[<<"question", 1>>] = s
    BY <1>0, <1>4, RowOf, SlotNumbers DEF SerialInv
  <2>2. ASSUME NEW q \in Slots, Through(s, q)' PROVE Would(s, q)' = Asked(s, q)'
    <3>1. Through(s, q) /\ q # n /\ Asked(s, q)' = Asked(s, q)
      BY <1>0, <1>4, <2>2, SlotNumbers DEF Through, Asked
    <3>2. \A tab \in Tables : <<tab, q>> \in SlotRows /\ <<tab, q>>[2] = q
      BY DEF SlotRows
    <3>3. \A tab \in Tables : SeenBy(s, <<tab, q>>)' = SeenBy(s, <<tab, q>>)
      BY <1>4, <3>1, <3>2
    <3>4. Would(s, q)' = Would(s, q)
      <4> HIDE DEF SeenBy
      <4> QED BY <3>3 DEF Would, Form, Tables
    <3> QED BY <1>0, <3>1, <3>4 DEF SerialInv
  <2> HIDE DEF Past, Would, Asked, Through
  <2> QED BY <2>1, <2>2 DEF SerialInv
<1>5. CASE UpdateQuestion(s) \/ InsertQuestion(s)
  <2>1. /\ step[s] \in {"slot", "insert"} /\ InTransaction(s) /\ turn' = turn /\ payload' = payload
        /\ \/ step'[s] = "insert" /\ UNCHANGED rowVars
           \/ step'[s] = "sub" /\ Write(s, question, NewText(s))
    BY <1>0, <1>5 DEF UpdateQuestion, InsertQuestion, SaveGoes, SlotShape, payloadVars,
                      InTransaction, Steps, Slot, SlotAt
  <2>2. /\ \A y \in SlotRows : y # question => SeenBy(s, y)' = SeenBy(s, y)
        /\ \A y \in SlotRows : lock[y] = s => lock'[y] = s
    BY <1>0, <2>1, OwnView
  <2>3. \A y \in SlotRows : y[2] # n => SeenBy(s, y)' = SeenBy(s, y)
    BY <2>2
  <2>4. Past(s)' => Past(s) \/ lock'[<<"question", 1>>] = s
    <3>1. CASE n = 1 /\ step'[s] = "sub"
      BY <1>0, <2>1, <3>1, Written
    <3>2. CASE ~(n = 1 /\ step'[s] = "sub")
      BY <1>0, <2>1, <3>2, SlotNumbers DEF Past, InTransaction, Steps
    <3> QED BY <3>1, <3>2
  <2>5. step[s] # "commit" /\ step'[s] # "commit" /\ InTransaction(s)'
    BY <2>1 DEF InTransaction, Steps
  <2> QED BY <1>4, <2>1, <2>2, <2>3, <2>4, <2>5
<1>6. CASE UpdateSub(s) \/ InsertSub(s)
  <2>1. /\ step[s] \in {"sub", "insertSub"} /\ InTransaction(s) /\ payload' = payload
        /\ lock[question] = s /\ SeenBy(s, question) = NewText(s) /\ Past(s)
    BY <1>0, <1>6 DEF UpdateSub, InsertSub, payloadVars, InTransaction, Steps, SlotInv, SeenBy,
      Past
  <2>2. /\ n \in Slots /\ payload[s][n] # "empty" /\ question # sub
        /\ payload[s][n] \in {"empty", "text", "both"}
    BY <1>0, <2>1 DEF SlotInv, SlotShape
  <2>3. \/ step'[s] = "insertSub" /\ UNCHANGED <<rowVars, turn>>
        \/ /\ NextSlot(s)
           /\ \E c : /\ Write(s, sub, c) \/ (UNCHANGED rowVars /\ SeenBy(s, sub) = c)
                     /\ payload[s][n] = "both" => c = NewText(s)
                     /\ payload[s][n] # "both" => c = NoRow \/ ~c.live
    <3>1. CASE UpdateSub(s)
      <4>1. CASE payload[s][n] = "both" /\ SeenBy(s, sub) = NoRow
        BY <1>0, <3>1, <4>1 DEF UpdateSub, SaveGoes, SlotShape, Slot, SlotAt
      <4>2. CASE payload[s][n] = "both" /\ SeenBy(s, sub) # NoRow
        BY <3>1, <4>2 DEF UpdateSub, Slot, SlotAt
      <4>3. CASE payload[s][n] = "text" /\ SeenBy(s, sub) # NoRow
        <5>1. NextSlot(s) /\ Write(s, sub, Deactivated(s, sub))
          BY <3>1, <4>3 DEF UpdateSub, Slot, SlotAt
        <5>2. ~Deactivated(s, sub).live
          BY DEF Deactivated
        <5> QED BY <4>3, <5>1, <5>2
      <4>4. CASE payload[s][n] = "text" /\ SeenBy(s, sub) = NoRow
        BY <3>1, <4>4 DEF UpdateSub, Slot, SlotAt
      <4> QED BY <2>2, <4>1, <4>2, <4>3, <4>4
    <3>2. CASE InsertSub(s)
      BY <1>0, <3>2 DEF InsertSub, SlotInv, Slot, SlotAt
    <3> QED BY <1>6, <3>1, <3>2
  <2>4. CASE step'[s] = "insertSub" /\ UNCHANGED <<rowVars, turn>>
    <3>1. \A y \in SlotRows : SeenBy(s, y)' = SeenBy(s, y) /\ lock'[y] = lock[y]
      BY <2>4 DEF SeenBy, rowVars
    <3>2. step[s] # "commit" /\ step'[s] # "commit" /\ InTransaction(s)'
      BY <2>1, <2>4 DEF InTransaction, Steps
    <3> QED BY <1>4, <2>1, <2>4, <3>1, <3>2
  <2>5. ASSUME NEW c, NextSlot(s), Write(s, sub, c) \/ (UNCHANGED rowVars /\ SeenBy(s, sub) = c),
               payload[s][n] = "both" => c = NewText(s),
               payload[s][n] # "both" => c = NoRow \/ ~c.live
        PROVE  SerialInv(s)'
    <3>1. /\ SeenBy(s, sub)' = c /\ \A y \in SlotRows : y # sub => SeenBy(s, y)' = SeenBy(s, y)
          /\ \A y \in SlotRows : lock[y] = s => lock'[y] = s
      BY <1>0, <2>1, <2>5, OwnView
    <3>2. SeenBy(s, question)' = NewText(s)
      BY <1>0, <2>1, <2>2, <3>1
    <3>3. Would(s, n)' = Asked(s, n)
      <4>1. Would(s, n)' = Form(NewText(s), c)
        BY <3>1, <3>2 DEF Would, Form
      <4> QED BY <2>2, <2>5, <4>1, TextIsARow DEF Form, Asked
    <3>4. \A y \in SlotRows : y[2] # n => SeenBy(s, y)' = SeenBy(s, y)
      BY <3>1
    <3>5. n = 1 => lock'[<<"question", 1>>] = s
      BY <1>0, <2>1, <3>1
    <3>6. step[s] # "commit"
      BY <2>1
    <3> QED BY <1>0, <2>1, <2>2, <2>5, <3>1, <3>3, <3>4, <3>5, <3>6, SerialAdvances
  <2> QED BY <2>3, <2>4, <2>5
<1>7. CASE FindSlot(s)
  <2>1. /\ step[s] = "slot" /\ InTransaction(s) /\ payload' = payload /\ UNCHANGED rowVars
        /\ payload[s][n] = "empty"
        /\ \/ step'[s] = "off" /\ turn' = turn
           \/ NextSlot(s) /\ SeenBy(s, question) = NoRow /\ n \in missed'[s]
    BY <1>0, <1>7 DEF FindSlot, SaveGoes, SlotShape, payloadVars, InTransaction, Steps, Slot,
      SlotAt
  <2>2. \A y : SeenBy(s, y)' = SeenBy(s, y) /\ lock'[y] = lock[y]
    BY <2>1 DEF SeenBy, rowVars
  <2>3. CASE step'[s] = "off" /\ turn' = turn
    <3>1. /\ step[s] # "commit" /\ step'[s] # "commit" /\ InTransaction(s)'
          /\ Past(s)' => Past(s)
      BY <2>1, <2>3 DEF InTransaction, Steps, Past
    <3> QED BY <1>4, <2>1, <2>2, <2>3, <3>1
  <2>4. CASE NextSlot(s) /\ SeenBy(s, question) = NoRow /\ n \in missed'[s]
    <3>1. n # 1
      BY <2>4 DEF FirstSeen
    <3>2. Would(s, n)' = Asked(s, n)
      BY <2>1, <2>2, <2>4 DEF Would, Form, Asked
    <3>3. step[s] # "commit"
      BY <2>1
    <3> QED BY <1>0, <2>1, <2>2, <2>4, <3>1, <3>2, <3>3, SerialAdvances
  <2> QED BY <2>1, <2>3, <2>4
<1>8. CASE DeactivateSub(s)
  <2>1. /\ step[s] = "off" /\ step'[s] = "offQuestion" /\ payload' = payload /\ turn' = turn
        /\ InTransaction(s) /\ InTransaction(s)'
        /\ \E c : Write(s, sub, c) \/ (UNCHANGED rowVars /\ SeenBy(s, sub) = c)
    BY <1>0, <1>8 DEF DeactivateSub, SaveGoes, SlotShape, payloadVars, InTransaction, Steps,
      Slot, SlotAt
  <2>2. /\ \A y \in SlotRows : y # sub => SeenBy(s, y)' = SeenBy(s, y)
        /\ \A y \in SlotRows : lock[y] = s => lock'[y] = s
    BY <1>0, <2>1, OwnView
  <2>3. \A y \in SlotRows : y[2] # n => SeenBy(s, y)' = SeenBy(s, y)
    BY <2>2
  <2>4. (Past(s)' => Past(s)) /\ step[s] # "commit" /\ step'[s] # "commit"
    BY <2>1 DEF Past
  <2> QED BY <1>4, <2>1, <2>2, <2>3, <2>4
<1>9. CASE DeactivateQuestion(s)
  <2> DEFINE c == Deactivated(s, question)
  <2>1. /\ step[s] = "offQuestion" /\ InTransaction(s) /\ payload' = payload
        /\ NextSlot(s) /\ Write(s, question, c) /\ payload[s][n] = "empty" /\ step[s] # "commit"
    BY <1>0, <1>9 DEF DeactivateQuestion, payloadVars, InTransaction, Steps, SlotInv, Slot, SlotAt
  <2>2. ~c.live
    BY DEF Deactivated
  <2> HIDE DEF c
  <2>3. /\ SeenBy(s, question)' = c /\ \A y \in SlotRows : y # question => SeenBy(s, y)' = SeenBy(s, y)
        /\ \A y \in SlotRows : lock[y] = s => lock'[y] = s
        /\ lock'[question] = s
    BY <1>0, <2>1, OwnView, Written
  <2>4. Would(s, n)' = Asked(s, n)
    BY <2>1, <2>2, <2>3 DEF Would, Form, Asked
  <2>5. \A y \in SlotRows : y[2] # n => SeenBy(s, y)' = SeenBy(s, y)
    BY <2>3
  <2>6. n = 1 => lock'[<<"question", 1>>] = s
    BY <2>3
  <2> QED BY <1>0, <2>1, <2>3, <2>4, <2>5, <2>6, SerialAdvances
<1> QED BY <1>2, <1>3, <1>5, <1>6, <1>7, <1>8, <1>9 DEF SaveStep

LEMMA LastKept ==
  ASSUME SaveInv, NEW t \in Saves, SaveStep(t) PROVE LastInv'
<1>0. /\ SlotShape /\ (\A s \in Saves : SlotInv(s)) /\ LastInv
      /\ FirstSeen => \A s \in Saves : SerialInv(s)
  BY DEF SaveInv
<1>1. CASE CommitSave(t)
  <2>1. /\ last' = t /\ step[t] = "commit" /\ step'[t] = "read" /\ missed' = missed /\ payload' = payload
        /\ \A x \in SlotRows : stored'[x] = SeenBy(t, x)
    BY <1>0, <1>1 DEF CommitSave, SaveGoes, SlotShape, payloadVars, SeenBy
  <2>2. ASSUME FirstSeen', NEW q \in Slots PROVE FormShows(q)' = Asked(t, q)'
    <3>1. Would(t, q) = Asked(t, q)
      BY <1>0, <2>1, <2>2 DEF FirstSeen, SerialInv, Through
    <3>2. FormShows(q)' = Would(t, q)
      BY <2>1, RowOf DEF FormShows, Would, Form
    <3>3. Asked(t, q)' = Asked(t, q)
      BY <2>1 DEF Asked
    <3> QED BY <3>1, <3>2, <3>3
  <2> HIDE DEF FormShows, Asked
  <2> QED BY <2>1, <2>2 DEF LastInv
<1>2. CASE ~CommitSave(t)
  <2>1. stored' = stored /\ last' = last
    BY <1>2, StoredStays
  <2>2. \A s \in Saves : missed[s] \subseteq missed'[s]
    BY <1>0 DEF SaveStep, BeginSave, UpdateQuestion, InsertQuestion, UpdateSub, InsertSub,
      FindSlot, DeactivateSub, DeactivateQuestion, CommitSave, AbortSave, ReadSnapshot,
      historyVars, SlotShape
  <2>3. FirstSeen' => FirstSeen
    BY <2>2 DEF FirstSeen
  <2>4. ASSUME last # Nobody
        PROVE  step'[last] \in {"read"} \cup SaveEnds /\ payload'[last] = payload[last]
    <3>1. last \in Saves /\ step[last] \in {"read"} \cup SaveEnds
      BY <1>0, <2>4 DEF LastInv
    <3>2. CASE last # t
      BY <1>0, <3>1, <3>2, OthersOfSave
    <3>3. CASE last = t
      <4>1. ReadSnapshot(t)
        BY <1>0, <3>1, <3>3 DEF SaveStep, BeginSave, UpdateQuestion, InsertQuestion, UpdateSub,
          InsertSub, FindSlot, DeactivateSub, DeactivateQuestion, CommitSave, AbortSave,
          InTransaction, Steps, SaveEnds
      <4> QED BY <1>0, <3>3, <4>1 DEF ReadSnapshot, SaveGoes, SlotShape, SaveEnds, payloadVars
    <3> QED BY <3>2, <3>3
  <2>5. \A q \in Slots : FormShows(q)' = FormShows(q) /\ (last # Nobody => Asked(last, q)' = Asked(last, q))
    BY <2>1, <2>4 DEF FormShows, Asked
  <2> HIDE DEF FormShows, Asked
  <2>6. ASSUME last # Nobody, FirstSeen' PROVE \A q \in Slots : FormShows(q)' = Asked(last, q)'
    BY <1>0, <2>3, <2>5, <2>6 DEF LastInv
  <2> QED BY <1>0, <2>1, <2>4, <2>6 DEF LastInv
<1> QED BY <1>1, <1>2

LEMMA SaveInvKept == SaveInv /\ [SaveNext]_saveVars => SaveInv'
<1> SUFFICES ASSUME SaveInv, [SaveNext]_saveVars PROVE SaveInv'
  OBVIOUS
<1>0. SlotShape /\ \A s \in Saves : SlotInv(s)
  BY DEF SaveInv
<1>1. CASE UNCHANGED saveVars
  <2>1. /\ UNCHANGED <<stored, lock, pending, step, turn, payload, missed, last>>
    BY <1>1 DEF saveVars, rowVars, payloadVars, historyVars
  <2>2. SlotShape'
    BY <1>0, <2>1 DEF SlotShape
  <2>3. \A s \in Saves : SlotInv(s)' <=> SlotInv(s)
    BY <2>1 DEF SlotInv, InTransaction, Rank, Reached, NewText
  <2>4. \A s \in Saves : SerialInv(s)' <=> SerialInv(s)
    <3>1. \A s \in Saves, q \in Slots : /\ Would(s, q)' = Would(s, q) /\ Asked(s, q)' = Asked(s, q)
                                        /\ Through(s, q)' <=> Through(s, q)
      BY <2>1 DEF Would, Form, SeenBy, Asked, Through, InTransaction
    <3>2. \A s \in Saves : Past(s)' <=> Past(s)
      BY <2>1 DEF Past, InTransaction
    <3> HIDE DEF Would, Asked, Through, Past
    <3> QED BY <2>1, <3>1, <3>2 DEF SerialInv
  <2>5. FirstSeen' <=> FirstSeen
    BY <2>1 DEF FirstSeen
  <2>6. LastInv'
    <3>1. \A q \in Slots : FormShows(q)' = FormShows(q) /\ Asked(last, q)' = Asked(last, q)
      BY <2>1 DEF FormShows, Asked
    <3> HIDE DEF FormShows, Asked
    <3> QED BY <2>1, <2>5, <3>1 DEF SaveInv, LastInv
  <2> QED BY <2>2, <2>3, <2>4, <2>5, <2>6 DEF SaveInv
<1>2. ASSUME NEW t \in Saves, SaveStep(t) PROVE SaveInv'
  <2>1. SlotShape' /\ LastInv'
    BY <1>0, <1>2, SaveShapeKept, LastKept
  <2>2. \A s \in Saves : SlotInv(s)'
    BY <1>0, <1>2, OwnSlotInv, OtherSlotInv
  <2>3. \A s \in Saves : missed[s] \subseteq missed'[s]
    BY <1>0, <1>2 DEF SaveStep, BeginSave, UpdateQuestion, InsertQuestion, UpdateSub, InsertSub,
      FindSlot, DeactivateSub, DeactivateQuestion, CommitSave, AbortSave, ReadSnapshot,
      historyVars, SlotShape
  <2>4. ASSUME FirstSeen', NEW s \in Saves PROVE SerialInv(s)'
    <3>1. FirstSeen
      BY <2>3, <2>4 DEF FirstSeen
    <3> QED BY <1>2, <2>4, <3>1, OwnSerial, OtherSerial
  <2> QED BY <2>1, <2>2, <2>4 DEF SaveInv
<1> QED BY <1>1, <1>2 DEF SaveNext, SaveStep

LEMMA SaveInvStarts == SaveInit => SaveInv
<1> SUFFICES ASSUME SaveInit PROVE SaveInv
  OBVIOUS
<1>1. SlotShape
  BY SlotNumbers DEF SaveInit, SlotShape
<1>2. /\ \A s \in Saves : step[s] = "new" /\ ~InTransaction(s)
      /\ \A s \in Saves, x \in SlotRows : lock[x] # s
  BY SavesAssumption DEF SaveInit, InTransaction, Steps
<1>3. \A s \in Saves : SlotInv(s)
  BY <1>2 DEF SlotInv
<1>4. (\A s \in Saves : SerialInv(s)) /\ LastInv
  BY <1>2 DEF SerialInv, Past, Through, LastInv, SaveInit
<1> QED BY <1>1, <1>3, <1>4 DEF SaveInv

LEMMA SavesKeepOrder == SaveSpec => []SaveInv
BY SaveInvStarts, SaveInvKept, PTL DEF SaveSpec

(* Simultaneous saves are not mixed, with any number of slots and saves      *)
(* (saveCatalogQuestions): while a save has the question of the first slot   *)
(* no other commits, so that what it sees is what it will leave.             *)
THEOREM SavesAreSerial == SaveSpec => []FirstSlotSerializes
<1>1. SaveInv => FirstSlotSerializes
  BY DEF SaveInv, LastInv, FirstSeen, FirstSlotSerializes
<1> QED BY <1>1, SavesKeepOrder, PTL

LEMMA WaitsAhead ==
  ASSUME SaveInv, NEW s \in Saves, NEW t \in Saves, Waits(s, t)
  PROVE  \E x \in SlotRows : lock[x] = t /\ Rank(s, x) = Reached(s)
<1>1. PICK x \in WaitedFor(s) : lock[x] = t
  BY DEF Waits
<1>2. SlotShape /\ SlotInv(s) /\ SlotInv(t)
  BY DEF SaveInv
<1>3. /\ step[s] \in {"slot", "insert", "offQuestion", "sub", "insertSub", "off"} /\ turn[s] \in Slots
      /\ \/ step[s] = "slot" /\ payload[s][turn[s]] # "empty" /\ x = <<"question", turn[s]>>
         \/ step[s] \in {"insert", "offQuestion"} /\ x = <<"question", turn[s]>>
         \/ step[s] \in {"sub", "insertSub", "off"} /\ x = <<"sub", turn[s]>>
  BY <1>1, <1>2 DEF WaitedFor, Slot, SlotAt, SlotInv, InTransaction, Steps
<1>4. x \in SlotRows
  BY <1>3, RowOf
<1>5. Rank(s, x) = Reached(s)
  BY <1>2, <1>3, SlotNumbers DEF Rank, Reached, SlotInv
<1> QED BY <1>1, <1>4, <1>5

(* Two saves of which one fills no slot that the other empties lock the rows  *)
(* in the same order, whatever the order of the slots in the requests         *)
(* (orderedQuestions in upsertCatalogQuestionsController): no ring of two.    *)
THEOREM OneOrderOfLocks == SaveSpec => []DeadlockNeedsOppositeSaves
<1>1. SaveInv => DeadlockNeedsOppositeSaves
  <2> SUFFICES ASSUME SaveInv, NEW s \in Saves, NEW t \in Saves, Waits(s, t), Waits(t, s),
                      \A q \in Slots : payload[s][q] = "empty" <=> payload[t][q] = "empty"
               PROVE  FALSE
    BY DEF DeadlockNeedsOppositeSaves
  <2>1. PICK x \in SlotRows : lock[x] = t /\ Rank(s, x) = Reached(s)
    BY WaitsAhead
  <2>2. PICK y \in SlotRows : lock[y] = s /\ Rank(t, y) = Reached(t)
    BY WaitsAhead
  <2>3. \A z \in SlotRows : Rank(s, z) = Rank(t, z) /\ Rank(s, z) \in Nat
    BY SlotNumbers DEF Rank, SlotRows
  <2>4. Rank(t, x) < Reached(t) /\ Rank(s, y) < Reached(s)
    BY <2>1, <2>2 DEF SaveInv, SlotInv
  <2> HIDE DEF Rank, Reached
  <2> QED BY <2>1, <2>2, <2>3, <2>4
<1> QED BY <1>1, SavesKeepOrder, PTL
=============================================================================
