------------------------------ MODULE IaConfig ------------------------------
(***************************************************************************)
(* The AI configuration of a company: one row with the OpenRouter key and   *)
(* the chosen model, and the catalogue of the models each key may use,      *)
(* which an instance of the server caches.  A manager saves a key, connects *)
(* an account, changes the model, removes the configuration and looks at    *)
(* the catalogue, in requests that wait for OpenRouter and overlap.         *)
(*                                                                         *)
(* Node runs the callbacks of one promise together, so the end of a fetch   *)
(* and what its waiters do at once are one step.  Encryption is the number  *)
(* of the write: two encryptions of a key differ in the IV.  Which models   *)
(* of OpenRouter can be used (parseModels) is part of the account.          *)
(*                                                                         *)
(* An operator F_Bug is F with a plausible bug.  No specification uses it:  *)
(* put in the place of F, it shows that the properties notice.              *)
(***************************************************************************)
EXTENDS Naturals, FiniteSets

CONSTANTS
  ConfigRequests,
  Wishes,       \* what they may ask for: request |-> [kind, key, model]
  Account,      \* what OpenRouter answers at the beginning
  Changed,      \* what it may answer later: <<key, models>>
  Keys, Models,
  Public,       \* the cache key of the catalogue without an account
  None,
  MaxCached,    \* MAX_CACHE_ENTRIES
  TTL, MaxStale, \* CACHE_TTL_MS, MAX_STALE_AGE_MS
  MaxEntries, MaxChanges, LastHour \* bounds: entries made, changes of an account, the clock

ASSUME BoundAssumption == MaxEntries \in Nat

Sources == Keys \cup {Public}
Entries == 1 .. MaxEntries

VARIABLES
  row,       \* enterprise_ia_config: [id, write, key, model, by], or None; by, whose request, is history
  written,   \* ids and writes given out
  wish,      \* the one of Wishes
  account,   \* what OpenRouter answers for each source: models, or None (refused)
  changes, hour,
  req,       \* [kind, pc, key, model, expected, entry, catalog] of each request
  cached,    \* the Map: key |-> entry; entries are numbered in the order of the Map
  entry,     \* [source, catalog, pending]; a catalogue is [models, at, from], from is history
  made,      \* entries made
  offered,   \* history: <<source, model>> answered by OpenRouter since a request began
  dropped    \* history: of each request the entries that were dropped before it began

cacheVars == <<cached, entry, made>>
configVars == <<row, written, wish, account, changes, hour, req, cacheVars, offered, dropped>>

NoRequest == [kind |-> None, pc |-> "idle", key |-> None, model |-> None, expected |-> None,
              entry |-> 0, catalog |-> None]
NoEntry == [source |-> None, catalog |-> None, pending |-> FALSE]

ConfigInit ==
  /\ account = Account /\ wish \in Wishes
  /\ \/ row = None /\ written = 0
     \/ \E k \in Keys : \E m \in Account[k] :
          row = [id |-> 1, write |-> 1, key |-> k, model |-> m, by |-> None] /\ written = 1
  /\ changes = 0 /\ hour = 0
  /\ req = [r \in ConfigRequests |-> NoRequest]
  /\ cached = [k \in {} |-> 0] /\ entry = [e \in Entries |-> NoEntry] /\ made = 0
  /\ offered = [r \in ConfigRequests |-> {}] /\ dropped = [r \in ConfigRequests |-> {}]

At(r, pc) == req[r].pc = pc
Set(r, changed) == req' = [req EXCEPT ![r] = changed]
Goes(r, pc) == Set(r, [req[r] EXCEPT !.pc = pc])
KeepTable == UNCHANGED <<row, written>>
KeepOutside == UNCHANGED <<wish, account, changes, hour>>
KeepHistory == UNCHANGED <<offered, dropped>>

-----------------------------------------------------------------------------
(* openRouterModels.get                                                      *)

Drop(keys) == cached' = [k \in DOMAIN cached \ keys |-> cached[k]]

Oldest == CHOOSE k \in DOMAIN cached : \A x \in DOMAIN cached : cached[k] <= cached[x]

\* A new entry, for which the oldest makes room.
Room(k) ==
  LET kept == IF Cardinality(DOMAIN cached) >= MaxCached THEN DOMAIN cached \ {Oldest} ELSE DOMAIN cached
  IN  /\ made < MaxEntries /\ made' = made + 1
      /\ cached' = [x \in kept \cup {k} |-> IF x = k THEN made' ELSE cached[x]]

Fresh(e, forced) == ~forced /\ entry[e].catalog # None /\ hour - entry[e].catalog.at < TTL

\* Only the screen is content with the cache; who finds a fetch in progress joins it.
Get(r, source) ==
  /\ \/ source \in DOMAIN cached /\ UNCHANGED <<cached, made>>
     \/ source \notin DOMAIN cached /\ Room(source)
  /\ LET e == cached'[source] IN
     IF e \in DOMAIN entry /\ Fresh(e, req[r].kind # "get")
       THEN /\ Set(r, [req[r] EXCEPT !.pc = "got", !.key = source, !.entry = e,
                                     !.catalog = entry[e].catalog])
            /\ UNCHANGED entry
       ELSE /\ Set(r, [req[r] EXCEPT !.pc = "waiting", !.key = source, !.entry = e])
            /\ entry' = [entry EXCEPT ![e].source = source, ![e].pending = TRUE]
  /\ KeepTable /\ KeepOutside /\ KeepHistory

Current(e) == entry[e].source \in DOMAIN cached /\ cached[entry[e].source] = e
Waiting(e) == {r \in ConfigRequests : At(r, "waiting") /\ req[r].entry = e}

Kept_ByKey(e, new) == [x \in Entries |->
  IF entry[e].source \in DOMAIN cached /\ x = cached[entry[e].source]
    THEN [entry[x] EXCEPT !.catalog = new, !.pending = @ /\ x # e]
    ELSE IF x = e THEN [entry[e] EXCEPT !.pending = FALSE] ELSE entry[x]]

\* An entry that was dropped during the fetch does not come back.
Kept(e, new) == [entry EXCEPT ![e].pending = FALSE, ![e].catalog = IF Current(e) THEN new ELSE @]

Answered(e) ==
  /\ entry[e].pending /\ account[entry[e].source] # None
  /\ LET models == account[entry[e].source]
         catalog == [models |-> models, at |-> hour, from |-> e]
     IN
     /\ entry' = Kept(e, catalog)
     /\ req' = [r \in ConfigRequests |->
                  IF r \in Waiting(e) THEN [req[r] EXCEPT !.pc = "got", !.catalog = catalog] ELSE req[r]]
     /\ offered' = [r \in ConfigRequests |-> IF At(r, "idle") THEN {}
                      ELSE offered[r] \cup {<<entry[e].source, m>> : m \in models}]
  /\ UNCHANGED <<cached, made, dropped>> /\ KeepTable /\ KeepOutside

\* 401 and 403: the entry is forgotten.
Refused(e) ==
  /\ entry[e].pending /\ account[entry[e].source] = None
  /\ entry' = [entry EXCEPT ![e].pending = FALSE]
  /\ IF Current(e) THEN Drop({entry[e].source}) ELSE UNCHANGED cached
  /\ req' = [r \in ConfigRequests |-> IF r \in Waiting(e) THEN [req[r] EXCEPT !.pc = "failed"] ELSE req[r]]
  /\ UNCHANGED made /\ KeepTable /\ KeepOutside /\ KeepHistory

\* A timeout, a 429, a 5xx: the screen makes do with a stale catalogue.
Unavailable(e) ==
  /\ entry[e].pending
  /\ entry' = [entry EXCEPT ![e].pending = FALSE]
  /\ LET stale == Current(e) /\ entry[e].catalog # None /\ hour - entry[e].catalog.at < MaxStale IN
     req' = [r \in ConfigRequests |->
               IF r \notin Waiting(e) THEN req[r]
               ELSE IF stale /\ req[r].kind = "get"
                 THEN [req[r] EXCEPT !.pc = "answered", !.catalog = entry[e].catalog]
                 ELSE [req[r] EXCEPT !.pc = "failed"]]
  /\ UNCHANGED <<cached, made>> /\ KeepTable /\ KeepOutside /\ KeepHistory

-----------------------------------------------------------------------------
(* The requests.                                                             *)

BeginConfig(r) ==
  /\ At(r, "idle")
  /\ LET w == wish[r] IN
       Set(r, [NoRequest EXCEPT !.kind = w.kind, !.key = w.key, !.model = w.model,
                                !.pc = CASE w.kind \in {"put", "connect"} -> "get"
                                         [] w.kind = "remove" -> "delete"
                                         [] OTHER -> "read"])
  /\ offered' = [offered EXCEPT ![r] = {}]
  /\ dropped' = [dropped EXCEPT ![r] = {e \in 1 .. made : ~Current(e)}]
  /\ KeepTable /\ KeepOutside /\ UNCHANGED cacheVars

\* getIaConfigByEnterprise; without a key there is no model to change.
ReadConfig(r) ==
  /\ At(r, "read")
  /\ IF row = None /\ req[r].kind = "patch" THEN Goes(r, "failed")
     ELSE Set(r, [req[r] EXCEPT !.pc = "get", !.expected = row,
                                !.key = IF row = None THEN Public ELSE row.key])
  /\ KeepTable /\ KeepOutside /\ KeepHistory /\ UNCHANGED cacheVars

GetCatalog(r) == At(r, "get") /\ Get(r, req[r].key)

\* assertModelAvailable; pickConnectModel takes the wanted model, the stored
\* one, or a free one of the catalogue, which may have none.
CheckModel(r) ==
  /\ At(r, "got")
  /\ CASE req[r].kind = "get" -> Goes(r, "answered")
       [] req[r].kind = "connect" /\ req[r].model \notin req[r].catalog.models ->
            LET kept == row # None /\ row.model \in req[r].catalog.models
                picks == IF kept THEN {row.model} ELSE req[r].catalog.models
            IN  \/ ~kept /\ Goes(r, "failed")
                \/ \E m \in picks : Set(r, [req[r] EXCEPT !.pc = "store", !.model = m])
       [] OTHER -> Goes(r, IF req[r].model \in req[r].catalog.models THEN "store" ELSE "failed")
  /\ KeepTable /\ KeepOutside /\ KeepHistory /\ UNCHANGED cacheVars

\* upsertIaConfig: another write of the row that is there, or a new one.
Upsert(r) ==
  /\ At(r, "store") /\ req[r].kind \in {"put", "connect"}
  /\ written' = written + 1
  /\ row' = [id |-> IF row = None THEN written' ELSE row.id, write |-> written',
             key |-> req[r].key, model |-> req[r].model, by |-> r]
  /\ Goes(r, "invalidate")
  /\ KeepOutside /\ KeepHistory /\ UNCHANGED cacheVars

Unchanged_SameRow(expected) == row.id = expected.id /\ row.model = expected.model
Unchanged(expected) ==
  row.id = expected.id /\ row.write = expected.write /\ row.model = expected.model

\* updateIaModel: the row is still what was read, or 409.
UpdateModel(r) ==
  /\ At(r, "store") /\ req[r].kind = "patch"
  /\ IF row # None /\ Unchanged(req[r].expected)
       THEN row' = [row EXCEPT !.model = req[r].model, !.by = r] /\ Goes(r, "answered")
       ELSE UNCHANGED row /\ Goes(r, "failed")
  /\ UNCHANGED written /\ KeepOutside /\ KeepHistory /\ UNCHANGED cacheVars

Delete(r) ==
  /\ At(r, "delete") /\ row' = None /\ Goes(r, "invalidate")
  /\ UNCHANGED written /\ KeepOutside /\ KeepHistory /\ UNCHANGED cacheVars

\* invalidateEnterprise, of this instance, after the statement.
Invalidate(r) ==
  /\ At(r, "invalidate") /\ Drop(Keys) /\ Goes(r, "answered")
  /\ UNCHANGED <<entry, made>> /\ KeepTable /\ KeepOutside /\ KeepHistory

\* Any statement may fail.
StatementFails(r) ==
  /\ req[r].pc \in {"read", "store", "delete"} /\ Goes(r, "failed")
  /\ KeepTable /\ KeepOutside /\ KeepHistory /\ UNCHANGED cacheVars

\* Models come and go at OpenRouter, and keys are revoked.
AccountChanges ==
  /\ changes < MaxChanges /\ changes' = changes + 1
  /\ \E c \in Changed : account' = [account EXCEPT ![c[1]] = c[2]]
  /\ UNCHANGED <<wish, hour, req>> /\ KeepTable /\ KeepHistory /\ UNCHANGED cacheVars

Passes ==
  /\ hour < LastHour /\ hour' = hour + 1
  /\ UNCHANGED <<wish, account, changes, req>> /\ KeepTable /\ KeepHistory /\ UNCHANGED cacheVars

ConfigNext ==
  \/ \E r \in ConfigRequests :
       BeginConfig(r) \/ ReadConfig(r) \/ GetCatalog(r) \/ CheckModel(r) \/ Upsert(r) \/ UpdateModel(r)
       \/ Delete(r) \/ Invalidate(r) \/ StatementFails(r)
  \/ \E e \in Entries : Answered(e) \/ Refused(e) \/ Unavailable(e)
  \/ AccountChanges \/ Passes

ConfigSpec == ConfigInit /\ [][ConfigNext]_configVars

-----------------------------------------------------------------------------
(* The stored model is one that OpenRouter offered to the stored key, after  *)
(* the request that stored the pair began: a key that is replaced, removed   *)
(* or saved again during a change of the model makes that change fail, and   *)
(* no change is checked against the cache.                                   *)
StoredModelWasOffered ==
  row # None /\ row.by # None => <<row.key, row.model>> \in offered[row.by]

(* Nobody is answered from a fetch whose entry was invalidated, refused or  *)
(* evicted before his request began: what arrives late brings nothing back.  *)
DroppedEntriesStayDropped ==
  \A r \in ConfigRequests : req[r].catalog # None => req[r].catalog.from \notin dropped[r]
=============================================================================
