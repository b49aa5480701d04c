-------------------------- MODULE CatalogQuestions --------------------------
(***************************************************************************)
(* saveCatalogQuestions: the questions of one catalog item, slot by slot in *)
(* one transaction, by managers who save at the same time.                  *)
(*                                                                         *)
(* A slot with a text updates its question, or inserts it, and then does    *)
(* the same with the subquestions; an empty slot looks whether there is a   *)
(* question, and deactivates first the subquestions and then the question.  *)
(* A row that was written stays locked until the end of its transaction; a  *)
(* unique index makes a second insert wait for the first.  Rows of others   *)
(* are seen once committed (READ COMMITTED).                                *)
(*                                                                         *)
(* The texts of a save are named by the save.  The subquestions of a slot   *)
(* are one row.  Rows: NoRow, or [by, live], the save whose text it has and *)
(* is_active.                                                              *)
(*                                                                         *)
(* An operator F_Bug is F with a plausible bug.  No specification uses it:  *)
(* put in the place of F, it shows that the properties notice.              *)
(***************************************************************************)
EXTENDS Integers, FiniteSets

CONSTANTS Saves, Nobody, NoRow,
          LastSlot    \* TOTAL_ITEM_QUESTIONS

ASSUME SavesAssumption ==
  /\ LastSlot \in Nat \ {0} /\ Nobody \notin Saves
  /\ NoRow \notin [by : Saves \cup {Nobody}, live : BOOLEAN]

Slots == 1 .. LastSlot
Tables == {"question", "sub"}
SlotRows == Tables \X Slots
Contents == [by : Saves \cup {Nobody}, live : BOOLEAN] \cup {NoRow}

VARIABLES
  stored,          \* committed contents of a row
  lock, pending,   \* the transaction that wrote it, and what it wrote
  step, turn,        \* a save: its step and how many slots it has begun
  payload, given,  \* of a slot: "empty", "text", "both"; the order of the request
  missed,          \* history: slots that a save skipped because it saw no row
  last             \* history: the save that committed last

rowVars == <<stored, lock, pending>>
payloadVars == <<payload, given>>
historyVars == <<missed, last>>
saveVars == <<rowVars, step, turn, payloadVars, historyVars>>

SaveEnds == {"saved", "failed"}
Steps == {"slot", "insert", "sub", "insertSub", "off", "offQuestion", "commit", "read"}
InTransaction(s) == step[s] \in Steps \ {"read"}

Orders == {f \in [Slots -> Slots] : \A i, j \in Slots : i # j => f[i] # f[j]}

SaveTypeOK ==
  /\ stored \in [SlotRows -> Contents] /\ pending \in [SlotRows -> Contents]
  /\ lock \in [SlotRows -> Saves \cup {Nobody}]
  /\ \A x \in SlotRows : /\ lock[x] = Nobody => pending[x] = NoRow
                     /\ lock[x] # Nobody => InTransaction(lock[x]) /\ pending[x] # NoRow
  /\ \A q \in Slots : stored[<<"sub", q>>] # NoRow => stored[<<"question", q>>] # NoRow
  /\ step \in [Saves -> {"new"} \cup Steps \cup SaveEnds]
  /\ turn \in [Saves -> 0 .. LastSlot]
  /\ payload \in [Saves -> [Slots -> {"empty", "text", "both"}]]
  /\ given \in [Saves -> Orders]
  /\ missed \in [Saves -> SUBSET Slots]
  /\ last \in Saves \cup {Nobody}

\* An item that was saved before has some of the rows, or has been emptied.
SaveInit ==
  /\ \E old \in [Slots -> {"none", "question", "both", "emptied"}] :
       stored = [x \in SlotRows |->
         IF old[x[2]] \in {"both", "emptied", x[1]}
           THEN [by |-> Nobody, live |-> old[x[2]] # "emptied"] ELSE NoRow]
  /\ lock = [x \in SlotRows |-> Nobody] /\ pending = [x \in SlotRows |-> NoRow]
  /\ step = [s \in Saves |-> "new"] /\ turn = [s \in Saves |-> 0]
  /\ payload = [s \in Saves |-> [q \in Slots |-> "empty"]]
  /\ given = [s \in Saves |-> [i \in Slots |-> i]]
  /\ missed = [s \in Saves |-> {}] /\ last = Nobody

-----------------------------------------------------------------------------
SaveGoes(s, label) == step' = [step EXCEPT ![s] = label]

SlotAt_AsGiven(s, i) == given[s][i]
\* orderedQuestions
SlotAt(s, i) == i

Slot(s) == SlotAt(s, turn[s])

NextSlot(s) == IF turn[s] < LastSlot
                 THEN SaveGoes(s, "slot") /\ turn' = [turn EXCEPT ![s] = @ + 1]
                 ELSE SaveGoes(s, "commit") /\ UNCHANGED turn

\* The row as this transaction sees it.
SeenBy(s, x) == IF lock[x] = s THEN pending[x] ELSE stored[x]

\* Written when no other transaction has it, otherwise waited for.
Write(s, x, content) ==
  /\ lock[x] \in {Nobody, s}
  /\ lock' = [lock EXCEPT ![x] = s]
  /\ pending' = [pending EXCEPT ![x] = content]
  /\ UNCHANGED stored

NewText(s) == [by |-> s, live |-> TRUE]
Deactivated(s, x) == [by |-> SeenBy(s, x).by, live |-> FALSE]

\* upsertCatalogQuestionsController checks the payload and begins.
BeginSave(s) ==
  /\ step[s] = "new" /\ SaveGoes(s, "slot")
  /\ turn' = [turn EXCEPT ![s] = 1]
  /\ \E p \in [Slots -> {"empty", "text", "both"}] : payload' = [payload EXCEPT ![s] = p]
  /\ \E o \in Orders : given' = [given EXCEPT ![s] = o]
  /\ UNCHANGED <<rowVars, historyVars>>

(* A slot with a text.                                                       *)

UpdateQuestion(s) ==
  LET x == <<"question", Slot(s)>> IN
  /\ step[s] = "slot" /\ payload[s][Slot(s)] # "empty"
  /\ IF SeenBy(s, x) = NoRow
       THEN SaveGoes(s, "insert") /\ UNCHANGED rowVars
       ELSE SaveGoes(s, "sub") /\ Write(s, x, NewText(s))
  /\ UNCHANGED <<turn, payloadVars, historyVars>>

\* The unique index: a row committed meanwhile is an error, see AbortSave.
InsertQuestion(s) ==
  LET x == <<"question", Slot(s)>> IN
  /\ step[s] = "insert" /\ SeenBy(s, x) = NoRow
  /\ SaveGoes(s, "sub") /\ Write(s, x, NewText(s))
  /\ UNCHANGED <<turn, payloadVars, historyVars>>

UpdateSub(s) ==
  LET x == <<"sub", Slot(s)>> IN
  /\ step[s] = "sub"
  /\ \/ /\ payload[s][Slot(s)] = "both" /\ SeenBy(s, x) = NoRow
        /\ SaveGoes(s, "insertSub") /\ UNCHANGED <<rowVars, turn>>
     \/ /\ payload[s][Slot(s)] = "both" /\ SeenBy(s, x) # NoRow
        /\ Write(s, x, NewText(s)) /\ NextSlot(s)
     \/ /\ payload[s][Slot(s)] = "text" /\ SeenBy(s, x) # NoRow
        /\ Write(s, x, Deactivated(s, x)) /\ NextSlot(s)
     \/ /\ payload[s][Slot(s)] = "text" /\ SeenBy(s, x) = NoRow
        /\ UNCHANGED rowVars /\ NextSlot(s)
  /\ UNCHANGED <<payloadVars, historyVars>>

InsertSub(s) ==
  LET x == <<"sub", Slot(s)>> IN
  /\ step[s] = "insertSub" /\ SeenBy(s, x) = NoRow
  /\ Write(s, x, NewText(s)) /\ NextSlot(s)
  /\ UNCHANGED <<payloadVars, historyVars>>

(* deactivateCatalogQuestionSlotTx                                           *)

FindSlot_SkipsInactive(s) ==
  LET found == SeenBy(s, <<"question", Slot(s)>>) IN
  /\ step[s] = "slot" /\ payload[s][Slot(s)] = "empty"
  /\ IF found = NoRow
       THEN NextSlot(s) /\ missed' = [missed EXCEPT ![s] = @ \cup {Slot(s)}]
       ELSE IF ~found.live THEN NextSlot(s) /\ UNCHANGED missed
       ELSE SaveGoes(s, "off") /\ UNCHANGED <<turn, missed>>
  /\ UNCHANGED <<rowVars, payloadVars, last>>

FindSlot(s) ==
  /\ step[s] = "slot" /\ payload[s][Slot(s)] = "empty"
  /\ IF SeenBy(s, <<"question", Slot(s)>>) = NoRow
       THEN NextSlot(s) /\ missed' = [missed EXCEPT ![s] = @ \cup {Slot(s)}]
       ELSE SaveGoes(s, "off") /\ UNCHANGED <<turn, missed>>
  /\ UNCHANGED <<rowVars, payloadVars, last>>

DeactivateSub(s) ==
  LET x == <<"sub", Slot(s)>> IN
  /\ step[s] = "off" /\ SaveGoes(s, "offQuestion")
  /\ IF SeenBy(s, x) = NoRow THEN UNCHANGED rowVars ELSE Write(s, x, Deactivated(s, x))
  /\ UNCHANGED <<turn, payloadVars, historyVars>>

DeactivateQuestion(s) ==
  LET x == <<"question", Slot(s)>> IN
  /\ step[s] = "offQuestion"
  /\ Write(s, x, Deactivated(s, x)) /\ NextSlot(s)
  /\ UNCHANGED <<payloadVars, historyVars>>

(* The end of the transaction, and the answer.                               *)

Release(s) ==
  /\ lock' = [x \in SlotRows |-> IF lock[x] = s THEN Nobody ELSE lock[x]]
  /\ pending' = [x \in SlotRows |-> IF lock[x] = s THEN NoRow ELSE pending[x]]

CommitSave(s) ==
  /\ step[s] = "commit" /\ SaveGoes(s, "read")
  /\ stored' = [x \in SlotRows |-> IF lock[x] = s THEN pending[x] ELSE stored[x]]
  /\ Release(s)
  /\ last' = s
  /\ UNCHANGED <<turn, payloadVars, missed>>

\* A statement fails: a unique violation, a deadlock that the database breaks,
\* a lost connection.
AbortSave(s) ==
  /\ InTransaction(s) /\ SaveGoes(s, "failed")
  /\ Release(s)
  /\ UNCHANGED <<stored, turn, payloadVars, historyVars>>

\* getCatalogQuestionsSnapshot, in the same try.
ReadSnapshot(s) ==
  /\ step[s] = "read" /\ (SaveGoes(s, "saved") \/ SaveGoes(s, "failed"))
  /\ UNCHANGED <<rowVars, turn, payloadVars, historyVars>>

SaveNext ==
  \E s \in Saves :
    \/ BeginSave(s) \/ UpdateQuestion(s) \/ InsertQuestion(s) \/ UpdateSub(s) \/ InsertSub(s)
    \/ FindSlot(s) \/ DeactivateSub(s) \/ DeactivateQuestion(s)
    \/ CommitSave(s) \/ AbortSave(s) \/ ReadSnapshot(s)

SaveSpec == SaveInit /\ [][SaveNext]_saveVars

-----------------------------------------------------------------------------
(* Properties.                                                               *)

\* What the form shows of a slot, and what a save asked it to show.
FormShows(q) ==
  LET question == stored[<<"question", q>>]  sub == stored[<<"sub", q>>] IN
  IF question = NoRow THEN {}
  ELSE IF ~question.live THEN {}
  ELSE {<<"question", question.by>>}
         \cup (IF sub = NoRow THEN {} ELSE IF sub.live THEN {<<"sub", sub.by>>} ELSE {})
Asked(s, q) ==
  CASE payload[s][q] = "empty" -> {}
    [] payload[s][q] = "text"  -> {<<"question", s>>}
    [] payload[s][q] = "both"  -> {<<"question", s>>, <<"sub", s>>}

(* Simultaneous saves are not mixed: the form shows exactly what the save    *)
(* that committed last asked for, in every slot.  The row of the first slot  *)
(* is their only common lock, so that this holds once that row exists, and   *)
(* no save skipped the first slot because it saw no row.                     *)
FirstSlotSerializes ==
  last # Nobody /\ (\A s \in Saves : 1 \notin missed[s])
    => \A q \in Slots : FormShows(q) = Asked(last, q)

\* The row that a save waits for.
WaitedFor(s) ==
  LET q == Slot(s) IN
  CASE step[s] = "slot" /\ payload[s][q] # "empty"          -> {<<"question", q>>}
    [] step[s] \in {"insert", "offQuestion"}                -> {<<"question", q>>}
    [] step[s] \in {"sub", "insertSub", "off"}              -> {<<"sub", q>>}
    [] OTHER                                              -> {}
Waits(s, t) ==
  /\ s # t
  /\ \E x \in WaitedFor(s) :
       lock[x] = t /\ (SeenBy(s, x) # NoRow \/ step[s] \in {"insert", "insertSub"})

(* Saves wait in a ring, so that the database must abort one of them, only   *)
(* when one fills a slot that the other empties: otherwise all lock the rows *)
(* in the same order, whatever the order of the slots in the requests.       *)
DeadlockNeedsOppositeSaves ==
  \A s, t \in Saves :
    Waits(s, t) /\ Waits(t, s) =>
      \E q \in Slots : payload[s][q] = "empty" <=> payload[t][q] # "empty"

(* The API document on update_failed: a failed save has saved nothing.       *)
FailedMeansNothingSaved ==
  \A s \in Saves : step[s] = "failed" =>
    \A x \in SlotRows : stored[x] = NoRow \/ stored[x].by # s
=============================================================================
