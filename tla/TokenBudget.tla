----------------------------- MODULE TokenBudget -----------------------------
(***************************************************************************)
(* What reserveIaBudget promises, whatever its transactions do: a call is   *)
(* asked for in one minute and answered in one step.  It is granted only    *)
(* while the minute and the day have room, and is then paid in both; it is  *)
(* refused only by a window that is full, and then it is paid in none.  An  *)
(* error says nothing, but what was paid was paid in both.  RateBudget      *)
(* implements this specification with row locks and no step of this size.   *)
(***************************************************************************)
EXTENDS Integers

CONSTANTS Callers,
          PerMinute, PerDay,   \* limits; 0 is no limit
          MinutesOfADay,
          LastInstant          \* bound: the clock stops there

VARIABLES clock, paidOfDay, paidOfMinute, call, asked

budgetVars == <<clock, paidOfDay, paidOfMinute, call, asked>>

Instants == 0 .. LastInstant
Day(m) == m \div MinutesOfADay

BudgetInit ==
  /\ clock = 0
  /\ paidOfDay = [d \in {Day(m) : m \in Instants} |-> 0]
  /\ paidOfMinute = [m \in Instants |-> 0]
  /\ call = [p \in Callers |-> "idle"]
  /\ asked = [p \in Callers |-> 0]

Answer(p, answer) == call' = [call EXCEPT ![p] = answer]

\* Without limits there is nothing to wait for.
Ask(p) ==
  /\ call[p] # "asking"
  /\ Answer(p, IF PerMinute = 0 /\ PerDay = 0 THEN "ok" ELSE "asking")
  /\ asked' = [asked EXCEPT ![p] = clock]
  /\ UNCHANGED <<clock, paidOfDay, paidOfMinute>>

Full(paid, limit) == limit > 0 /\ paid >= limit

\* A window without limit counts nothing.
OneMore(limit) == IF limit > 0 THEN 1 ELSE 0

Grant(p) ==
  /\ call[p] = "asking"
  /\ ~Full(paidOfDay[Day(asked[p])], PerDay)
  /\ ~Full(paidOfMinute[asked[p]], PerMinute)
  /\ paidOfDay' = [paidOfDay EXCEPT ![Day(asked[p])] = @ + OneMore(PerDay)]
  /\ paidOfMinute' = [paidOfMinute EXCEPT ![asked[p]] = @ + OneMore(PerMinute)]
  /\ Answer(p, "ok") \/ Answer(p, "error")
  /\ UNCHANGED <<clock, asked>>

Refuse(p) ==
  /\ call[p] = "asking"
  /\ \/ Full(paidOfDay[Day(asked[p])], PerDay) /\ Answer(p, "no_day")
     \/ Full(paidOfMinute[asked[p]], PerMinute) /\ Answer(p, "no_minute")
  /\ UNCHANGED <<clock, paidOfDay, paidOfMinute, asked>>

Fail(p) ==
  /\ call[p] = "asking"
  /\ Answer(p, "error")
  /\ UNCHANGED <<clock, paidOfDay, paidOfMinute, asked>>

MinutePasses ==
  /\ clock < LastInstant
  /\ clock' = clock + 1
  /\ UNCHANGED <<paidOfDay, paidOfMinute, call, asked>>

BudgetNext ==
  \/ MinutePasses
  \/ \E p \in Callers : Ask(p) \/ Grant(p) \/ Refuse(p) \/ Fail(p)

BudgetSpec == BudgetInit /\ [][BudgetNext]_budgetVars
=============================================================================
