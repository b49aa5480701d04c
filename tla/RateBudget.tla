----------------------------- MODULE RateBudget -----------------------------
(***************************************************************************)
(* reserveIaBudget: one token for one call to the AI provider, taken in the *)
(* window of the day and in the window of the minute of a company, in one   *)
(* transaction of the table ia_rate_budget.                                 *)
(*                                                                         *)
(* An upsert locks its row until the transaction ends, so a second caller   *)
(* waits there and then reads what was committed.  now() is the start of    *)
(* the transaction: a caller that waits past midnight still pays in the     *)
(* windows in which it began.                                              *)
(*                                                                         *)
(* An operator F_Bug is F with a plausible bug.  No specification uses it:  *)
(* put in the place of F, it shows that the properties notice.              *)
(***************************************************************************)
EXTENDS Integers, FiniteSets

CONSTANTS Callers, Nobody,
          RPM, RPD,          \* limits per minute and per day; 0 is no limit
          MinutesPerDay,
          LastMinute         \* bound: the clock stops there

ASSUME LimitsAssumption == RPM \in Nat /\ RPD \in Nat
ASSUME ClockAssumption == LastMinute \in Nat /\ MinutesPerDay \in Nat \ {0}
ASSUME NobodyAssumption == Nobody \notin Callers

Minutes == 0 .. LastMinute
DayOf(m) == m \div MinutesPerDay
Days == {DayOf(m) : m \in Minutes}

VARIABLES
  now,                     \* the minute of the database's clock
  dayUsed, minuteUsed,     \* committed rows
  dayLock, minuteLock,     \* the transaction that holds a row
  pc,                      \* where a caller is
  start                    \* now() of its transaction

vars == <<now, dayUsed, minuteUsed, dayLock, minuteLock, pc, start>>

Pcs == {"idle", "day", "minute", "commit", "ok", "no_day", "no_minute", "error"}
InTransaction(p) == pc[p] \in {"day", "minute", "commit"}

TypeOK ==
  /\ now \in Minutes
  /\ dayUsed \in [Days -> Nat] /\ minuteUsed \in [Minutes -> Nat]
  /\ dayLock \in [Days -> Callers \cup {Nobody}]
  /\ minuteLock \in [Minutes -> Callers \cup {Nobody}]
  /\ pc \in [Callers -> Pcs]
  /\ start \in [Callers -> Minutes]

Init ==
  /\ now = 0
  /\ dayUsed = [d \in Days |-> 0] /\ minuteUsed = [m \in Minutes |-> 0]
  /\ dayLock = [d \in Days |-> Nobody] /\ minuteLock = [m \in Minutes |-> Nobody]
  /\ pc = [p \in Callers |-> "idle"]
  /\ start = [p \in Callers |-> 0]

GoTo(p, label) == pc' = [pc EXCEPT ![p] = label]

Unlock(p) ==
  /\ dayLock' = [d \in Days |-> IF dayLock[d] = p THEN Nobody ELSE dayLock[d]]
  /\ minuteLock' = [m \in Minutes |-> IF minuteLock[m] = p THEN Nobody ELSE minuteLock[m]]

Rollback_KeepsLocks(p, answer) ==
  GoTo(p, answer) /\ UNCHANGED <<dayUsed, minuteUsed, dayLock, minuteLock>>

Rollback(p, answer) ==
  /\ Unlock(p)
  /\ GoTo(p, answer)
  /\ UNCHANGED <<dayUsed, minuteUsed>>

\* A call of reserveIaBudget; without limits it never reaches the database.
Begin(p) ==
  /\ pc[p] \notin {"day", "minute", "commit"}
  /\ start' = [start EXCEPT ![p] = now]
  /\ GoTo(p, IF RPM = 0 /\ RPD = 0 THEN "ok" ELSE "day")
  /\ UNCHANGED <<now, dayUsed, minuteUsed, dayLock, minuteLock>>

\* WHERE used < limit does not hold for the row.
Spent(used, limit) == limit > 0 /\ used >= limit

\* INSERT ... ON CONFLICT DO UPDATE ... WHERE used < limit, and a rollback when
\* no row comes back.
ReserveDay(p) ==
  LET d == DayOf(start[p]) IN
  /\ pc[p] = "day"
  /\ RPD > 0 => dayLock[d] = Nobody
  /\ IF Spent(dayUsed[d], RPD)
       THEN Rollback(p, "no_day")
       ELSE /\ dayLock' = IF RPD > 0 THEN [dayLock EXCEPT ![d] = p] ELSE dayLock
            /\ GoTo(p, "minute")
            /\ UNCHANGED <<dayUsed, minuteUsed, minuteLock>>
  /\ UNCHANGED <<now, start>>

ReserveMinute_OfTheClock(p) ==
  LET m == now IN
  /\ pc[p] = "minute"
  /\ RPM > 0 => minuteLock[m] = Nobody
  /\ IF Spent(minuteUsed[m], RPM)
       THEN Rollback(p, "no_minute")
       ELSE /\ minuteLock' = IF RPM > 0 THEN [minuteLock EXCEPT ![m] = p] ELSE minuteLock
            /\ GoTo(p, "commit")
            /\ UNCHANGED <<dayUsed, minuteUsed, dayLock>>
  /\ UNCHANGED <<now, start>>

ReserveMinute(p) ==
  LET m == start[p] IN
  /\ pc[p] = "minute"
  /\ RPM > 0 => minuteLock[m] = Nobody
  /\ IF Spent(minuteUsed[m], RPM)
       THEN Rollback(p, "no_minute")
       ELSE /\ minuteLock' = IF RPM > 0 THEN [minuteLock EXCEPT ![m] = p] ELSE minuteLock
            /\ GoTo(p, "commit")
            /\ UNCHANGED <<dayUsed, minuteUsed, dayLock>>
  /\ UNCHANGED <<now, start>>

\* The acknowledgement of the commit may be lost: the token is spent and the
\* caller sees an error.
Commit(p) ==
  /\ pc[p] = "commit"
  /\ dayUsed' = [d \in Days |-> dayUsed[d] + IF dayLock[d] = p THEN 1 ELSE 0]
  /\ minuteUsed' = [m \in Minutes |-> minuteUsed[m] + IF minuteLock[m] = p THEN 1 ELSE 0]
  /\ Unlock(p)
  /\ GoTo(p, "ok") \/ GoTo(p, "error")
  /\ UNCHANGED <<now, start>>

\* The connection is lost, or the process dies, before the commit.
Abort(p) ==
  /\ InTransaction(p)
  /\ Rollback(p, "error")
  /\ UNCHANGED <<now, start>>

Tick ==
  /\ now < LastMinute
  /\ now' = now + 1
  /\ UNCHANGED <<dayUsed, minuteUsed, dayLock, minuteLock, pc, start>>

Next ==
  \/ Tick
  \/ \E p \in Callers : Begin(p) \/ ReserveDay(p) \/ ReserveMinute(p) \/ Commit(p) \/ Abort(p)

Spec == Init /\ [][Next]_vars

(* The database hands a row lock to those that wait for it in turn, and a     *)
(* transaction that reached its end commits.                                *)
FairSpec ==
  /\ Spec
  /\ \A p \in Callers :
       SF_vars(ReserveDay(p)) /\ SF_vars(ReserveMinute(p)) /\ WF_vars(Commit(p))

-----------------------------------------------------------------------------
(* The calls of a window never exceed its limit, however many workers ask at *)
(* the same time and whenever they die.                                     *)
LimitsHold ==
  /\ RPD > 0 => \A d \in Days : dayUsed[d] <= RPD
  /\ RPM > 0 => \A m \in Minutes : minuteUsed[m] <= RPM

\* The calls that the minutes of a day have counted.
TokensOf(d) ==
  {t \in Minutes \X (1 .. RPM) : DayOf(t[1]) = d /\ t[2] <= minuteUsed[t[1]]}

(* No token leaks: what a day counts is what its minutes count, so a caller   *)
(* that was refused by the minute gave its token of the day back.           *)
NoLeakedToken ==
  RPD > 0 /\ RPM > 0 => \A d \in Days : dayUsed[d] = Cardinality(TokensOf(d))

(* Whoever asks is answered: no two callers wait for each other's rows.      *)
EveryCallAnswered == \A p \in Callers : InTransaction(p) ~> ~InTransaction(p)

(* The abstract promise: to whoever does not look at the locks, a call is     *)
(* asked for and then granted in both windows, or refused by a full one, in  *)
(* one step, although the transaction takes the windows one after the other. *)
callOf == [p \in Callers |-> IF InTransaction(p) THEN "asking" ELSE pc[p]]
Budget == INSTANCE TokenBudget
            WITH PerMinute <- RPM, PerDay <- RPD, MinutesOfADay <- MinutesPerDay,
                 LastInstant <- LastMinute, clock <- now, paidOfDay <- dayUsed,
                 paidOfMinute <- minuteUsed, call <- callOf, asked <- start
ImplementsBudget == Budget!BudgetSpec
=============================================================================
