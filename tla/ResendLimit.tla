---------------------------- MODULE ResendLimit ----------------------------
(***************************************************************************)
(* POST /public/auth/resend-confirmation: reserveResend counts a request    *)
(* for its IP and for its e-mail, and holds the e-mail back for a while     *)
(* after every confirmation, in one transaction over table auth_rate_limit; *)
(* afterwards it deletes rows that expired.  Requests for one e-mail come   *)
(* from several IPs, and any instance may freeze, or lose its connection.   *)
(*                                                                         *)
(* now() is the start of the transaction, however long it waited.  Writes   *)
(* are seen by others at the commit; a row that is locked makes others      *)
(* wait, and so does the uncommitted insert of a key.                       *)
(*                                                                         *)
(* An operator F_Bug is F with a plausible bug.  No specification uses it:  *)
(* put in the place of F, it shows that the properties notice.              *)
(***************************************************************************)
EXTENDS Naturals, FiniteSets, Sequences

CONSTANTS
  Resends,                 \* the requests
  Ips, IpOf,
  IpMax, IpWindow, EmailMax, EmailWindow, Cooldown,
  Nothing,
  LastSecond               \* bound: the clock

EmailKey == "email"
CooldownKey == "cooldown"
LimitKeys == Ips \cup {EmailKey, CooldownKey}

\* An IP is no name of the keys of the e-mail, nor is Nothing a request or a row.
ASSUME ResendLimitsAssumption ==
  /\ {IpMax, IpWindow, EmailMax, EmailWindow, Cooldown} \subseteq Nat /\ EmailMax > 0
  /\ IpOf \in [Resends -> Ips] /\ EmailKey \notin Ips /\ CooldownKey \notin Ips
  /\ Nothing \notin Resends \cup [used : Nat, expires : Nat]

VARIABLES
  limits,   \* committed rows: [used, expires], or Nothing
  wrote,    \* of each transaction: the rows it wrote
  locks,    \* of each row: the transaction that holds it, or Nothing
  stage,    \* "idle", "ip", "seed", "lock", "decide", "granted", "limited",
            \* "cleanup", "answered", "unavailable"
  began,    \* now() of each transaction
  ends,     \* when its windows end: [ip, email]
  second,
  grants    \* history: the reservations in the order of their commits

limitVars == <<limits, wrote, locks, stage, began, ends, second, grants>>

LimitInit ==
  /\ limits = [k \in LimitKeys |-> Nothing]
  /\ wrote = [r \in Resends |-> [k \in {} |-> Nothing]]
  /\ locks = [k \in LimitKeys |-> Nothing]
  /\ stage = [r \in Resends |-> "idle"]
  /\ began = [r \in Resends |-> 0] /\ ends = [r \in Resends |-> [ip |-> 0, email |-> 0]]
  /\ second = 0 /\ grants = <<>>

Moves(r, next) == stage' = [stage EXCEPT ![r] = next]
Free(r, k) == locks[k] \in {Nothing, r}
Holds(r, keys) == locks' = [k \in LimitKeys |-> IF k \in keys THEN r ELSE locks[k]]
Writes(r, rows) ==
  wrote' = [wrote EXCEPT ![r] = [k \in DOMAIN @ \cup DOMAIN rows |-> IF k \in DOMAIN rows THEN rows[k] ELSE @[k]]]
Seen(r, k) == IF k \in DOMAIN wrote[r] THEN wrote[r][k] ELSE limits[k]
One(k, row) == [x \in {k} |-> row]

-----------------------------------------------------------------------------
BeginResend(r) ==
  /\ stage[r] = "idle" /\ Moves(r, "ip")
  /\ began' = [began EXCEPT ![r] = second]
  /\ UNCHANGED <<limits, wrote, locks, ends, second, grants>>

\* consume: a row of a window that is over starts another.
Consumed(row, at, limit, window) ==
  IF row = Nothing \/ row.expires <= at THEN [used |-> 1, expires |-> at + window]
  ELSE [row EXCEPT !.used = IF row.used + 1 < limit + 1 THEN row.used + 1 ELSE limit + 1]

ConsumeIp(r) ==
  /\ stage[r] = "ip" /\ Free(r, IpOf[r])
  /\ LET row == Consumed(Seen(r, IpOf[r]), began[r], IpMax, IpWindow) IN
     /\ Writes(r, One(IpOf[r], row)) /\ ends' = [ends EXCEPT ![r].ip = row.expires]
     /\ Moves(r, IF row.used <= IpMax THEN "seed" ELSE "limited")
  /\ Holds(r, {IpOf[r]})
  /\ UNCHANGED <<limits, began, second, grants>>

\* INSERT ... DO NOTHING: waits for another's insert; a row that is there is not held.
SeedEmail(r) ==
  /\ stage[r] = "seed" /\ Moves(r, "lock")
  /\ IF limits[EmailKey] = Nothing
       THEN /\ Free(r, EmailKey) /\ Holds(r, {EmailKey})
            /\ Writes(r, One(EmailKey, [used |-> 0, expires |-> began[r] + EmailWindow]))
       ELSE UNCHANGED <<wrote, locks>>
  /\ UNCHANGED <<limits, began, ends, second, grants>>

LockEmail_NoWait(r) ==
  /\ stage[r] = "lock" /\ Moves(r, IF Seen(r, EmailKey) = Nothing THEN "unavailable" ELSE "decide")
  /\ UNCHANGED <<limits, wrote, locks, began, ends, second, grants>>

\* SELECT ... FOR UPDATE; a row that was cleaned up since leaves nothing to read.
LockEmail(r) ==
  /\ stage[r] = "lock" /\ Free(r, EmailKey)
  /\ IF Seen(r, EmailKey) = Nothing
       THEN /\ Moves(r, "unavailable") /\ wrote' = [wrote EXCEPT ![r] = [k \in {} |-> Nothing]]
            /\ locks' = [k \in LimitKeys |-> IF locks[k] = r THEN Nothing ELSE locks[k]]
       ELSE Moves(r, "decide") /\ Holds(r, {EmailKey}) /\ UNCHANGED wrote
  /\ UNCHANGED <<limits, began, ends, second, grants>>

Cooling(r) == limits[CooldownKey] # Nothing /\ limits[CooldownKey].expires > began[r]
QuotaSpent(r) == LET row == Seen(r, EmailKey) IN
  row # Nothing /\ row.expires > began[r] /\ row.used >= EmailMax

\* The e-mail is held while the cooldown is read and both are written.
Decide(r) ==
  /\ stage[r] = "decide"
  /\ IF Cooling(r) \/ QuotaSpent(r) THEN Moves(r, "limited") /\ UNCHANGED <<wrote, locks, ends>>
     ELSE LET row == Consumed(Seen(r, EmailKey), began[r], EmailMax, EmailWindow) IN
          /\ Moves(r, "granted")
          /\ Writes(r, [k \in {EmailKey, CooldownKey} |->
                          IF k = EmailKey THEN row ELSE [used |-> 1, expires |-> began[r] + Cooldown]])
          /\ Holds(r, {CooldownKey}) /\ ends' = [ends EXCEPT ![r].email = row.expires]
  /\ UNCHANGED <<limits, began, second, grants>>

\* A request that is limited commits too: its attempt counts for the IP.
CommitResend(r) ==
  /\ stage[r] \in {"granted", "limited"}
  /\ limits' = [k \in LimitKeys |-> Seen(r, k)]
  /\ locks' = [k \in LimitKeys |-> IF locks[k] = r THEN Nothing ELSE locks[k]]
  /\ wrote' = [wrote EXCEPT ![r] = [k \in {} |-> Nothing]]
  /\ IF stage[r] = "granted"
       THEN grants' = Append(grants, [at |-> began[r], done |-> second, ip |-> IpOf[r],
                                      ipEnds |-> ends[r].ip, emailEnds |-> ends[r].email])
       ELSE UNCHANGED grants
  /\ Moves(r, "cleanup")
  /\ UNCHANGED <<began, ends, second>>

\* A statement, or the connection, fails: nothing was counted.
AbortResend(r) ==
  /\ stage[r] \in {"ip", "seed", "lock", "decide", "granted", "limited"}
  /\ Moves(r, "unavailable") /\ wrote' = [wrote EXCEPT ![r] = [k \in {} |-> Nothing]]
  /\ locks' = [k \in LimitKeys |-> IF locks[k] = r THEN Nothing ELSE locks[k]]
  /\ UNCHANGED <<limits, began, ends, second, grants>>

\* The rows that expired, SKIP LOCKED, or a failure that is ignored; then the
\* confirmation, whose failure does not show in the answer.
Cleanup(r) ==
  /\ stage[r] = "cleanup" /\ Moves(r, "answered")
  /\ \/ limits' = [k \in LimitKeys |->
          IF limits[k] # Nothing /\ limits[k].expires <= second /\ locks[k] = Nothing THEN Nothing ELSE limits[k]]
     \/ UNCHANGED limits
  /\ UNCHANGED <<wrote, locks, began, ends, second, grants>>

ResendTick ==
  /\ second < LastSecond /\ second' = second + 1
  /\ UNCHANGED <<limits, wrote, locks, stage, began, ends, grants>>

LimitNext ==
  \/ \E r \in Resends :
       \/ BeginResend(r) \/ ConsumeIp(r) \/ SeedEmail(r) \/ LockEmail(r) \/ Decide(r)
       \/ CommitResend(r) \/ AbortResend(r) \/ Cleanup(r)
  \/ ResendTick

LimitSpec == LimitInit /\ [][LimitNext]_limitVars

-----------------------------------------------------------------------------
\* The grants that one window counted while it lasted.
Counted(window, end) == {i \in DOMAIN grants : grants[i][window] = end /\ grants[i].done < end}

(* From whatever IPs they come, a confirmation is granted only when the       *)
(* cooldown of every earlier one is over, no window of the e-mail or of an   *)
(* IP grants more than its limit while it lasts, and a new window of the     *)
(* e-mail only grants when the one before is over, however long a            *)
(* transaction waited after its now() and whatever was cleaned up meanwhile. *)
ResendLimitsHold ==
  \A j \in DOMAIN grants :
    /\ Cardinality(Counted("emailEnds", grants[j].emailEnds)) <= EmailMax
    /\ Cardinality({i \in Counted("ipEnds", grants[j].ipEnds) : grants[i].ip = grants[j].ip}) <= IpMax
    /\ \A i \in 1 .. j - 1 :
         /\ grants[j].done >= grants[i].at + Cooldown
         /\ grants[i].emailEnds # grants[j].emailEnds => grants[j].done >= grants[i].emailEnds
=============================================================================
