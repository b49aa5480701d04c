------------------------------ MODULE JobLease ------------------------------
(***************************************************************************)
(* What the queue of AI jobs promises, whatever the workers do: a job is    *)
(* opened once and closed once, its progress belongs to one worker at a     *)
(* time, and only that worker moves it, one step at a time.  IaJobQueue     *)
(* implements this specification with a revision number and no owner field. *)
(***************************************************************************)
EXTENDS Integers

CONSTANTS Jobs,      \* the jobs that may ever be requested
          Workers,   \* the runs of drainJobs that may be alive at once
          Nobody     \* the owner of a job that no worker owns

VARIABLES phase, owner, done

leaseVars == <<phase, owner, done>>

LeaseInit ==
  /\ phase = [j \in Jobs |-> "absent"]
  /\ owner = [j \in Jobs |-> Nobody]
  /\ done = [j \in Jobs |-> 0]

Open(j) ==
  /\ phase[j] = "absent"
  /\ phase' = [phase EXCEPT ![j] = "open"]
  /\ UNCHANGED <<owner, done>>

\* A worker takes an open job, also from an owner that stopped renewing.
Acquire(w, j) ==
  /\ phase[j] = "open"
  /\ owner' = [owner EXCEPT ![j] = w]
  /\ UNCHANGED <<phase, done>>

Advance(w, j) ==
  /\ phase[j] = "open"
  /\ owner[j] = w
  /\ done' = [done EXCEPT ![j] = @ + 1]
  /\ UNCHANGED <<phase, owner>>

Release(w, j) ==
  /\ owner[j] = w
  /\ owner' = [owner EXCEPT ![j] = Nobody]
  /\ UNCHANGED <<phase, done>>

\* The end of a job may store its last step in the same write.
Close(w, j) ==
  /\ phase[j] = "open"
  /\ owner[j] = w
  /\ phase' = [phase EXCEPT ![j] = "closed"]
  /\ owner' = [owner EXCEPT ![j] = Nobody]
  /\ \/ done' = [done EXCEPT ![j] = @ + 1]
     \/ done' = done

\* The company is deleted and its jobs go with it.
Withdraw(S) ==
  /\ \A j \in S : phase[j] # "absent"
  /\ phase' = [j \in Jobs |-> IF j \in S THEN "closed" ELSE phase[j]]
  /\ owner' = [j \in Jobs |-> IF j \in S THEN Nobody ELSE owner[j]]
  /\ UNCHANGED done

LeaseNext ==
  \/ \E j \in Jobs : Open(j)
  \/ \E w \in Workers, j \in Jobs :
       Acquire(w, j) \/ Advance(w, j) \/ Release(w, j) \/ Close(w, j)
  \/ \E S \in SUBSET Jobs : Withdraw(S)

LeaseSpec == LeaseInit /\ [][LeaseNext]_leaseVars
=============================================================================
