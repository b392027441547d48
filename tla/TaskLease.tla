------------------------------ MODULE TaskLease ------------------------------
(***************************************************************************)
(* What a lock with an expiry and an owner promises to the periodic tasks  *)
(* that share it, whatever the key-value store behind it looks like: a     *)
(* lease.  At most one execution owns the lease.  An execution may outlive *)
(* its lease; from then on it is `lapsed', and the end of a lapsed         *)
(* execution leaves the lease of its successor alone.                      *)
(***************************************************************************)
CONSTANTS Exec,     \* the executions that compete for the lease
          NoExec    \* the owner of a lease nobody holds

VARIABLES owner,    \* the execution that holds the lease, or NoExec
          lapsed    \* the executions still at work after losing it

leaseVars == <<owner, lapsed>>

LeaseTypeOK ==
  /\ owner \in Exec \cup {NoExec}
  /\ lapsed \subseteq Exec

LeaseInit ==
  /\ owner = NoExec
  /\ lapsed = {}

Grant(e) ==
  /\ owner = NoExec
  /\ e \notin lapsed
  /\ owner' = e
  /\ UNCHANGED lapsed

\* The owner ends, or dies.
Return(e) ==
  /\ owner = e
  /\ owner' = NoExec
  /\ UNCHANGED lapsed

\* The lease runs out under an owner that is still at work.
Lapse(e) ==
  /\ owner = e
  /\ owner' = NoExec
  /\ lapsed' = lapsed \cup {e}

\* A lapsed execution ends, or dies: whoever owns the lease now keeps it.
EndLapsed(e) ==
  /\ e \in lapsed
  /\ lapsed' = lapsed \ {e}
  /\ UNCHANGED owner

LeaseNext ==
  \E e \in Exec : Grant(e) \/ Return(e) \/ Lapse(e) \/ EndLapsed(e)

LeaseSpec == LeaseInit /\ [][LeaseNext]_leaseVars

=============================================================================
