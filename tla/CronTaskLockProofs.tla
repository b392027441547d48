-------------------------- MODULE CronTaskLockProofs --------------------------
(* Mutual exclusion of RunOnce up to an overrun, for any set of instances   *)
(* and any expiry.                                                           *)
EXTENDS CronTaskLock, TLAPS

\* The state is always well typed.
THEOREM CronTypeCorrect == Spec => []TypeOK
<1>1. Init => TypeOK
  <2> SUFFICES ASSUME Init
               PROVE  TypeOK
    OBVIOUS
  <2>1. ttl \in 0 .. Expire
    BY CronAssumption DEF CronAssumption, Init
  <2>2. pc \in [Instance -> {"waiting", "running", "deleting", "down"}]
    BY DEF Init
  <2> QED
    BY <2>1, <2>2, Zenon DEF Init, TypeOK
<1>2. TypeOK /\ [Next]_vars => TypeOK'
  <2> SUFFICES ASSUME TypeOK, [Next]_vars
               PROVE  TypeOK'
    OBVIOUS
  <2> USE CronAssumption DEF CronAssumption, TypeOK
  <2>1. CASE Tick
    BY <2>1 DEF Tick, AtRest
  <2>2. ASSUME NEW i \in Instance, Lock(i) \/ LockReplyLost(i)
        PROVE  TypeOK'
    BY <2>2 DEF Lock, LockReplyLost
  <2>3. ASSUME NEW i \in Instance, Finish(i) \/ Restart(i)
        PROVE  TypeOK'
    BY <2>3 DEF Finish, Restart
  <2>4. ASSUME NEW i \in Instance, Delete(i) \/ DeleteFails(i) \/ Crash(i)
        PROVE  TypeOK'
    <3>1. overran' \in BOOLEAN
      BY <2>4, Zenon DEF Delete, DeleteFails, Crash
    <3>2. pc' \in [Instance -> {"waiting", "running", "deleting", "down"}]
      BY <2>4 DEF Delete, DeleteFails, Crash
    <3>3. ttl' \in 0 .. Expire /\ locker' \in Instance \cup {NoInstance}
      BY <2>4 DEF Delete, DeleteFails, Crash
    <3> QED
      BY <3>1, <3>2, <3>3
  <2>5. CASE UNCHANGED vars
    BY <2>5 DEF vars
  <2> QED
    BY <2>1, <2>2, <2>3, <2>4, <2>5 DEF Next
<1> QED
  BY <1>1, <1>2, PTL DEF Spec

\* As long as no run outlived its key, whoever is at work made the key that
\* is there.  It is what makes OverlapOnlyAfterOverrun inductive.
WorkerHoldsKey ==
  ~ overran => \A i \in Instance : Working(i) => locker = i /\ ttl > 0

LEMMA WorkerHoldsKeyInductive ==
  ASSUME TypeOK, WorkerHoldsKey, [Next]_vars
  PROVE  WorkerHoldsKey'
<1> SUFFICES ASSUME ~ overran', NEW j \in Instance, Working(j)'
             PROVE  locker' = j /\ ttl' > 0
  BY DEF WorkerHoldsKey
<1> USE CronAssumption DEF CronAssumption, TypeOK, WorkerHoldsKey, Working
<1>1. CASE Tick
  BY <1>1 DEF Tick, AtRest
<1>2. ASSUME NEW i \in Instance, Lock(i) \/ LockReplyLost(i)
      PROVE  locker' = j /\ ttl' > 0
  BY <1>2 DEF Lock, LockReplyLost
<1>3. ASSUME NEW i \in Instance, Finish(i)
      PROVE  locker' = j /\ ttl' > 0
  BY <1>3 DEF Finish
<1>4. ASSUME NEW i \in Instance, Delete(i)
      PROVE  locker' = j /\ ttl' > 0
  BY <1>4 DEF Delete, AtRest
<1>5. ASSUME NEW i \in Instance, DeleteFails(i)
      PROVE  locker' = j /\ ttl' > 0
  BY <1>5 DEF DeleteFails, AtRest
<1>6. ASSUME NEW i \in Instance, Crash(i)
      PROVE  locker' = j /\ ttl' > 0
  BY <1>6 DEF Crash, AtRest
<1>7. ASSUME NEW i \in Instance, Restart(i)
      PROVE  locker' = j /\ ttl' > 0
  BY <1>7 DEF Restart
<1>8. CASE UNCHANGED vars
  BY <1>8 DEF vars
<1> QED
  BY <1>1, <1>2, <1>3, <1>4, <1>5, <1>6, <1>7, <1>8 DEF Next

\* Two instances are at work at once only after an overrun (RunOnce,
\* task.go:71-80), whatever crashes, restarts and failed deletions happen.
THEOREM CronMutualExclusion == Spec => []OverlapOnlyAfterOverrun
<1>1. Init => WorkerHoldsKey
  BY DEF Init, WorkerHoldsKey, Working
<1>2. TypeOK /\ WorkerHoldsKey /\ [Next]_vars => WorkerHoldsKey'
  BY WorkerHoldsKeyInductive
<1>3. WorkerHoldsKey => OverlapOnlyAfterOverrun
  BY DEF WorkerHoldsKey, OverlapOnlyAfterOverrun
<1> QED
  BY <1>1, <1>2, <1>3, CronTypeCorrect, PTL DEF Spec

=============================================================================
