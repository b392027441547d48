----------------------- MODULE DistributedTaskLockProofs -----------------------
(* The renewed lock keeps its key while renewals are made in time, admits   *)
(* one running task then, and implements the lease of TaskLease: for any    *)
(* set of activations and hosts and any expiry of three ticker periods or   *)
(* more.                                                                     *)
EXTENDS DistributedTaskLock, TLAPS

LEMMA ValueIsAValue ==
  ASSUME TypeOK, NEW e \in Exec
  PROVE  value[e] # NoValue
  BY LockAssumption DEF LockAssumption, TypeOK

LEMMA TypeInductive ==
  ASSUME TypeOK, [Next]_vars
  PROVE  TypeOK'
<1> USE LockAssumption DEF LockAssumption, TypeOK, Value, GenTaskId
<1>1. CASE Tick
  <2>1. disturbed' \in [Exec -> BOOLEAN]
    BY <1>1 DEF Tick
  <2>2. now' \in Nat /\ expires' \in Nat /\ key' \in Value \cup {NoValue} /\ UNCHANGED <<pc, value>>
    BY <1>1 DEF Tick
  <2>3. renewer' \in [Exec -> {"off", "waiting", "due", "extending"}]
    BY <1>1 DEF Tick
  <2> QED
    BY <2>1, <2>2, <2>3
<1>2. ASSUME NEW e \in Exec, Lock(e) \/ LockReplyLost(e)
      PROVE  TypeOK'
  <2>1. GenTaskId(e) \in Value /\ now + Expiration \in Nat
    OBVIOUS
  <2>2. now' \in Nat /\ expires' \in Nat /\ key' \in Value \cup {NoValue}
    BY <1>2, <2>1 DEF Lock, LockReplyLost
  <2>3. CASE Lock(e)
    BY <2>1, <2>2, <2>3 DEF Lock
  <2>4. CASE LockReplyLost(e)
    BY <2>2, <2>4 DEF LockReplyLost
  <2> QED
    BY <1>2, <2>3, <2>4
<1>3. ASSUME NEW e \in Exec, ReadTTL(e)
      PROVE  TypeOK'
  BY <1>3 DEF ReadTTL
<1>4. ASSUME NEW e \in Exec, Extend(e)
      PROVE  TypeOK'
  BY <1>4 DEF Extend
<1>5. ASSUME NEW e \in Exec, RenewalFails(e)
      PROVE  TypeOK'
  BY <1>5 DEF RenewalFails
<1>6. ASSUME NEW e \in Exec, Stop(e)
      PROVE  TypeOK'
  BY <1>6 DEF Stop
<1>7. ASSUME NEW e \in Exec, UnLock(e)
      PROVE  TypeOK'
  BY <1>7 DEF UnLock
<1>8. ASSUME NEW e \in Exec, UnLockFails(e) \/ Crash(e)
      PROVE  TypeOK'
  BY <1>8 DEF UnLockFails, Crash
<1>9. CASE UNCHANGED vars
  BY <1>9 DEF vars
<1> QED
  BY <1>1, <1>2, <1>3, <1>4, <1>5, <1>6, <1>7, <1>8, <1>9 DEF Next

\* The state is always well typed.
THEOREM LockTypeCorrect == Spec => []TypeOK
<1>1. Init => TypeOK
  BY LockAssumption DEF LockAssumption, Init, TypeOK, Value
<1>2. TypeOK /\ [Next]_vars => TypeOK'
  BY TypeInductive
<1> QED
  BY <1>1, <1>2, PTL DEF Spec

-------------------------------------------------------------------------------

\* The key lives at least Expiration beyond the moment its value names.
KeyLivesLong ==
  key # NoValue => /\ expires > now
                   /\ expires >= key.time + Expiration
                   /\ key.time <= now

\* An activation at work has its key, or has outlived its expiry.
HoldsOrLate ==
  \A e \in Exec : Working(e) => Holds(e) \/ now >= value[e].time + Expiration

\* Activations at work at the same time have different task ids, although an
\* id only tells apart hosts and seconds.
IdsDiffer ==
  \A e, f \in Exec : Working(e) /\ Working(f) /\ e # f => value[e] # value[f]

KeyInv == KeyLivesLong /\ HoldsOrLate /\ IdsDiffer

LEMMA KeyInvInductive ==
  ASSUME TypeOK, KeyInv, [Next]_vars
  PROVE  KeyInv'
<1>0. TypeOK'
  BY TypeInductive
<1> USE LockAssumption DEF LockAssumption, TypeOK, Value, KeyInv,
                           KeyLivesLong, HoldsOrLate, IdsDiffer, Working, Holds
<1>1. CASE Tick
  <2>1. now' = now + 1 /\ UNCHANGED <<pc, value>>
    BY <1>1 DEF Tick
  <2>2. IdsDiffer'
    BY <2>1
  <2>3. KeyLivesLong'
    BY <1>1 DEF Tick
  <2>4. HoldsOrLate'
    <3> SUFFICES ASSUME NEW e \in Exec, Working(e), ~ (Holds(e)')
                 PROVE  now' >= value'[e].time + Expiration
      BY <2>1
    <3>1. CASE Holds(e)
      BY <1>1, <2>1, <3>1 DEF Tick
    <3>2. CASE ~ Holds(e)
      BY <2>1, <3>2
    <3> QED
      BY <3>1, <3>2
  <2> QED
    BY <2>2, <2>3, <2>4
<1>2. ASSUME NEW e \in Exec, Lock(e)
      PROVE  KeyInv'
  <2>1. KeyLivesLong'
    BY <1>2 DEF Lock, GenTaskId
  <2>2. HoldsOrLate'
    BY <1>2 DEF Lock, GenTaskId
  <2>3. \A f \in Exec : f # e /\ Working(f) => value[f] # GenTaskId(e)
    BY <1>2 DEF Lock, GenTaskId
  <2>4. IdsDiffer'
    BY <1>2, <2>3 DEF Lock
  <2> QED
    BY <2>1, <2>2, <2>4
<1>3. ASSUME NEW e \in Exec, ReadTTL(e) \/ RenewalFails(e) \/ UnLockFails(e) \/ Crash(e) \/ Stop(e)
      PROVE  KeyInv'
  <2>1. UNCHANGED <<now, key, expires, value>>
    BY <1>3 DEF ReadTTL, RenewalFails, UnLockFails, Crash, Stop
  <2>2. \A f \in Exec : Working(f)' => Working(f)
    BY <1>3 DEF ReadTTL, RenewalFails, UnLockFails, Crash, Stop
  <2> QED
    BY <2>1, <2>2
<1>4. ASSUME NEW e \in Exec, Extend(e)
      PROVE  KeyInv'
  BY <1>4, <1>0 DEF Extend
<1>5. ASSUME NEW e \in Exec, UnLock(e)
      PROVE  KeyInv'
  BY <1>5, <1>0 DEF UnLock
<1>6. ASSUME NEW e \in Exec, LockReplyLost(e)
      PROVE  KeyInv'
  BY <1>6 DEF LockReplyLost, GenTaskId
<1>7. CASE UNCHANGED vars
  BY <1>7 DEF vars
<1> QED
  BY <1>1, <1>2, <1>3, <1>4, <1>5, <1>6, <1>7 DEF Next

-------------------------------------------------------------------------------

\* How long the key of an undisturbed activation still lives at each stage
\* of its renewing goroutine: RenewedLockHeld, strengthened until a step of
\* the clock preserves it.
RenewalInTime ==
  \A e \in Exec :
    /\ renewer[e] # "off" => pc[e] = "running"
    /\ pc[e] = "running" => renewer[e] # "off"
    /\ pc[e] = "running" /\ ~ disturbed[e] =>
         /\ Holds(e)
         /\ renewer[e] = "waiting" => ~ NearlyExpired(expires - now)

LEMMA RenewalInTimeInductive ==
  ASSUME TypeOK, KeyInv, RenewalInTime, [Next]_vars
  PROVE  RenewalInTime'
<1>0. TypeOK' /\ KeyInv'
  BY TypeInductive, KeyInvInductive
<1> USE LockAssumption DEF LockAssumption, TypeOK, Value,
                           RenewalInTime, Holds, NearlyExpired
<1>1. CASE Tick
  <2> SUFFICES ASSUME NEW e \in Exec, pc'[e] = "running", ~ disturbed'[e]
               PROVE  /\ Holds(e)'
                      /\ renewer'[e] # "waiting"
                      /\ renewer'[e] # "off"
    BY <1>1 DEF Tick
  <2>1. ~ disturbed[e] /\ renewer[e] = "waiting"
    BY <1>1 DEF Tick
  <2>2. Holds(e) /\ ~ NearlyExpired(expires - now)
    BY <1>1, <2>1 DEF Tick
  <2>3. expires \in Nat /\ expires > now + 1
    BY <2>2
  <2>4. key' = key /\ value' = value
    BY <1>1, <2>3 DEF Tick
  <2>5. renewer'[e] = "due"
    BY <1>1, <2>1 DEF Tick
  <2> QED
    BY <2>2, <2>4, <2>5
<1>2. ASSUME NEW e \in Exec, Lock(e)
      PROVE  RenewalInTime'
  BY <1>2, <1>0 DEF Lock, GenTaskId
<1>3. ASSUME NEW e \in Exec, ReadTTL(e)
      PROVE  RenewalInTime'
  BY <1>3, <1>0 DEF ReadTTL
<1>4. ASSUME NEW e \in Exec, Extend(e)
      PROVE  RenewalInTime'
  <2>1. ASSUME Holds(e)
        PROVE  RenewalInTime'
    <3>1. expires' = now + Expiration /\ UNCHANGED <<now, key, pc, value, disturbed>>
      BY <1>4, <2>1 DEF Extend
    <3>2. ASSUME NEW f \in Exec, f # e
          PROVE  Holds(f)' <=> Holds(f)
      BY <3>1, <2>1
    <3>3. ~ NearlyExpired(expires' - now') /\ Holds(e)'
      BY <3>1, <2>1
    <3>4. \A f \in Exec : f # e => ~ (Holds(f) /\ pc[f] = "running")
      BY <2>1, <1>4 DEF KeyInv, IdsDiffer, Working, Extend
    <3> QED
      BY <1>4, <3>1, <3>2, <3>3, <3>4 DEF Extend
  <2>2. ASSUME ~ Holds(e)
        PROVE  RenewalInTime'
    BY <1>4, <2>2 DEF Extend
  <2> QED
    BY <2>1, <2>2
<1>5. ASSUME NEW e \in Exec, RenewalFails(e)
      PROVE  RenewalInTime'
  BY <1>5, <1>0 DEF RenewalFails
<1>6. ASSUME NEW e \in Exec, Stop(e) \/ Crash(e)
      PROVE  RenewalInTime'
  BY <1>6 DEF Stop, Crash, Working
<1>7. ASSUME NEW e \in Exec, UnLock(e)
      PROVE  RenewalInTime'
  <2>1. ASSUME NEW f \in Exec, pc'[f] = "running", ~ disturbed'[f]
        PROVE  f # e /\ Holds(f) /\ value[f] # value[e] /\ UNCHANGED <<key, expires>>
    BY <1>7, <2>1 DEF UnLock, KeyInv, IdsDiffer, Working
  <2> QED
    BY <1>7, <2>1 DEF UnLock
<1>8. ASSUME NEW e \in Exec, UnLockFails(e)
      PROVE  RenewalInTime'
  BY <1>8 DEF UnLockFails
<1>9. ASSUME NEW e \in Exec, LockReplyLost(e)
      PROVE  RenewalInTime'
  BY <1>9 DEF LockReplyLost
<1>10. CASE UNCHANGED vars
  BY <1>10 DEF vars
<1> QED
  BY <1>1, <1>2, <1>3, <1>4, <1>5, <1>6, <1>7, <1>8, <1>9, <1>10 DEF Next

LEMMA LockInvariant == Spec => [](TypeOK /\ KeyInv /\ RenewalInTime)
<1>1. Init => KeyInv /\ RenewalInTime
  BY DEF Init, KeyInv, KeyLivesLong, HoldsOrLate, IdsDiffer, RenewalInTime, Working
<1>2. TypeOK /\ KeyInv /\ RenewalInTime /\ [Next]_vars => KeyInv' /\ RenewalInTime'
  BY KeyInvInductive, RenewalInTimeInductive
<1> QED
  BY <1>1, <1>2, LockTypeCorrect, PTL DEF Spec

\* A task whose renewals are made in time never runs without its key.
THEOREM RenewedLockHeldThm == Spec => []RenewedLockHeld
<1>1. RenewalInTime => RenewedLockHeld
  BY DEF RenewalInTime, RenewedLockHeld
<1> QED
  BY <1>1, LockInvariant, PTL

\* Two tasks run at once only if a renewal of one failed or came late.
THEOREM OverlapOnlyIfDisturbedThm == Spec => []OverlapOnlyIfDisturbed
<1>1. KeyInv /\ RenewalInTime => OverlapOnlyIfDisturbed
  BY DEF KeyInv, IdsDiffer, RenewalInTime, OverlapOnlyIfDisturbed, Working, Holds
<1> QED
  BY <1>1, LockInvariant, PTL

-------------------------------------------------------------------------------

\* Who owns the lease: the refinement mapping, without CHOOSE.
LEMMA OwnerIsHolder ==
  ASSUME IdsDiffer
  PROVE  /\ \A e \in Exec : Working(e) /\ Holds(e) => KeyOwner = e
         /\ (\A e \in Exec : ~ (Working(e) /\ Holds(e))) => KeyOwner = NoExec
  BY DEF IdsDiffer, KeyOwner, Holds

\* Steps that neither set the key free nor end an activation do not change
\* the lease.
LEMMA QuietStepRefines ==
  ASSUME UNCHANGED value,
         \A e \in Exec : Working(e)' = Working(e) /\ Holds(e)' = Holds(e)
  PROVE  UNCHANGED Lease!leaseVars
<1>1. Lapsed' = Lapsed
  BY DEF Lapsed
<1>2. KeyOwner' = KeyOwner
  BY DEF KeyOwner
<1> QED
  BY <1>1, <1>2 DEF Lease!leaseVars

LEMMA StepRefines ==
  ASSUME TypeOK, KeyInv, KeyInv', [Next]_vars
  PROVE  [Lease!LeaseNext]_(Lease!leaseVars)
<1> USE LockAssumption DEF LockAssumption
<1>0. IdsDiffer /\ IdsDiffer'
  BY DEF KeyInv
<1>1. CASE Tick
  <2>1. UNCHANGED <<pc, value>> /\ (key' = key \/ key' = NoValue)
    BY <1>1 DEF Tick
  <2>2. \A e \in Exec : Working(e)' = Working(e)
    BY <2>1 DEF Working
  <2>3. CASE key' = key
    BY <2>1, <2>2, <2>3, QuietStepRefines DEF Holds
  <2>4. CASE key' = NoValue /\ \E e \in Exec : Working(e) /\ Holds(e)
    <3>1. PICK e \in Exec : Working(e) /\ Holds(e)
      BY <2>4
    <3>2. \A f \in Exec : ~ (Holds(f)')
      BY <2>1, <2>4, ValueIsAValue DEF Holds
    <3>3. KeyOwner = e /\ KeyOwner' = NoExec
      BY <1>0, <3>1, <3>2, OwnerIsHolder DEF KeyOwner
    <3>4. Lapsed' = Lapsed \cup {e}
      BY <1>0, <2>1, <2>2, <3>1, <3>2 DEF Lapsed, IdsDiffer, Holds
    <3> QED
      BY <3>1, <3>3, <3>4 DEF Lease!LeaseNext, Lease!Lapse
  <2>5. CASE key' = NoValue /\ ~ \E e \in Exec : Working(e) /\ Holds(e)
    <3>1. \A f \in Exec : ~ (Holds(f)')
      BY <2>1, <2>5, ValueIsAValue DEF Holds
    <3>2. KeyOwner' = KeyOwner /\ Lapsed' = Lapsed
      BY <2>2, <2>5, <3>1 DEF KeyOwner, Lapsed
    <3> QED
      BY <3>2 DEF Lease!leaseVars
  <2> QED
    BY <2>1, <2>3, <2>4, <2>5
<1>2. ASSUME NEW e \in Exec, Lock(e)
      PROVE  Lease!LeaseNext
  <2>1. \A f \in Exec : ~ Holds(f)
    BY <1>2, ValueIsAValue DEF Lock, Holds
  <2>2. Working(e)' /\ Holds(e)' /\ ~ Working(e)
    BY <1>2 DEF Lock, Holds, Working, TypeOK
  <2>3. KeyOwner = NoExec /\ KeyOwner' = e
    BY <1>0, <2>1, <2>2, OwnerIsHolder DEF KeyOwner, IdsDiffer, Holds
  <2>4. \A f \in Exec : f # e => Working(f)' = Working(f)
    BY <1>2 DEF Lock, Working, TypeOK
  <2>5. \A f \in Exec : f # e /\ Working(f) => ~ (Holds(f)')
    BY <1>0, <2>2, <2>4 DEF IdsDiffer, Holds
  <2>6. Lapsed' = Lapsed /\ e \notin Lapsed
    BY <2>1, <2>2, <2>4, <2>5 DEF Lapsed
  <2> QED
    BY <2>3, <2>6 DEF Lease!LeaseNext, Lease!Grant
<1>3. ASSUME NEW e \in Exec, ReadTTL(e) \/ RenewalFails(e) \/ Stop(e)
      PROVE  UNCHANGED Lease!leaseVars
  <2>1. UNCHANGED <<key, value>>
    BY <1>3 DEF ReadTTL, RenewalFails, Stop
  <2>2. \A f \in Exec : Working(f)' = Working(f)
    BY <1>3 DEF ReadTTL, RenewalFails, Stop, Working, TypeOK
  <2> QED
    BY <2>1, <2>2, QuietStepRefines DEF Holds
<1>4. ASSUME NEW e \in Exec, Extend(e)
      PROVE  UNCHANGED Lease!leaseVars
  <2>1. UNCHANGED <<pc, value, key>>
    BY <1>4 DEF Extend
  <2>2. \A f \in Exec : Working(f)' = Working(f) /\ Holds(f)' = Holds(f)
    BY <2>1 DEF Working, Holds
  <2> QED
    BY <2>1, <2>2, QuietStepRefines
<1>5. ASSUME NEW e \in Exec, UnLock(e) \/ UnLockFails(e) \/ Crash(e)
      PROVE  Lease!LeaseNext
  <2>1. Working(e) /\ ~ (Working(e)') /\ UNCHANGED value
    BY <1>5 DEF UnLock, UnLockFails, Crash, Working, TypeOK
  <2>2. \A f \in Exec : f # e => Working(f)' = Working(f)
    BY <1>5 DEF UnLock, UnLockFails, Crash, Working, TypeOK
  <2>3. key' = key \/ (Holds(e) /\ key' = NoValue)
    BY <1>5 DEF UnLock, UnLockFails, Crash
  <2>4. \A f \in Exec : f # e /\ Working(f) => Holds(f)' = Holds(f)
    BY <1>0, <2>1, <2>3, ValueIsAValue DEF IdsDiffer, Holds
  <2>5. CASE Holds(e)
    <3>1. \A f \in Exec : ~ (Working(f)' /\ Holds(f)')
      BY <1>0, <2>1, <2>2, <2>4, <2>5 DEF IdsDiffer, Holds
    <3>2. KeyOwner = e /\ KeyOwner' = NoExec
      BY <1>0, <2>1, <2>5, <3>1, OwnerIsHolder DEF KeyOwner
    <3>3. Lapsed' = Lapsed
      BY <2>1, <2>2, <2>4, <2>5 DEF Lapsed
    <3> QED
      BY <3>2, <3>3 DEF Lease!LeaseNext, Lease!Return
  <2>6. CASE ~ Holds(e)
    <3>1. key' = key
      BY <2>3, <2>6
    <3>2. Lapsed' = Lapsed \ {e} /\ e \in Lapsed
      BY <2>1, <2>2, <2>4, <2>6 DEF Lapsed
    <3>3. \A f \in Exec : (Working(f)' /\ Holds(f)') = (Working(f) /\ Holds(f))
      BY <2>1, <2>2, <2>4, <2>6
    <3>4. KeyOwner' = KeyOwner
      BY <3>3 DEF KeyOwner
    <3> QED
      BY <3>2, <3>4 DEF Lease!LeaseNext, Lease!EndLapsed
  <2> QED
    BY <2>5, <2>6
<1>6. ASSUME NEW e \in Exec, LockReplyLost(e)
      PROVE  UNCHANGED Lease!leaseVars
  <2>1. UNCHANGED <<pc, value>> /\ key = NoValue
    BY <1>6 DEF LockReplyLost
  <2>2. \A f \in Exec : Working(f)' = Working(f) /\ ~ Holds(f)
    BY <2>1 DEF Working, Holds, TypeOK
  <2>3. \A f \in Exec : Working(f) => ~ (Holds(f)')
    BY <1>6, <2>1, <2>2 DEF KeyInv, HoldsOrLate, LockReplyLost, GenTaskId, Holds, TypeOK, Value
  <2>4. Lapsed' = Lapsed /\ KeyOwner' = KeyOwner
    BY <2>2, <2>3 DEF Lapsed, KeyOwner
  <2> QED
    BY <2>4 DEF Lease!leaseVars
<1>7. CASE UNCHANGED vars
  BY <1>7, QuietStepRefines DEF vars, Working, Holds
<1> QED
  BY <1>1, <1>2, <1>3, <1>4, <1>5, <1>6, <1>7 DEF Next

\* The distributed lock implements the lease.
THEOREM DistributedLockIsLease == Spec => ImplementsLease
<1>1. Init => Lease!LeaseInit
  BY DEF Init, Lease!LeaseInit, KeyOwner, Lapsed, Working
<1>2. TypeOK /\ KeyInv /\ KeyInv' /\ [Next]_vars => [Lease!LeaseNext]_(Lease!leaseVars)
  BY StepRefines
<1> QED
  BY <1>1, <1>2, LockInvariant, PTL DEF Spec, ImplementsLease, Lease!LeaseSpec

===============================================================================
