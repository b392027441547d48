------------------------- MODULE DistributedTaskLock -------------------------
(***************************************************************************)
(* The lock of pkg/distributiontask, which runs the denom heatmap task:    *)
(* every activation of the cron entry, in every instance of the service,   *)
(* calls RunOnceWithLock.  It takes a Redis key with SETNX and an expiry,  *)
(* storing a value of its own; a goroutine renews the expiry at every tick *)
(* of a ticker while the task runs; the unlock and the renewal are Lua     *)
(* scripts that compare the stored value with the caller's first.          *)
(*                                                                         *)
(* One unit of time is one period of the renewal ticker (10 s), so that    *)
(* the default expiry of 30 s is Expiration = 3.                           *)
(***************************************************************************)
EXTENDS Integers

CONSTANTS Exec,        \* activations that may be at work at the same time
          NoExec,      \* stands for `nobody'
          NoValue,     \* what the Redis key holds when it does not exist
          Hosts,       \* host names
          HostOf,      \* the host an activation runs on
          Expiration,  \* d.Expiration(), in ticker periods
          MaxTime      \* bound: the clock stops here

\* What GenTaskId makes of the host and the Unix time.
Value == [host : Hosts, time : Nat]

ASSUME LockAssumption ==
  /\ NoExec \notin Exec
  /\ NoValue \notin Value
  /\ HostOf \in [Exec -> Hosts]
  /\ Expiration \in Nat /\ Expiration >= 3
  /\ MaxTime \in Nat

VARIABLES now,        \* time.Now() of every host
          key,        \* the value of the Redis key
          expires,    \* the moment the key expires
          pc,         \* where RunOnceWithLock stands, per activation
          value,      \* GenTaskId of the activation
          renewer,    \* where the renewing goroutine stands
          disturbed   \* history: a renewal failed or came more than a tick late

vars == <<now, key, expires, pc, value, renewer, disturbed>>

-----------------------------------------------------------------------------

\* A task id that names the host alone.
GenHostId(e) == [host |-> HostOf[e], time |-> 0]

\* GenTaskId: task name, host and Unix time, and a random number seeded with
\* that same time: the host and the time decide it.
GenTaskId(e) == [host |-> HostOf[e], time |-> now]

\* The key holds the value of e: the test the two Lua scripts make.
Holds(e) == key = value[e]

Working(e) == pc[e] \in {"running", "stopped"}

\* The key holds the value of an activation that has drawn one, or nothing.
TypeOK ==
  /\ now \in Nat
  /\ key \in Value \cup {NoValue}
  /\ expires \in Nat
  /\ pc \in [Exec -> {"idle", "running", "stopped"}]
  /\ value \in [Exec -> Value]
  /\ renewer \in [Exec -> {"off", "waiting", "due", "extending"}]
  /\ disturbed \in [Exec -> BOOLEAN]

Init ==
  /\ now = 0
  /\ key = NoValue
  /\ expires = 0
  /\ pc = [e \in Exec |-> "idle"]
  /\ value = [e \in Exec |-> [host |-> HostOf[e], time |-> 0]]
  /\ renewer = [e \in Exec |-> "off"]
  /\ disturbed = [e \in Exec |-> FALSE]

-----------------------------------------------------------------------------

\* A lock that forgets to give the key an expiry.
LockForever(e) ==
  /\ pc[e] = "idle"
  /\ key = NoValue
  /\ value' = [value EXCEPT ![e] = GenTaskId(e)]
  /\ key' = GenTaskId(e)
  /\ expires' = -1
  /\ pc' = [pc EXCEPT ![e] = "running"]
  /\ UNCHANGED <<now, renewer, disturbed>>

\* SETNX succeeds, and the renewing goroutine starts.  (When the key exists
\* the activation returns without having changed anything.)
Lock(e) ==
  /\ pc[e] = "idle"
  /\ key = NoValue
  /\ value' = [value EXCEPT ![e] = GenTaskId(e)]
  /\ key' = GenTaskId(e)
  /\ expires' = now + Expiration
  /\ pc' = [pc EXCEPT ![e] = "running"]
  /\ renewer' = [renewer EXCEPT ![e] = "waiting"]
  /\ disturbed' = [disturbed EXCEPT ![e] = FALSE]
  /\ UNCHANGED now

\* SETNX is executed and its reply is lost: the activation returns as if the
\* key had been taken, and the key is left to expire.
LockReplyLost(e) ==
  /\ pc[e] = "idle"
  /\ key = NoValue
  /\ key' = GenTaskId(e)
  /\ expires' = now + Expiration
  /\ UNCHANGED <<now, pc, value, renewer, disturbed>>

\* A renewal that waits for less than a third to be left.
NearlyExpiredStrict(ttl) == 3 * ttl < Expiration

\* ReNewExpiration extends when a third of the expiry or less is left.
NearlyExpired(ttl) == 3 * ttl <= Expiration

\* ReNewExpiration, first call: TTL.  A missing key has a negative TTL, so the
\* goroutine goes on to the script, which then finds nothing to extend.
ReadTTL(e) ==
  /\ renewer[e] = "due"
  /\ renewer' = [renewer EXCEPT ![e] =
       IF key = NoValue \/ NearlyExpired(expires - now) THEN "extending" ELSE "waiting"]
  /\ UNCHANGED <<now, key, expires, pc, value, disturbed>>

\* ReNewExpiration, second call: the script extends a key that holds our value.
Extend(e) ==
  /\ renewer[e] = "extending"
  /\ expires' = IF Holds(e) THEN now + Expiration ELSE expires
  /\ renewer' = [renewer EXCEPT ![e] = "waiting"]
  /\ UNCHANGED <<now, key, pc, value, disturbed>>

\* Either call fails: the error is logged and the next tick tries again.
RenewalFails(e) ==
  /\ renewer[e] \in {"due", "extending"}
  /\ renewer' = [renewer EXCEPT ![e] = "waiting"]
  /\ disturbed' = [disturbed EXCEPT ![e] = TRUE]
  /\ UNCHANGED <<now, key, expires, pc, value>>

\* RunOnce(task) returns (a panic is recovered in it) and the goroutine takes
\* the stop signal: the send blocks while a renewal is in progress, but a tick
\* that is merely due may lose the race in the select.
Stop(e) ==
  /\ pc[e] = "running"
  /\ renewer[e] \in {"waiting", "due"}
  /\ pc' = [pc EXCEPT ![e] = "stopped"]
  /\ renewer' = [renewer EXCEPT ![e] = "off"]
  /\ UNCHANGED <<now, key, expires, value, disturbed>>

\* An unlock that deletes whatever the key holds, as redis.Client.Del does.
UnLockAny(e) ==
  /\ pc[e] = "stopped"
  /\ pc' = [pc EXCEPT ![e] = "idle"]
  /\ key' = NoValue
  /\ expires' = 0
  /\ UNCHANGED <<now, value, renewer, disturbed>>

\* The unlock script deletes a key that holds our value.
UnLock(e) ==
  /\ pc[e] = "stopped"
  /\ pc' = [pc EXCEPT ![e] = "idle"]
  /\ key' = IF Holds(e) THEN NoValue ELSE key
  /\ expires' = IF Holds(e) THEN 0 ELSE expires
  /\ UNCHANGED <<now, value, renewer, disturbed>>

\* The unlock call fails: the error is logged and the key is left to expire.
UnLockFails(e) ==
  /\ pc[e] = "stopped"
  /\ pc' = [pc EXCEPT ![e] = "idle"]
  /\ UNCHANGED <<now, key, expires, value, renewer, disturbed>>

\* The process dies with the activation; the key is left to expire.
Crash(e) ==
  /\ Working(e)
  /\ pc' = [pc EXCEPT ![e] = "idle"]
  /\ renewer' = [renewer EXCEPT ![e] = "off"]
  /\ UNCHANGED <<now, key, expires, value, disturbed>>

\* One ticker period passes: the key expires when its time has come, every
\* ticker fires, and a renewal that is still under way is now late.
Tick ==
  /\ now < MaxTime
  /\ now' = now + 1
  /\ key' = IF expires <= now + 1 THEN NoValue ELSE key
  /\ expires' = IF expires <= now + 1 THEN 0 ELSE expires
  /\ renewer' = [e \in Exec |-> IF renewer[e] = "waiting" THEN "due" ELSE renewer[e]]
  /\ disturbed' = [e \in Exec |-> disturbed[e] \/ renewer[e] \in {"due", "extending"}]
  /\ UNCHANGED <<pc, value>>

Next ==
  \/ Tick
  \/ \E e \in Exec :
       \/ Lock(e)
       \/ LockReplyLost(e)
       \/ ReadTTL(e)
       \/ Extend(e)
       \/ RenewalFails(e)
       \/ Stop(e)
       \/ UnLock(e)
       \/ UnLockFails(e)
       \/ Crash(e)

Spec == Init /\ [][Next]_vars

-----------------------------------------------------------------------------

\* While its task runs, an activation whose renewals were all made in time
\* holds the key: the ticker (distribution_task.go:99) meets the last third of
\* the expiry (distribution_task.go:128) before the key is gone.
RenewedLockHeld ==
  \A e \in Exec : pc[e] = "running" /\ ~ disturbed[e] => Holds(e)

\* Two tasks run at once only if one of them had a renewal fail or come late:
\* values of one host in one second never make two activations owners.
OverlapOnlyIfDisturbed ==
  \A e, f \in Exec :
    e # f /\ pc[e] = "running" /\ pc[f] = "running" => disturbed[e] \/ disturbed[f]

\* The activation that holds the key, and those at work without it.
KeyOwner ==
  IF \E e \in Exec : Working(e) /\ Holds(e)
    THEN CHOOSE e \in Exec : Working(e) /\ Holds(e)
    ELSE NoExec
Lapsed == {e \in Exec : Working(e) /\ ~ Holds(e)}

Lease == INSTANCE TaskLease WITH owner <- KeyOwner, lapsed <- Lapsed

\* The lock implements the lease: in particular the end of an activation that
\* outlived its key never frees the key of a later one (lock.go:12-17), and
\* an extension never revives it.
ImplementsLease == Lease!LeaseSpec

=============================================================================
