---------------------------- MODULE CronTaskLock ----------------------------
(***************************************************************************)
(* The lock around every other periodic task (task/task.go, RunOnce).      *)
(* Each instance of the service has a goroutine per task that runs it at   *)
(* once and then after every Cron() seconds: it takes the Redis key        *)
(* task:<name> with SETNX and an expiry of 300 s, runs the task however    *)
(* long that takes, and deletes the key.  The expiry is not renewed and    *)
(* the deletion does not ask whose key it deletes.                         *)
(*                                                                         *)
(* Time is counted down: ttl is what is left of the key's expiry.          *)
(***************************************************************************)
EXTENDS Integers

CONSTANTS Instance,    \* instances of the service
          NoInstance,  \* stands for `nobody'
          Expire       \* redisLockExpireTime, in units of time

ASSUME CronAssumption ==
  /\ NoInstance \notin Instance
  /\ Expire \in Nat \ {0}

VARIABLES pc,       \* where the goroutine of an instance stands
          ttl,      \* what is left of the key's expiry; 0: there is no key
          locker,   \* history: the instance whose SETNX made the key
          overran   \* history: since the task was last at rest, a run outlived its key

vars == <<pc, ttl, locker, overran>>

\* Instances are in one of the states of RunOnce; the key has time left or is gone.
TypeOK ==
  /\ pc \in [Instance -> {"waiting", "running", "deleting", "down"}]
  /\ ttl \in 0 .. Expire
  /\ locker \in Instance \cup {NoInstance}
  /\ overran \in BOOLEAN

Init ==
  /\ pc = [i \in Instance |-> "waiting"]
  /\ ttl = 0
  /\ locker = NoInstance
  /\ overran = FALSE

Working(i) == pc[i] \in {"running", "deleting"}

\* Nobody is at work and the key is free: what the service looks like when
\* it starts.
AtRest(p, t) ==
  /\ t = 0
  /\ \A i \in Instance : p[i] \notin {"running", "deleting"}

-----------------------------------------------------------------------------

\* A lock without an expiry (Redis reports such a key with a TTL of -1).
LockForever(i) ==
  /\ pc[i] = "waiting"
  /\ ttl = 0
  /\ pc' = [pc EXCEPT ![i] = "running"]
  /\ ttl' = -1
  /\ locker' = i
  /\ UNCHANGED overran

\* A run that does not look at the result of SETNX.
LockAnyway(i) ==
  /\ pc[i] = "waiting"
  /\ pc' = [pc EXCEPT ![i] = "running"]
  /\ ttl' = IF ttl = 0 THEN Expire ELSE ttl
  /\ locker' = IF ttl = 0 THEN i ELSE locker
  /\ UNCHANGED overran

\* The timer fires and SETNX succeeds.  (When it fails, or Redis does, the
\* function returns and the goroutine waits for the next Cron().)
Lock(i) ==
  /\ pc[i] = "waiting"
  /\ ttl = 0
  /\ pc' = [pc EXCEPT ![i] = "running"]
  /\ ttl' = Expire
  /\ locker' = i
  /\ UNCHANGED overran

\* SETNX is executed and its reply is lost: the function returns, and the key
\* is left to expire.
LockReplyLost(i) ==
  /\ pc[i] = "waiting"
  /\ ttl = 0
  /\ ttl' = Expire
  /\ locker' = i
  /\ UNCHANGED <<pc, overran>>

\* task.Run() returns.
Finish(i) ==
  /\ pc[i] = "running"
  /\ pc' = [pc EXCEPT ![i] = "deleting"]
  /\ UNCHANGED <<ttl, locker, overran>>

\* Del(lockKey), whoever made the key.
Delete(i) ==
  /\ pc[i] = "deleting"
  /\ pc' = [pc EXCEPT ![i] = "waiting"]
  /\ ttl' = 0
  /\ locker' = NoInstance
  /\ overran' = (overran /\ ~ AtRest(pc', 0))

\* The Del call fails; its error is dropped.
DeleteFails(i) ==
  /\ pc[i] = "deleting"
  /\ pc' = [pc EXCEPT ![i] = "waiting"]
  /\ overran' = (overran /\ ~ AtRest(pc', ttl))
  /\ UNCHANGED <<ttl, locker>>

\* The instance stops: deployment, crash, or a panic of the task, which
\* nothing recovers.
Crash(i) ==
  /\ pc[i] # "down"
  /\ pc' = [pc EXCEPT ![i] = "down"]
  /\ overran' = (overran /\ ~ AtRest(pc', ttl))
  /\ UNCHANGED <<ttl, locker>>

Restart(i) ==
  /\ pc[i] = "down"
  /\ pc' = [pc EXCEPT ![i] = "waiting"]
  /\ UNCHANGED <<ttl, locker, overran>>

\* Time passes; the key expires, perhaps under a run.
Tick ==
  /\ ttl > 0
  /\ ttl' = ttl - 1
  /\ locker' = IF ttl = 1 THEN NoInstance ELSE locker
  /\ overran' = (/\ overran \/ (ttl = 1 /\ locker # NoInstance /\ Working(locker))
                 /\ ~ AtRest(pc, ttl'))
  /\ UNCHANGED pc

Next ==
  \/ Tick
  \/ \E i \in Instance :
       \/ Lock(i)
       \/ LockReplyLost(i)
       \/ Finish(i)
       \/ Delete(i)
       \/ DeleteFails(i)
       \/ Crash(i)
       \/ Restart(i)

\* The clock runs, and an instance that stays up tries again at every Cron():
\* replies may be lost, but not every reply of a SETNX that finds no key.
\* Neither the end of a run nor a restart is promised: a run may hang.
Fairness ==
  /\ WF_vars(Tick)
  /\ SF_vars(\E i \in Instance : Lock(i))

Spec == Init /\ [][Next]_vars
FairSpec == Spec /\ Fairness

-----------------------------------------------------------------------------

\* Two instances run a task at once only after a run that outlived the
\* expiry (task.go:71), and the disorder its deletion of a foreign key
\* (task.go:80) can hand on from run to run ends with the next moment of rest.
OverlapOnlyAfterOverrun ==
  (\E i, j \in Instance : i # j /\ Working(i) /\ Working(j)) => overran

\* While one instance stays up, the task is run again and again, whatever
\* happens to the others: the key of a run that died expires (task.go:65).
TaskKeepsRunning ==
  (\E i \in Instance : <>[](pc[i] # "down")) => []<>(\E i \in Instance : Working(i))

=============================================================================
