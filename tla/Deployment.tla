----------------------------- MODULE Deployment -----------------------------
(***************************************************************************)
(* Rolling out a release: the predeploy command of several replicas at     *)
(* once (apps/core management/commands/predeploy.py).  Each waits for the  *)
(* database, asks what is pending, takes an advisory lock and migrates.    *)
(*                                                                         *)
(* Cut wherever the command sends a statement: other deploys, a killed     *)
(* process and a database restart come in between.  An advisory lock       *)
(* belongs to the backend that ran the statement.  A direct connection has *)
(* a backend of its own; behind a pooler in transaction mode each          *)
(* statement may reach another one.                                        *)
(*                                                                         *)
(* Abstracted: the migrations are 1..Newest in the order of their          *)
(* dependencies, a release needs those up to its own number, and the two   *)
(* deadlines (of the database and of the lock) may pass at any time.       *)
(***************************************************************************)
EXTENDS Integers, FiniteSets

CONSTANTS
    Deploys,      \* commands running at once; also the names of the backends
    Newest,       \* the newest migration
    NonAtomic,    \* those with atomic = False (catalog.0005_search_vector)
    Nobody

ASSUME DeploymentAssumption ==
    /\ IsFiniteSet(Deploys) /\ Nobody \notin Deploys
    /\ Newest \in Nat \ {0} /\ NonAtomic \subseteq 1..Newest

VARIABLES
    pooled,    \* whether the connections go through a pooler
    release,   \* what each deploy brings
    up,        \* whether the database answers
    schema,    \* how much of each migration is in the schema
    applied,   \* those recorded in django_migrations
    lock,      \* the backend that holds the advisory lock, and how often
    deploy     \* where each deploy is

rollout == <<pooled, release, up, schema, applied, lock, deploy>>

Migrations == 1..Newest
Ended == {"done", "failed", "dead"}
Stages == {"waiting", "connected", "locking", "granted", "locked",
           "migrating", "halfway", "unlocking"} \cup Ended
Free == [by |-> Nobody, times |-> 0]

RolloutTypeOK ==
    /\ pooled \in BOOLEAN /\ up \in BOOLEAN
    /\ release \in [Deploys -> Migrations]
    /\ schema \in [Migrations -> {"none", "half", "full"}]
    /\ applied = {m \in Migrations : schema[m] = "full"}
    /\ lock \in {Free} \cup [by : Deploys, times : 1..Cardinality(Deploys)]
    /\ deploy \in [Deploys -> [at : Stages, plan : SUBSET Migrations, failed : BOOLEAN]]

RolloutInit ==
    /\ pooled \in BOOLEAN
    /\ release \in [Deploys -> Migrations]
    /\ up = FALSE
    /\ schema = [m \in Migrations |-> "none"]
    /\ applied = {}
    /\ lock = Free
    /\ deploy = [d \in Deploys |-> [at |-> "waiting", plan |-> {}, failed |-> FALSE]]

At(d, step) == deploy[d].at = step
Goto(d, step) == deploy' = [deploy EXCEPT ![d].at = step]

-----------------------------------------------------------------------------
(* The backend that answers the next statement of a deploy. *)
Backends(d) == IF pooled THEN Deploys ELSE {d}

(* A direct session ends with its process, and its locks with it. *)
SessionLock(d) == IF ~pooled /\ lock.by = d THEN Free ELSE lock

(* The process exits, its command done or not. *)
Exit(d, outcome) == Goto(d, outcome) /\ lock' = SessionLock(d)

-----------------------------------------------------------------------------
(* _wait_for_database. *)
WaitForDatabase(d) ==
    /\ At(d, "waiting")
    /\ Goto(d, IF up THEN "connected" ELSE "failed")
    /\ UNCHANGED <<pooled, release, up, schema, applied, lock>>

(* _pending_migrations, once to decide whether there is anything to do and *)
(* once more by migrate.                                                   *)
Pending(d) == (1..release[d]) \ applied

ReadPending(d) ==
    /\ At(d, "connected")
    /\ IF Pending(d) = {} THEN Exit(d, "done")
       ELSE \/ Exit(d, "failed")                            \* --check
            \/ /\ deploy' = [deploy EXCEPT ![d].at = "locking", ![d].plan = Pending(d)]
               /\ lock' = lock
    /\ UNCHANGED <<pooled, release, up, schema, applied>>

(* __enter__: pg_try_advisory_lock, which a backend that has the lock gets *)
(* again.                                                                  *)
GrantsAnyone(b) == TRUE
Grants(b) == lock.by \in {Nobody, b}
TryLock(d) ==
    /\ At(d, "locking")
    /\ \E b \in Backends(d) :
          /\ Grants(b)
          /\ lock' = [by |-> b, times |-> lock.times + 1]
    /\ Goto(d, "granted")
    /\ UNCHANGED <<pooled, release, up, schema, applied>>

(* The deadline passes between two attempts. *)
WaitForever(d) == FALSE
GiveUpLock(d) ==
    /\ At(d, "locking")
    /\ \E b \in Backends(d) : ~Grants(b)
    /\ Exit(d, "failed")
    /\ UNCHANGED <<pooled, release, up, schema, applied>>

(* _require_a_real_session.  It raises inside __enter__, so that no        *)
(* __exit__ gives the lock back.                                           *)
RequireARealSession(d) ==
    /\ At(d, "granted")
    /\ \E b \in Backends(d) :
          IF lock.by = b THEN Goto(d, "locked") /\ lock' = lock ELSE Exit(d, "failed")
    /\ UNCHANGED <<pooled, release, up, schema, applied>>

-----------------------------------------------------------------------------
(* call_command("migrate"). *)
PlanAsAnnounced(d) == deploy[d].plan
Plan(d) == Pending(d)
StartMigrate(d) ==
    /\ At(d, "locked")
    /\ deploy' = [deploy EXCEPT ![d].at = "migrating", ![d].plan = Plan(d)]
    /\ UNCHANGED <<pooled, release, up, schema, applied, lock>>

FirstOf(d) == CHOOSE m \in deploy[d].plan : \A n \in deploy[d].plan : m <= n
Applied(d, m) ==
    /\ schema' = [schema EXCEPT ![m] = "full"]
    /\ applied' = applied \cup {m}
    /\ deploy' = [deploy EXCEPT ![d].at = "migrating", ![d].plan = @ \ {m}]
    /\ UNCHANGED <<pooled, release, up, lock>>

(* One transaction: the operations and the row that records them. *)
Migrate(d) ==
    /\ At(d, "migrating") /\ deploy[d].plan # {}
    /\ FirstOf(d) \notin NonAtomic /\ schema[FirstOf(d)] = "none"
    /\ Applied(d, FirstOf(d))

(* Without one, the operations are committed one by one. *)
StartNonAtomic(d) ==
    /\ At(d, "migrating") /\ deploy[d].plan # {}
    /\ FirstOf(d) \in NonAtomic /\ schema[FirstOf(d)] = "none"
    /\ schema' = [schema EXCEPT ![FirstOf(d)] = "half"]
    /\ Goto(d, "halfway")
    /\ UNCHANGED <<pooled, release, up, applied, lock>>
FinishNonAtomic(d) ==
    /\ At(d, "halfway")
    /\ Applied(d, FirstOf(d))

(* What an operation would create is there already; or it fails for a      *)
(* reason of its own, a privilege or a row in the way.                     *)
MigrateFails(d) ==
    /\ At(d, "halfway") \/ (At(d, "migrating") /\ deploy[d].plan # {})
    /\ deploy' = [deploy EXCEPT ![d].at = "unlocking", ![d].failed = TRUE]
    /\ UNCHANGED <<pooled, release, up, schema, applied, lock>>
Migrated(d) ==
    /\ At(d, "migrating") /\ deploy[d].plan = {}
    /\ Goto(d, "unlocking")
    /\ UNCHANGED <<pooled, release, up, schema, applied, lock>>

(* __exit__, which returns False: an exception goes on. *)
Outcome(d) == IF deploy[d].failed THEN "failed" ELSE "done"
GivenBack(b) ==
    IF lock.by # b THEN lock
    ELSE IF lock.times = 1 THEN Free ELSE [lock EXCEPT !.times = @ - 1]
Unlock(d) ==
    /\ At(d, "unlocking")
    /\ \E b \in Backends(d) : lock' = GivenBack(b)
    /\ Goto(d, Outcome(d))
    /\ UNCHANGED <<pooled, release, up, schema, applied>>

-----------------------------------------------------------------------------
(* Around the command. *)
Kill(d) ==
    /\ deploy[d].at \notin Ended
    /\ Exit(d, "dead")
    /\ UNCHANGED <<pooled, release, up, schema, applied>>

DatabaseStarts ==
    /\ ~up /\ up' = TRUE
    /\ UNCHANGED <<pooled, release, schema, applied, lock, deploy>>
DatabaseStops ==
    /\ up /\ up' = FALSE
    /\ lock' = Free
    /\ deploy' = [d \in Deploys |-> IF deploy[d].at \in Ended \cup {"waiting"}
                    THEN deploy[d] ELSE [deploy[d] EXCEPT !.at = "failed"]]
    /\ UNCHANGED <<pooled, release, schema, applied>>

(* "Must be dropped by hand before a retry." *)
DropByHand(m) ==
    /\ schema[m] = "half" /\ \A d \in Deploys : ~At(d, "halfway")
    /\ schema' = [schema EXCEPT ![m] = "none"]
    /\ UNCHANGED <<pooled, release, up, applied, lock, deploy>>

-----------------------------------------------------------------------------
Handle(d) ==
    \/ WaitForDatabase(d) \/ ReadPending(d)
    \/ TryLock(d) \/ GiveUpLock(d) \/ RequireARealSession(d)
    \/ StartMigrate(d) \/ Migrate(d) \/ StartNonAtomic(d) \/ FinishNonAtomic(d)
    \/ MigrateFails(d) \/ Migrated(d) \/ Unlock(d)

RolloutNext ==
    \/ \E d \in Deploys : Handle(d) \/ Kill(d)
    \/ \E m \in Migrations : DropByHand(m)
    \/ DatabaseStarts \/ DatabaseStops

(* A command that can go on does: its waits are loops with a deadline.     *)
(* Nothing promises that a pooler ever reaches the backend with the lock.  *)
ByLuck(d) == TryLock(d) /\ \E b \in Backends(d) : ~Grants(b)
GoOn(d) == Handle(d) /\ ~ByLuck(d)

RolloutSpec == RolloutInit /\ [][RolloutNext]_rollout /\ \A d \in Deploys : WF_rollout(GoOn(d))

-----------------------------------------------------------------------------
Holding == {"granted", "locked", "migrating", "halfway", "unlocking"}

(* "Two rollouts cannot migrate at once": over direct connections one      *)
(* deploy at most is between its lock and its unlock (_deploy_lock).       *)
OneMigratesAtATime ==
    pooled \/ \A d, e \in Deploys :
        deploy[d].at \in Holding /\ deploy[e].at \in Holding => d = e

(* Nobody is about to apply what somebody else has applied or has begun:   *)
(* the list announced before the lock is not the one migrate works on      *)
(* (handle).                                                               *)
PlanIsFresh ==
    pooled \/ \A d \in Deploys : At(d, "migrating") => deploy[d].plan \cap applied = {}

(* Whoever reports success leaves every migration of its release applied,  *)
(* also where the lock serialises nothing, where another deploy did the    *)
(* work, and after the debris of a third (handle, __exit__).               *)
SuccessMeansCurrent ==
    \A d \in Deploys : At(d, "done") => 1..release[d] \subseteq applied

(* "A crashed deploy cannot leave the lock held": over direct connections  *)
(* the lock is that of a deploy between its lock and its unlock.           *)
LockDiesWithItsDeploy ==
    pooled \/ lock = Free \/ deploy[lock.by].at \in Holding

(* The lock over a direct connection: held by one deploy at most, the one  *)
(* that migrates, and by nobody once that one has ended (_deploy_lock).    *)
LockIsExclusive == RolloutTypeOK /\ OneMigratesAtATime /\ LockDiesWithItsDeploy

(* What is applied, and what is reported, goes by the rows of the moment   *)
(* and not by the announcement made before the lock (handle).              *)
SuccessIsEarned == PlanIsFresh /\ SuccessMeansCurrent

(* "Bounded rather than forever": every deploy ends, also behind a pooler  *)
(* that has left the lock with a backend nobody uses.                      *)
EveryDeployEnds == \A d \in Deploys : <>(deploy[d].at \in Ended)

-----------------------------------------------------------------------------
(* Statements of the repository that the code does not keep: TLC refutes   *)
(* each of them.                                                           *)

(* _require_a_real_session "tests the property the lock needs" (predeploy.py *)
(* :150): behind a pooler the two statements may reach one backend, which  *)
(* grants the lock to a second deploy as well.                             *)
PooledIsRefused ==
    \A d \in Deploys : pooled => deploy[d].at \notin {"migrating", "halfway"}
OneMigratesBehindAPooler ==
    \A d, e \in Deploys : deploy[d].at = "migrating" /\ deploy[e].at = "migrating" => d = e

(* The lock "cannot outlive the thing holding it" (predeploy.py:181). *)
LockNeverLeaks ==
    (\A d \in Deploys : deploy[d].at \in Ended) => lock = Free
=============================================================================
