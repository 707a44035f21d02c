------------------------------ MODULE Dynamic -------------------------------
(***************************************************************************)
(* Dynamic allocation: DynamicResolver (dynamic.go) under the TaskRun      *)
(* reconciler (taskrun.go), with a cloud that launches and terminates      *)
(* instances.                                                              *)
(*                                                                         *)
(* A user TaskRun gets an instance of its own.  Allocate is called again   *)
(* and again: it counts the instances and launches one, waits for its      *)
(* address, assigns it to the TaskRun and launches a provision TaskRun.    *)
(* As in HostPool, a worker reads in the step that starts a reconcile and  *)
(* makes one call that changes something in each step after that.          *)
(***************************************************************************)
EXTENDS Integers, FiniteSets

CONSTANTS
    Tasks,         \* user TaskRuns of the platform
    Instances,     \* ids of instances the cloud can launch, each once
    MaxInstances,  \* max-instances of the platform
    Workers,       \* the MaxConcurrentReconciles workers of the controller
    None,          \* no instance
    Mishaps,       \* what may go wrong outside the controller, of MishapKinds
    FaultKinds,    \* the calls that may fail, by pc; "crash": a restart
    MaxFaults      \* bound: failed calls and restarts of a behaviour

\* A TaskRun is cancelled before it has its secret, or deleted; an instance
\* breaks; the provision TaskRun fails, or makes no secret.
MishapKinds == {"cancel", "delete", "broken", "provisionFails", "noSecret"}

ASSUME DynamicAssumption ==
    /\ IsFiniteSet(Instances) /\ IsFiniteSet(Workers) /\ Workers # {}
    /\ MaxInstances \in Nat /\ MaxFaults \in Nat
    /\ None \notin Instances
    /\ Mishaps \subseteq MishapKinds

VARIABLES
    tr,        \* tr[t]: the user TaskRun the API server stores
    cache,     \* cache[t]: the informer cache's copy of tr[t]
    pending,   \* pending[t]: the watch events of t not delivered yet
    secret,    \* secret[t]: the multi-platform-ssh- secret of t
    prov,      \* prov[t]: the provision TaskRun for t
    cloud,     \* cloud[i]: the state of instance i
    owner,     \* owner[i]: the TaskRun i was launched for (its taskRunID tag)
    queue,     \* user TaskRuns on the work queue
    timers,    \* user TaskRuns to be queued later (RequeueAfter, backoff)
    late,      \* TaskRuns whose allocation started longer than timeout ago
    worker,    \* worker[w]: the reconcile w is in
    faults,    \* failed calls and restarts so far
    lost       \* history: instances whose id was dropped by a restart, or
               \* together with the error of their termination

storeVars == <<tr, pending>>
cloudVars == <<cloud, owner>>
faultVars == <<faults, lost>>
vars == <<tr, cache, pending, secret, prov, cloud, owner, queue, timers,
          late, worker, faults, lost>>

-----------------------------------------------------------------------------
(***************************************************************************)
(* TaskRuns, instances and reconciles.                                     *)
(***************************************************************************)

\* What the controller reads and writes of a user TaskRun: its phase and
\* DeletionTimestamp, whether it has AssignedHost, WaitingForPlatform and
\* FailedHosts, CloudInstanceId, CloudFailures and the finalizer.
TaskRun == [phase     : {"absent", "running", "completed", "gone"},
            deleting  : BOOLEAN,
            assigned  : BOOLEAN,
            waiting   : BOOLEAN,
            failed    : BOOLEAN,
            instance  : Instances \cup {None},
            failures  : 0..2,
            finalizer : BOOLEAN]

Absent == [phase |-> "absent", deleting |-> FALSE, assigned |-> FALSE,
           waiting |-> FALSE, failed |-> FALSE, instance |-> None,
           failures |-> 0, finalizer |-> FALSE]
Gone == [Absent EXCEPT !.phase = "gone"]

Exists(o) == o.phase \in {"running", "completed"}
Done(o) == o.phase = "completed" \/ o.deleting

\* A provision TaskRun is processed when it has ProvisionTaskProcessed; its
\* deletion after that changes nothing else.
ProvStates == {"none", "running", "succeeded", "failed", "processed"}

\* An instance is starting until it has an address (up) or breaks.
CloudStates == {"none", "starting", "up", "broken", "terminated"}
Live == {i \in Instances : cloud[i] \in {"starting", "up", "broken"}}

\* A worker reconciles a user TaskRun or its provision TaskRun.  after: what
\* follows the termination of an instance, an error or a retry.
PCs == {"idle", "launch", "countFailure", "record", "abandon", "wait",
        "terminate", "remove", "assign", "provision", "fail", "errorSecret",
        "deallocate", "release", "deleteSecret", "wake", "unassignFailed",
        "mark"}
Key == Tasks \X {"user", "prov"}
NoKey == <<None, "user">>
Worker == [pc : PCs, key : Key \cup {NoKey}, obj : TaskRun, seen : TaskRun,
           after : {"error", "retry"}]
Idle == [pc |-> "idle", key |-> NoKey, obj |-> Absent, seen |-> Absent,
         after |-> "error"]

TypeOK ==
    /\ tr \in [Tasks -> TaskRun]
    /\ cache \in [Tasks -> TaskRun]
    /\ pending \in [Tasks -> {"none", "events", "assignment"}]
    /\ secret \in [Tasks -> {"none", "ssh", "error"}]
    /\ prov \in [Tasks -> ProvStates]
    /\ cloud \in [Instances -> CloudStates]
    /\ owner \in [Instances -> Tasks \cup {None}]
    /\ queue \subseteq Tasks
    /\ timers \subseteq Tasks
    /\ late \subseteq Tasks
    /\ worker \in [Workers -> Worker]
    /\ faults \in 0..MaxFaults
    /\ lost \subseteq Instances

Init ==
    /\ tr = [t \in Tasks |-> Absent]
    /\ cache = tr
    /\ pending = [t \in Tasks |-> "none"]
    /\ secret = [t \in Tasks |-> "none"]
    /\ prov = [t \in Tasks |-> "none"]
    /\ cloud = [i \in Instances |-> "none"]
    /\ owner = [i \in Instances |-> None]
    /\ queue = {}
    /\ timers = {}
    /\ late = {}
    /\ worker = [w \in Workers |-> Idle]
    /\ faults = 0
    /\ lost = {}

-----------------------------------------------------------------------------
(***************************************************************************)
(* The API server, the cache and the work queue.                           *)
(***************************************************************************)

Settled(o) == IF o.deleting /\ ~o.finalizer THEN Gone ELSE o

\* Store o as t; kind says whether the change assigns the instance.
Put(t, o, kind) ==
    IF Settled(o) = tr[t]
    THEN UNCHANGED storeVars
    ELSE /\ tr' = [tr EXCEPT ![t] = Settled(o)]
         /\ pending' = [pending EXCEPT
                           ![t] = IF @ = "assignment" THEN @ ELSE kind]

\* updateTaskRun: the managed labels and annotations and the finalizer of the
\* caller's copy replace those of the latest object; an update without
\* conflict stores the same.  CloudFailures is not managed: see LosesCount.
Merged(latest, mine) ==
    [latest EXCEPT !.assigned  = mine.assigned,
                   !.waiting   = mine.waiting,
                   !.failed    = mine.failed,
                   !.instance  = mine.instance,
                   !.failures  = mine.failures,
                   !.finalizer = mine.finalizer]

UpdateTaskRunWithRetry(t, mine, kind) == Put(t, Merged(tr[t], mine), kind)

\* The informer catches up with t, and the work queue gets its key.
Deliver(t) ==
    /\ pending[t] # "none"
    /\ pending' = [pending EXCEPT ![t] = "none"]
    /\ cache' = [cache EXCEPT ![t] = tr[t]]
    /\ queue' = queue \cup {t}
    /\ UNCHANGED <<tr, secret, prov, cloudVars, timers, late, worker, faultVars>>

TimerFires(t) ==
    /\ t \in timers
    /\ timers' = timers \ {t}
    /\ queue' = queue \cup {t}
    /\ UNCHANGED <<tr, pending, cache, secret, prov, cloudVars, late, worker,
                   faultVars>>

\* A key is handed to one worker at a time.
Available(w, key) ==
    /\ worker[w].pc = "idle"
    /\ \A v \in Workers : worker[v].key # key

\* The reconcile of w starts at pc with o, having read seen; it goes on; it
\* ends; it ends and the key is queued again later.
Begin(w, pc, key, seen, o) ==
    worker' = [worker EXCEPT ![w] = [pc |-> pc, key |-> key, obj |-> o,
                                     seen |-> seen, after |-> "error"]]
Goto(w, pc, o) ==
    worker' = [worker EXCEPT ![w].pc = pc, ![w].obj = o,
                             ![w].seen = IF pc = "fail" THEN @ ELSE Absent]
Return(w) == worker' = [worker EXCEPT ![w] = Idle]
Requeue(w) ==
    /\ Return(w)
    /\ timers' = IF worker[w].key[2] = "user"
                 THEN timers \cup {worker[w].key[1]} ELSE timers

At(w, pc) == worker[w].pc = pc
TaskOf(w) == worker[w].key[1]
Obj(w) == worker[w].obj

\* createErrorSecret first stores the finalizer if o does not have it.
FailPC(o) == IF o.finalizer THEN "errorSecret" ELSE "fail"
Fails(w) == Goto(w, FailPC(Obj(w)), Obj(w))

-----------------------------------------------------------------------------
(***************************************************************************)
(* Reconcile of a user TaskRun: handleUserTask and Allocate.               *)
(***************************************************************************)

\* Mutant of Ignored: a TaskRun that has an instance is allocated one again.
IgnoredMutant(o) ==
    \/ ~Exists(o)
    \/ ~o.assigned /\ Done(o) /\ ~o.finalizer

\* handleUserTask and handleHostAssigned return without doing anything.
Ignored(o) ==
    \/ ~Exists(o)
    \/ o.assigned /\ ~Done(o)
    \/ ~o.assigned /\ Done(o) /\ ~o.finalizer

\* Allocate for a TaskRun that has an instance: it took too long, and is to
\* be terminated; it has an address, and is to be assigned; or its state is
\* asked for, and the TaskRun comes back later, after a failed instance was
\* terminated.  (A terminated one is in either state.)
AwaitsAddress(w, t, o) ==
    LET key == <<t, "user">>
        state == cloud[o.instance]
    IN
    \/ /\ t \in late
       /\ Begin(w, "terminate", key, Absent, o)
       /\ UNCHANGED timers
    \/ /\ t \notin late /\ state = "up"
       /\ Begin(w, "assign", key, Absent, [o EXCEPT !.assigned = TRUE])
       /\ UNCHANGED timers
    \/ /\ t \notin late /\ state \in {"starting", "terminated"}
       /\ timers' = timers \cup {t}
       /\ UNCHANGED worker
    \/ /\ t \notin late /\ state \in {"broken", "terminated"}
       /\ worker' = [worker EXCEPT ![w] =
              [pc |-> "terminate", key |-> key, obj |-> o, seen |-> Absent,
               after |-> "retry"]]
       /\ UNCHANGED timers

\* Mutant of HasRoom: the limit is compared with > instead of >=.
HasRoomMutant == Cardinality(Live) <= MaxInstances

\* CountInstances against max-instances.
HasRoom == Cardinality(Live) < MaxInstances

\* Allocate for a TaskRun without one: there is room for an instance, or the
\* TaskRun waits and comes back in a minute.
WantsInstance(w, t, o) ==
    \/ /\ HasRoom
       /\ Begin(w, "launch", <<t, "user">>, o, [o EXCEPT !.waiting = FALSE])
       /\ UNCHANGED timers
    \/ /\ ~HasRoom /\ ~o.waiting
       /\ Begin(w, "wait", <<t, "user">>, Absent, [o EXCEPT !.waiting = TRUE])
       /\ UNCHANGED timers
    \/ /\ ~HasRoom /\ o.waiting
       /\ timers' = timers \cup {t}
       /\ UNCHANGED worker

\* handleHostAllocation and Allocate.  After a failed provision TaskRun there
\* is no second attempt.
Allocates(w, t, o) ==
    \/ secret[t] # "none" /\ UNCHANGED <<worker, timers>>
    \/ /\ secret[t] = "none" /\ o.failed
       /\ Begin(w, FailPC(o), <<t, "user">>, o, o)
       /\ UNCHANGED timers
    \/ /\ secret[t] = "none" /\ ~o.failed /\ o.instance # None
       /\ AwaitsAddress(w, t, o)
    \/ /\ secret[t] = "none" /\ ~o.failed /\ o.instance = None
       /\ WantsInstance(w, t, o)

\* Reconcile reads the TaskRun from the API server.
ReconcileUser(w, t) ==
    LET o == tr[t] IN
    /\ Available(w, <<t, "user">>)
    /\ t \in queue
    /\ queue' = queue \ {t}
    /\ \/ Ignored(o) /\ UNCHANGED <<worker, timers>>
       \/ /\ ~Ignored(o) /\ Done(o)
          /\ Begin(w, "deallocate", <<t, "user">>, Absent, o)
          /\ UNCHANGED timers
       \/ ~Ignored(o) /\ ~Done(o) /\ Allocates(w, t, o)
    /\ UNCHANGED <<tr, pending, cache, secret, prov, cloudVars, late, faultVars>>

\* No host is available: the waiting label is stored; an error is ignored.
WaitForRoom(w) ==
    /\ At(w, "wait")
    /\ IF Exists(tr[TaskOf(w)])
       THEN UpdateTaskRunWithRetry(TaskOf(w), Obj(w), "events")
       ELSE UNCHANGED storeVars
    /\ Requeue(w)
    /\ UNCHANGED <<cache, secret, prov, cloudVars, queue, late, faultVars>>

\* LaunchInstance; the id and the finalizer are set in memory.
Launch(w) ==
    /\ At(w, "launch")
    /\ \E i \in Instances :
          /\ cloud[i] = "none"
          /\ cloud' = [cloud EXCEPT ![i] = "starting"]
          /\ owner' = [owner EXCEPT ![i] = TaskOf(w)]
          /\ Goto(w, "record", [Obj(w) EXCEPT !.instance = i,
                                              !.finalizer = TRUE])
    /\ UNCHANGED <<tr, pending, cache, secret, prov, queue, timers, late,
                   faultVars>>

\* Mutant of CountsFailure: the count is not stored.
CountsFailureMutant(w) ==
    IF Obj(w).failures = 2
    THEN Fails(w)
    ELSE Goto(w, "countFailure", Obj(w))

\* Mutant of CountsFailure: one launch too many is tried.
CountsFailureMutant2(w) ==
    IF Obj(w).failures = 3
    THEN Fails(w)
    ELSE Goto(w, "countFailure", [Obj(w) EXCEPT !.failures = @ + 1])

\* LaunchInstance fails: it is counted, and the third failure is an error.
CountsFailure(w) ==
    IF Obj(w).failures = 2
    THEN Fails(w)
    ELSE Goto(w, "countFailure", [Obj(w) EXCEPT !.failures = @ + 1])

\* The cloud has no instance to give: so it fails for the rest of the time.
QuotaReached(w) ==
    /\ At(w, "launch")
    /\ \A i \in Instances : cloud[i] # "none"
    /\ CountsFailure(w)
    /\ UNCHANGED <<tr, pending, cache, secret, prov, cloudVars, queue, timers,
                   late, faultVars>>

\* The failure count is stored, and the launch is tried again in 20 seconds.
CountFailure(w) ==
    /\ At(w, "countFailure")
    /\ IF Exists(tr[TaskOf(w)])
       THEN UpdateTaskRunWithRetry(TaskOf(w), Obj(w), "events")
       ELSE UNCHANGED storeVars
    /\ Requeue(w)
    /\ UNCHANGED <<cache, secret, prov, cloudVars, queue, late, faultVars>>

\* Mutant of RecordInstance: the instance of a TaskRun that is gone is not
\* terminated.
RecordInstanceMutant(w) ==
    LET t == TaskOf(w) IN
    /\ At(w, "record")
    /\ IF Exists(tr[t])
       THEN UpdateTaskRunWithRetry(t, Obj(w), "events")
            /\ late' = late \ {t}
       ELSE UNCHANGED <<tr, pending, late>>
    /\ Requeue(w)
    /\ UNCHANGED <<cache, secret, prov, cloudVars, queue, faultVars>>

\* The instance id, the start time and the finalizer are stored; the TaskRun
\* comes back in two minutes.  If it is gone the instance is to go too.
RecordInstance(w) ==
    LET t == TaskOf(w) IN
    /\ At(w, "record")
    /\ \/ /\ Exists(tr[t])
          /\ UpdateTaskRunWithRetry(t, Obj(w), "events")
          /\ late' = late \ {t}
          /\ Requeue(w)
       \/ /\ ~Exists(tr[t])
          /\ Goto(w, "abandon", Obj(w))
          /\ UNCHANGED <<tr, pending, late, timers>>
    /\ UNCHANGED <<cache, secret, prov, cloudVars, queue, faultVars>>

\* TerminateInstance.
Terminates(i) == cloud' = [cloud EXCEPT ![i] = "terminated"]

\* The instance that could not be recorded is terminated.
AbandonInstance(w) ==
    /\ At(w, "abandon")
    /\ Terminates(Obj(w).instance)
    /\ Fails(w)
    /\ UNCHANGED <<tr, pending, cache, secret, prov, owner, queue, timers, late,
                   faultVars>>

\* The instance has an address: it is assigned to the TaskRun.
AssignInstance(w) ==
    /\ At(w, "assign")
    /\ IF Exists(tr[TaskOf(w)])
       THEN UpdateTaskRunWithRetry(TaskOf(w), Obj(w), "assignment")
            /\ Goto(w, "provision", Obj(w))
       ELSE Fails(w) /\ UNCHANGED storeVars
    /\ UNCHANGED <<cache, secret, prov, cloudVars, queue, timers, late, faultVars>>

\* launchProvisioningTask.
LaunchProvision(w) ==
    /\ At(w, "provision")
    /\ prov' = [prov EXCEPT ![TaskOf(w)] = "running"]
    /\ Return(w)
    /\ UNCHANGED <<tr, pending, cache, secret, cloudVars, queue, timers, late,
                   faultVars>>

\* Mutant of TerminateInstance: the id is dropped before the call, so that
\* nothing is terminated.
TerminateInstanceMutant(w) ==
    /\ At(w, "terminate")
    /\ Goto(w, "remove", [Obj(w) EXCEPT !.instance = None, !.assigned = FALSE])
    /\ UNCHANGED <<tr, pending, cache, secret, prov, cloudVars, queue, timers,
                   late, faultVars>>

\* An instance that is too late, failed or cannot be provisioned: terminated,
\* and its id is removed in memory.
TerminateInstance(w) ==
    /\ At(w, "terminate")
    /\ Terminates(Obj(w).instance)
    /\ Goto(w, "remove", [Obj(w) EXCEPT !.instance = None, !.assigned = FALSE])
    /\ UNCHANGED <<tr, pending, cache, secret, prov, owner, queue, timers, late,
                   faultVars>>

\* After removeInstanceFromTask: the error, or another try later.
AfterRemoval(w) ==
    \/ worker[w].after = "error" /\ Fails(w) /\ UNCHANGED timers
    \/ worker[w].after = "retry" /\ Requeue(w)

\* removeInstanceFromTask; its errors are only logged.
RemoveInstance(w) ==
    /\ At(w, "remove")
    /\ IF Exists(tr[TaskOf(w)])
       THEN UpdateTaskRunWithRetry(TaskOf(w), Obj(w), "events")
       ELSE UNCHANGED storeVars
    /\ AfterRemoval(w)
    /\ UNCHANGED <<cache, secret, prov, cloudVars, queue, late, faultVars>>

\* createErrorSecret, the finalizer: a plain update, which a conflict ends.
AddErrorFinalizer(w) ==
    LET t == TaskOf(w) IN
    /\ At(w, "fail")
    /\ \/ /\ tr[t] = worker[w].seen
          /\ Put(t, [Obj(w) EXCEPT !.finalizer = TRUE], "events")
          /\ Goto(w, "errorSecret", Absent)
          /\ UNCHANGED timers
       \/ tr[t] # worker[w].seen /\ Requeue(w) /\ UNCHANGED storeVars
    /\ UNCHANGED <<cache, secret, prov, cloudVars, queue, late, faultVars>>

\* The secret; one that exists is left alone, and one of a TaskRun that is
\* gone is garbage.
ErrorSecret(t) ==
    secret' = IF secret[t] = "none" /\ Exists(tr[t])
              THEN [secret EXCEPT ![t] = "error"] ELSE secret

\* createErrorSecret, the secret: the error of Allocate is returned, and the
\* reconcile of a provision TaskRun goes on.
CreateErrorSecret(w) ==
    /\ At(w, "errorSecret")
    /\ ErrorSecret(TaskOf(w))
    /\ \/ worker[w].key[2] = "user" /\ Requeue(w)
       \/ worker[w].key[2] = "prov" /\ Goto(w, "mark", Absent)
          /\ UNCHANGED timers
    /\ UNCHANGED <<tr, pending, cache, prov, cloudVars, queue, late, faultVars>>

-----------------------------------------------------------------------------
(***************************************************************************)
(* A user TaskRun is done: handleHostAssigned and Deallocate.              *)
(***************************************************************************)

Released(o) == [o EXCEPT !.assigned = FALSE, !.finalizer = FALSE]

\* Mutant of Deallocate: only a TaskRun with AssignedHost has an instance.
DeallocateMutant(w) ==
    /\ At(w, "deallocate")
    /\ IF Obj(w).assigned THEN Terminates(Obj(w).instance) ELSE UNCHANGED cloud
    /\ Goto(w, "release", Released([Obj(w) EXCEPT !.instance = None]))
    /\ UNCHANGED <<tr, pending, cache, secret, prov, owner, queue, timers, late,
                   faultVars>>

\* Deallocate: the instance is terminated.  Without one that is an error,
\* which is logged.
Deallocate(w) ==
    /\ At(w, "deallocate")
    /\ IF Obj(w).instance # None THEN Terminates(Obj(w).instance)
                                 ELSE UNCHANGED cloud
    /\ Goto(w, "release", Released([Obj(w) EXCEPT !.instance = None]))
    /\ UNCHANGED <<tr, pending, cache, secret, prov, owner, queue, timers, late,
                   faultVars>>

\* The finalizer, the assignment and the id are removed.
ReleaseTask(w) ==
    /\ At(w, "release")
    /\ \/ /\ Exists(tr[TaskOf(w)])
          /\ UpdateTaskRunWithRetry(TaskOf(w), Obj(w), "events")
          /\ Goto(w, "deleteSecret", Absent)
          /\ UNCHANGED timers
       \/ ~Exists(tr[TaskOf(w)]) /\ Requeue(w) /\ UNCHANGED storeVars
    /\ UNCHANGED <<cache, secret, prov, cloudVars, queue, late, faultVars>>

DeleteSecret(w) ==
    /\ At(w, "deleteSecret")
    /\ secret' = [secret EXCEPT ![TaskOf(w)] = "none"]
    /\ Goto(w, "wake", Absent)
    /\ UNCHANGED <<tr, pending, cache, prov, cloudVars, queue, timers, late,
                   faultVars>>

\* handleWaitingTasks: FinishedWaiting on a TaskRun the cache shows waiting is
\* an event, unless it has the label already or the update is a conflict.
WakeWaiting(w) ==
    /\ At(w, "wake")
    /\ \/ UNCHANGED pending
       \/ \E u \in Tasks :
             /\ cache[u].waiting /\ pending[u] = "none"
             /\ pending' = [pending EXCEPT ![u] = "events"]
    /\ Return(w)
    /\ UNCHANGED <<tr, cache, secret, prov, cloudVars, queue, timers, late,
                   faultVars>>

-----------------------------------------------------------------------------
(***************************************************************************)
(* Reconcile of a provision TaskRun: handleProvisionTask.                  *)
(***************************************************************************)

\* The user TaskRun is read from the cache.  Both kinds of TaskRun come
\* through one ordered watch, so that the assignment, which was stored before
\* the provision TaskRun was created, has been delivered.
ReconcileProvision(w, t) ==
    LET mine == cache[t]
        key == <<t, "prov">>
    IN
    /\ prov[t] \in {"succeeded", "failed"}
    /\ pending[t] # "assignment"
    /\ Available(w, key)
    /\ \/ /\ prov[t] = "failed" /\ Exists(mine)
          /\ Begin(w, "unassignFailed", key, Absent,
                   [mine EXCEPT !.failed = TRUE, !.assigned = FALSE])
       \/ /\ prov[t] = "succeeded" /\ Exists(mine) /\ secret[t] = "none"
          /\ Begin(w, FailPC(mine), key, mine, mine)
       \/ /\ Exists(mine) => prov[t] = "succeeded" /\ secret[t] # "none"
          /\ Begin(w, "mark", key, Absent, Absent)
    /\ UNCHANGED <<tr, pending, cache, secret, prov, cloudVars, queue, timers,
                   late, faultVars>>

\* FailedHosts is set and AssignedHost removed; an error is retried.
UnassignFailed(w) ==
    /\ At(w, "unassignFailed")
    /\ \/ /\ Exists(tr[TaskOf(w)])
          /\ UpdateTaskRunWithRetry(TaskOf(w), Obj(w), "events")
          /\ Goto(w, "mark", Absent)
          /\ UNCHANGED timers
       \/ ~Exists(tr[TaskOf(w)]) /\ Requeue(w) /\ UNCHANGED storeVars
    /\ UNCHANGED <<cache, secret, prov, cloudVars, queue, late, faultVars>>

\* ProvisionTaskProcessed is stored.
MarkProcessed(w) ==
    /\ At(w, "mark")
    /\ prov' = [prov EXCEPT ![TaskOf(w)] = "processed"]
    /\ Return(w)
    /\ UNCHANGED <<tr, pending, cache, secret, cloudVars, queue, timers, late,
                   faultVars>>

-----------------------------------------------------------------------------
(***************************************************************************)
(* Failing calls and restarts.                                             *)
(***************************************************************************)

Fault(kind) ==
    /\ kind \in FaultKinds
    /\ faults < MaxFaults
    /\ faults' = faults + 1

\* The error ends the reconcile, which is retried with a backoff.  (For
\* assign: a conflict that outlasts the retries.  For deleteSecret: the
\* secret cannot be read.)
ErrorRequeues(w) ==
    /\ worker[w].pc \in {"assign", "fail", "errorSecret", "release",
                         "deleteSecret", "unassignFailed", "mark"}
    /\ Fault(worker[w].pc)
    /\ Requeue(w)
    /\ UNCHANGED <<tr, pending, cache, secret, prov, cloudVars, queue, late, lost>>

\* An update whose error Allocate only logs.
UpdateLost(w) ==
    /\ worker[w].pc \in {"wait", "countFailure", "remove"}
    /\ Fault(worker[w].pc)
    /\ IF At(w, "remove") THEN AfterRemoval(w) ELSE Requeue(w)
    /\ UNCHANGED <<tr, pending, cache, secret, prov, cloudVars, queue, late, lost>>

\* After a conflict the count of the latest object is kept: an extra retry.
LosesCount(w) ==
    LET t == TaskOf(w) IN
    /\ At(w, "countFailure")
    /\ Fault("conflict")
    /\ Exists(tr[t])
    /\ Put(t, Merged(tr[t], [Obj(w) EXCEPT !.failures = tr[t].failures]),
           "events")
    /\ Requeue(w)
    /\ UNCHANGED <<cache, secret, prov, cloudVars, queue, late, lost>>

LaunchFails(w) ==
    /\ At(w, "launch")
    /\ Fault("launch")
    /\ CountsFailure(w)
    /\ UNCHANGED <<tr, pending, cache, secret, prov, cloudVars, queue, timers,
                   late, lost>>

\* The instance cannot be recorded.
RecordFails(w) ==
    /\ At(w, "record")
    /\ Fault("record")
    /\ Goto(w, "abandon", Obj(w))
    /\ UNCHANGED <<tr, pending, cache, secret, prov, cloudVars, queue, timers,
                   late, lost>>

\* TerminateInstance fails: logged.  The id of the instance stays, except
\* that an instance that could not be recorded is recorded nowhere.
TerminateFails(w) ==
    /\ worker[w].pc \in {"abandon", "terminate", "deallocate"}
    /\ Fault(worker[w].pc)
    /\ \/ At(w, "abandon") /\ Fails(w)
       \/ At(w, "terminate")
          /\ Goto(w, "remove", [Obj(w) EXCEPT !.assigned = FALSE])
       \/ At(w, "deallocate") /\ Obj(w).instance # None
          /\ Goto(w, "release", Released(Obj(w)))
    /\ lost' = IF At(w, "terminate") THEN lost ELSE lost \cup {Obj(w).instance}
    /\ UNCHANGED <<tr, pending, cache, secret, prov, cloudVars, queue, timers,
                   late>>

\* The assignment cannot be stored, other than by a conflict.
AssignFails(w) ==
    /\ At(w, "assign")
    /\ Fault("assign")
    /\ Fails(w)
    /\ UNCHANGED <<tr, pending, cache, secret, prov, cloudVars, queue, timers,
                   late, lost>>

\* The provision TaskRun cannot be created: the instance is terminated.  If
\* it is the SSH secret that cannot be read, there is an error secret and the
\* assignment stays.
ProvisionLaunchFails(w) ==
    /\ At(w, "provision")
    /\ Fault("provision")
    /\ \/ Goto(w, "terminate", Obj(w)) /\ UNCHANGED secret
       \/ ErrorSecret(TaskOf(w)) /\ Return(w)
    /\ UNCHANGED <<tr, pending, cache, prov, cloudVars, queue, timers, late, lost>>

\* The secret cannot be deleted: logged, and the secret stays.
SecretDeleteFails(w) ==
    /\ At(w, "deleteSecret")
    /\ Fault("deleteSecret")
    /\ Goto(w, "wake", Absent)
    /\ UNCHANGED <<tr, pending, cache, secret, prov, cloudVars, queue, timers,
                   late, lost>>

\* A read of a user TaskRun's reconcile fails.  The TaskRun and, when it is
\* done, the configuration are read again later, and so is the state of an
\* instance; the address of an instance is not, it is terminated; any other
\* read (secret, number of instances) ends in an error secret.
UserReadFails(w, t) ==
    LET o == tr[t]
        allocates == ~Ignored(o) /\ ~Done(o)
    IN
    /\ Available(w, <<t, "user">>)
    /\ t \in queue
    /\ Fault("read")
    /\ queue' = queue \ {t}
    /\ \/ timers' = timers \cup {t} /\ UNCHANGED worker
       \/ /\ allocates
          /\ Begin(w, FailPC(o), <<t, "user">>, o, o)
          /\ UNCHANGED timers
       \/ /\ allocates /\ secret[t] = "none" /\ ~o.failed /\ o.instance # None
          /\ Begin(w, "terminate", <<t, "user">>, Absent, o)
          /\ UNCHANGED timers
    /\ UNCHANGED <<tr, pending, cache, secret, prov, cloudVars, late, lost>>

\* The id of instance i is stored, with the finalizer.
Recorded(i) == tr[owner[i]].instance = i /\ tr[owner[i]].finalizer

\* The controller restarts: the queue, its timers and the reconciles in
\* progress are lost; the informer lists every TaskRun anew.
Restart ==
    /\ Fault("crash")
    /\ worker' = [w \in Workers |-> Idle]
    /\ timers' = {}
    /\ pending' = [t \in Tasks |-> "none"]
    /\ cache' = tr
    /\ queue' = {t \in Tasks : Exists(tr[t])}
    /\ lost' = lost \cup {i \in Live : ~Recorded(i)}
    /\ UNCHANGED <<tr, secret, prov, cloudVars, late>>

-----------------------------------------------------------------------------
(***************************************************************************)
(* Users, Tekton and the cloud (external).                                 *)
(***************************************************************************)

Stores(t, o) ==
    /\ Put(t, o, "events")
    /\ UNCHANGED <<cache, secret, prov, cloudVars, queue, timers, late, worker,
                   faultVars>>

CreateTask(t) ==
    tr[t].phase = "absent" /\ Stores(t, [Absent EXCEPT !.phase = "running"])

\* A pod runs, to its end, once it can mount the secret.
TaskCompletes(t) ==
    /\ tr[t].phase = "running" /\ secret[t] # "none"
    /\ Stores(t, [tr[t] EXCEPT !.phase = "completed"])

TaskCancelled(t) ==
    /\ "cancel" \in Mishaps
    /\ tr[t].phase = "running" /\ secret[t] = "none"
    /\ Stores(t, [tr[t] EXCEPT !.phase = "completed"])

DeleteTask(t) ==
    /\ "delete" \in Mishaps
    /\ Exists(tr[t]) /\ ~tr[t].deleting
    /\ Stores(t, [tr[t] EXCEPT !.deleting = TRUE])

\* The timeout since AllocationStartTime passes.
TimePasses(t) ==
    /\ tr[t].instance # None
    /\ late' = late \cup {t}
    /\ UNCHANGED <<tr, pending, cache, secret, prov, cloudVars, queue, timers,
                   worker, faultVars>>

\* An instance gets its address, or fails.
InstanceStarts(i) ==
    /\ cloud[i] = "starting"
    /\ \/ cloud' = [cloud EXCEPT ![i] = "up"]
       \/ "broken" \in Mishaps /\ cloud' = [cloud EXCEPT ![i] = "broken"]
    /\ UNCHANGED <<tr, pending, cache, secret, prov, owner, queue, timers, late,
                   worker, faultVars>>

\* provision-shared-host on the instance of t.
HostUp(t) == \E i \in Instances : owner[i] = t /\ cloud[i] = "up"
ProvisionEnds(t) ==
    /\ prov[t] = "running"
    /\ \/ /\ HostUp(t) /\ secret[t] = "none"
          /\ prov' = [prov EXCEPT ![t] = "succeeded"]
          /\ secret' = [secret EXCEPT ![t] = "ssh"]
       \/ /\ "noSecret" \in Mishaps /\ HostUp(t)
          /\ prov' = [prov EXCEPT ![t] = "succeeded"]
          /\ UNCHANGED secret
       \/ /\ "provisionFails" \in Mishaps \/ ~HostUp(t) \/ secret[t] # "none"
          /\ prov' = [prov EXCEPT ![t] = "failed"]
          /\ UNCHANGED secret
    /\ UNCHANGED <<tr, pending, cache, cloudVars, queue, timers, late, worker,
                   faultVars>>

-----------------------------------------------------------------------------

\* The next call of a reconcile in progress.
WorkerStep(w) ==
    \/ WaitForRoom(w) \/ Launch(w) \/ QuotaReached(w) \/ CountFailure(w)
    \/ RecordInstance(w) \/ AbandonInstance(w) \/ AssignInstance(w)
    \/ LaunchProvision(w) \/ TerminateInstance(w) \/ RemoveInstance(w)
    \/ AddErrorFinalizer(w) \/ CreateErrorSecret(w)
    \/ Deallocate(w) \/ ReleaseTask(w) \/ DeleteSecret(w) \/ WakeWaiting(w)
    \/ UnassignFailed(w) \/ MarkProcessed(w)

WorkerFault(w) ==
    \/ ErrorRequeues(w) \/ UpdateLost(w) \/ LosesCount(w) \/ LaunchFails(w)
    \/ RecordFails(w) \/ TerminateFails(w) \/ AssignFails(w)
    \/ ProvisionLaunchFails(w) \/ SecretDeleteFails(w)
    \/ \E t \in Tasks : UserReadFails(w, t)

User(t) ==
    CreateTask(t) \/ TaskCompletes(t) \/ TaskCancelled(t) \/ DeleteTask(t)

Next ==
    \/ Restart
    \/ \E t \in Tasks : Deliver(t) \/ TimerFires(t) \/ TimePasses(t)
    \/ \E t \in Tasks : User(t) \/ ProvisionEnds(t)
    \/ \E i \in Instances : InstanceStarts(i)
    \/ \E w \in Workers : WorkerStep(w) \/ WorkerFault(w)
    \/ \E w \in Workers, t \in Tasks :
          ReconcileUser(w, t) \/ ReconcileProvision(w, t)

Spec == Init /\ [][Next]_vars

\* As in HostPool; besides, an instance starts or fails, and time passes.
Fairness ==
    /\ \A w \in Workers : WF_vars(WorkerStep(w))
    /\ \A t \in Tasks :
          /\ WF_vars(Deliver(t)) /\ WF_vars(TimerFires(t))
          /\ WF_vars(TimePasses(t))
          /\ SF_vars(\E w \in Workers : ReconcileUser(w, t))
          /\ SF_vars(\E w \in Workers : ReconcileProvision(w, t))
          /\ WF_vars(TaskCompletes(t)) /\ WF_vars(ProvisionEnds(t))
    /\ \A i \in Instances : WF_vars(InstanceStarts(i))

FairSpec == Spec /\ Fairness

-----------------------------------------------------------------------------
(***************************************************************************)
(* Properties.                                                             *)
(***************************************************************************)

\* Every instance that is not terminated is recorded, with the finalizer, on
\* the TaskRun it was launched for, or a reconcile of that TaskRun has it in
\* hand: whatever is cancelled, deleted or fails in between, an instance is
\* only lost by a restart or together with the error of its termination.
Held(i) == \E w \in Workers : /\ worker[w].key = <<owner[i], "user">>
                              /\ worker[w].obj.instance = i
InstanceAccounted == \A i \in Live \ lost : Recorded(i) \/ Held(i)

\* A TaskRun has one instance at a time that is not lost, also when an
\* instance it is to be rid of cannot be terminated.
OneInstancePerTask == \A i, j \in Live \ lost : owner[i] = owner[j] => i = j

\* max-instances can be exceeded, but by no more than the other workers of the
\* controller, each of which may have counted before the others launched.
Launching == {w \in Workers : worker[w].pc = "launch"}
InstanceBound ==
    Cardinality(Live) + Cardinality(Launching)
        <= MaxInstances + Cardinality(Workers) - 1

\* What the proof of InstanceBound rests on: types, and that a busy worker has
\* a key, and an instance when it is to record or abandon one.
Busy == {r \in Worker :
            /\ r.pc # "idle" /\ r.key \in Key
            /\ r.pc \in {"record", "abandon"} => r.obj.instance # None}
StoreOK ==
    /\ tr \in [Tasks -> TaskRun] /\ cache \in [Tasks -> TaskRun]
    /\ pending \in [Tasks -> {"none", "events", "assignment"}]
WorkersOK == worker \in [Workers -> Busy \cup {Idle}]
JobsOK ==
    /\ secret \in [Tasks -> {"none", "ssh", "error"}]
    /\ prov \in [Tasks -> ProvStates]
    /\ queue \subseteq Tasks /\ timers \subseteq Tasks /\ late \subseteq Tasks
    /\ faults \in 0..MaxFaults
CloudOK ==
    /\ cloud \in [Instances -> CloudStates]
    /\ owner \in [Instances -> Tasks \cup {None}]
    /\ lost \subseteq Instances
DynInv == StoreOK /\ WorkersOK /\ JobsOK /\ CloudOK

\* The host behind an SSH secret stays up for as long as its TaskRun runs: no
\* timeout, retry or late outcome of a provision TaskRun terminates it.
HostStaysUp ==
    \A t \in Tasks :
        secret[t] = "ssh" /\ tr[t].phase = "running" /\ ~tr[t].deleting
        => HostUp(t)

\* An instance of a TaskRun that is over is terminated, or it was lost.
InstanceTerminated ==
    \A i \in Instances :
        (i \in Live \ lost /\ Done(tr[owner[i]])) ~> i \notin Live \ lost

\* A TaskRun gets a secret, or ends, also when instances fail, launches fail
\* and all instances are in use for a while.
EventuallyServed ==
    \A t \in Tasks : Exists(tr[t]) ~>
        (~Exists(tr[t]) \/ Done(tr[t]) \/ secret[t] # "none")
=============================================================================
