------------------------------ MODULE HostPool ------------------------------
(***************************************************************************)
(* The TaskRun reconciler and the static host pool of the multi platform   *)
(* controller: pkg/reconciler/taskrun/taskrun.go and hostpool.go.          *)
(*                                                                         *)
(* User TaskRuns ask for a host of one platform.  Workers of the           *)
(* controller reconcile TaskRuns taken from a work queue: they assign a    *)
(* host, launch a provision TaskRun on it, react to its outcome, and clean *)
(* the host up when the user TaskRun is done.  One step of a worker is one *)
(* writing API call; the reads that precede it in the code are taken in    *)
(* the step that starts the reconcile (they have no effect of their own,   *)
(* and every write still happens after them, interleaved with everything   *)
(* else).                                                                  *)
(*                                                                         *)
(* Two copies of the user TaskRuns exist: tr, what the API server stores   *)
(* (read by r.apiReader), and cache, the informer cache that r.client      *)
(* reads.  Each stored change is an event of the ordered watch stream;     *)
(* its delivery updates the cache and puts the TaskRun on the work queue.  *)
(***************************************************************************)
EXTENDS Integers, Sequences, FiniteSets

CONSTANTS
    NumTasks,      \* user TaskRuns 1..NumTasks, numbered by creation time
    Hosts,         \* hosts configured for the platform
    Concurrency,   \* Concurrency[h]: the host's concurrency limit
    MissingKey,    \* hosts whose SSH secret does not exist
    Workers,       \* the MaxConcurrentReconciles workers of the controller
    None,          \* no host
    Mishaps,       \* what may go wrong outside the controller, of MishapKinds
    MaxLag,        \* bound: watch events not delivered yet
    PromptWatch,   \* watch events take less time than a retry's delay, a pod
    FaultKinds,    \* the API calls that may fail, by pc; "crash": a restart
    MaxFaults      \* bound: failed API calls and restarts of a behaviour

\* A TaskRun is cancelled, or deleted, or has a malformed PLATFORM; a
\* provision TaskRun fails, or makes no secret; a cleanup TaskRun fails.
MishapKinds == {"cancel", "delete", "malformed", "provisionFails", "noSecret",
                "cleanFails"}

ASSUME ConstantsAssumption ==
    /\ NumTasks \in Nat
    /\ Concurrency \in [Hosts -> Nat]
    /\ MissingKey \subseteq Hosts
    /\ None \notin Hosts
    /\ Mishaps \subseteq MishapKinds
    /\ MaxLag \in Nat /\ MaxFaults \in Nat
    /\ PromptWatch \in BOOLEAN

VARIABLES
    tr,         \* tr[t]: the user TaskRun the API server stores
    watch,      \* watch events on user TaskRuns not delivered yet
    cache,      \* cache[t]: the informer cache's copy of tr[t]
    secret,     \* secret[t]: the multi-platform-ssh- secret of t
    prov,       \* prov[<<t, h>>]: the provision TaskRun for t on h
    processed,  \* provision TaskRuns with ProvisionTaskProcessed = "true"
    clean,      \* clean[<<t, h>>]: the cleanup TaskRun for t on h
    accounts,   \* <<t, h>>: h has a user account for t (external)
    queue,      \* user TaskRuns on the work queue
    timers,     \* user TaskRuns to be queued later (RequeueAfter, backoff)
    worker,     \* worker[w]: the reconcile w is in
    faults,     \* failed API calls and restarts so far
    abandoned   \* history: accounts <<t, h>> and secrets <<t, None>> that
                \* nobody removes, for a cause outside the release of t

storeVars == <<tr, watch>>
jobVars == <<prov, processed, clean, accounts, abandoned>>
vars == <<tr, watch, cache, secret, prov, processed, clean, accounts,
          queue, timers, worker, faults, abandoned>>

Tasks == 1..NumTasks
Leases == Tasks \X Hosts

-----------------------------------------------------------------------------
(***************************************************************************)
(* TaskRuns and their keys.                                                *)
(***************************************************************************)

\* What the controller reads and writes of a user TaskRun: whether its
\* PLATFORM is well formed, its phase (running: CompletionTime = nil),
\* DeletionTimestamp, the labels AssignedHost, WaitingForPlatform and
\* FinishedWaiting, the annotation FailedHosts and the finalizer.
TaskRun == [valid     : BOOLEAN,
            phase     : {"absent", "running", "completed", "gone"},
            deleting  : BOOLEAN,
            assigned  : Hosts \cup {None},
            waiting   : BOOLEAN,
            woken     : BOOLEAN,
            failed    : SUBSET Hosts,
            finalizer : BOOLEAN]

Absent == [valid |-> TRUE, phase |-> "absent", deleting |-> FALSE,
           assigned |-> None, waiting |-> FALSE, woken |-> FALSE,
           failed |-> {}, finalizer |-> FALSE]

Created(valid) == [Absent EXCEPT !.phase = "running", !.valid = valid]
Gone == [Absent EXCEPT !.phase = "gone"]

Exists(o) == o.phase \in {"running", "completed"}
Done(o) == o.phase = "completed" \/ o.deleting

\* A provision or cleanup TaskRun; none also when it has been deleted.
JobState == {"none", "running", "succeeded", "failed"}
Finished == {"succeeded", "failed"}

\* What a worker reconciles: a user TaskRun t, as <<t, None>>, or the
\* provision TaskRun for t on h, as <<t, h>>.
UserKey(t) == <<t, None>>
NoKey == <<0, None>>
Keys == Tasks \X (Hosts \cup {None})

PCs == {"idle", "assign", "launch", "unassign", "wait", "fail",
        "errorSecret", "configFail", "configSecret", "deallocate", "release",
        "deleteSecret", "wake", "unassignFailed", "mark"}

\* A reconcile in progress: where it is, what it reconciles, the user
\* TaskRun it holds in memory (obj), the stored version that copy was read
\* or last written as (seen), and the host it is about.
Worker == [pc : PCs, key : Keys \cup {NoKey}, obj : TaskRun, seen : TaskRun,
           host : Hosts \cup {None}]
Idle == [pc |-> "idle", key |-> NoKey, obj |-> Absent, seen |-> Absent,
         host |-> None]

TypeOK ==
    /\ tr \in [Tasks -> TaskRun]
    /\ watch \in Seq([task : Tasks, obj : TaskRun])
    /\ cache \in [Tasks -> TaskRun]
    /\ secret \in [Tasks -> {"none", "ssh", "error"}]
    /\ prov \in [Leases -> JobState]
    /\ processed \subseteq Leases
    /\ clean \in [Leases -> JobState]
    /\ accounts \subseteq Leases
    /\ queue \subseteq Tasks
    /\ timers \subseteq Tasks
    /\ worker \in [Workers -> Worker]
    /\ faults \in 0..MaxFaults
    /\ abandoned \subseteq Keys

Init ==
    /\ tr = [t \in Tasks |-> Absent]
    /\ watch = <<>>
    /\ cache = tr
    /\ secret = [t \in Tasks |-> "none"]
    /\ prov = [l \in Leases |-> "none"]
    /\ processed = {}
    /\ clean = [l \in Leases |-> "none"]
    /\ accounts = {}
    /\ queue = {}
    /\ timers = {}
    /\ worker = [w \in Workers |-> Idle]
    /\ faults = 0
    /\ abandoned = {}

-----------------------------------------------------------------------------
(***************************************************************************)
(* The API server.                                                         *)
(***************************************************************************)

\* An object marked for deletion disappears with its last finalizer.
Settled(o) == IF o.deleting /\ ~o.finalizer THEN Gone ELSE o

\* Store o as t.  An update that changes nothing makes no watch event.
Put(t, o) ==
    IF Settled(o) = tr[t]
    THEN UNCHANGED storeVars
    ELSE /\ Len(watch) < MaxLag
         /\ tr' = [tr EXCEPT ![t] = Settled(o)]
         /\ watch' = Append(watch, [task |-> t, obj |-> Settled(o)])

\* Mutant of Merged: a managed label the caller removed is kept.
MergedMutant(latest, mine) ==
    [latest EXCEPT !.assigned  = IF mine.assigned = None THEN @
                                 ELSE mine.assigned,
                   !.waiting   = mine.waiting,
                   !.failed    = mine.failed,
                   !.finalizer = mine.finalizer]

\* updateTaskRun: the managed labels and annotations and the finalizer of
\* the caller's copy replace those of the latest object; FinishedWaiting
\* is not managed and the status belongs to Tekton, so the latest stays.
\* An update without conflict stores the same object.
Merged(latest, mine) ==
    [latest EXCEPT !.assigned  = mine.assigned,
                   !.waiting   = mine.waiting,
                   !.failed    = mine.failed,
                   !.finalizer = mine.finalizer]

UpdateTaskRunWithRetry(t, mine) == Put(t, Merged(tr[t], mine))

\* The informer takes the next watch event: the cache catches up with it
\* and the work queue gets its key.
Deliver ==
    /\ watch # <<>>
    /\ watch' = Tail(watch)
    /\ cache' = [cache EXCEPT ![Head(watch).task] = Head(watch).obj]
    /\ queue' = queue \cup {Head(watch).task}
    /\ UNCHANGED <<tr, secret, jobVars, timers, worker, faults>>

\* The cache's copy of t is the stored version.
Fresh(t) == \A i \in 1..Len(watch) : watch[i].task # t

-----------------------------------------------------------------------------
(***************************************************************************)
(* The work queue and the workers.                                         *)
(***************************************************************************)

\* A key is handed to one worker at a time; a key that is added while it is
\* being reconciled waits on the queue.
Available(w, key) ==
    /\ worker[w].pc = "idle"
    /\ \A v \in Workers : worker[v].key # key

\* A delayed key (RequeueAfter, or the backoff after an error) is added.
TimerFires(t) ==
    /\ t \in timers
    /\ PromptWatch => watch = <<>>
    /\ timers' = timers \ {t}
    /\ queue' = queue \cup {t}
    /\ UNCHANGED <<tr, watch, cache, secret, jobVars, worker, faults>>

\* The reconcile of w starts at pc, having read seen and holding o; it goes
\* on without needing its copy, or with o, whose version is that of the
\* update just made if there was no conflict; it ends.
Begin(w, pc, key, seen, o, h) ==
    worker' = [worker EXCEPT ![w] =
        [pc |-> pc, key |-> key, obj |-> o, seen |-> seen, host |-> h]]
Goto(w, pc) ==
    worker' = [worker EXCEPT
        ![w].pc = pc, ![w].seen = Absent,
        ![w].obj = [Absent EXCEPT !.valid = worker[w].obj.valid]]
Keep(w, pc, o) ==
    worker' = [worker EXCEPT ![w].pc = pc, ![w].obj = o,
        ![w].seen = IF @ = tr[worker[w].key[1]] THEN tr'[worker[w].key[1]]
                    ELSE @]
Return(w) == worker' = [worker EXCEPT ![w] = Idle]

\* An error, or RequeueAfter: the key is to be queued again.  A provision or
\* cleanup TaskRun is on the queue, or due on it, for as long as it has a
\* reconcile to come: its completion, the ProvisionTaskProcessed update, an
\* error and RequeueAfter each put it there.  So only the keys of user
\* TaskRuns are kept in queue and timers.
Requeue(w) ==
    /\ Return(w)
    /\ timers' = IF worker[w].key[2] = None
                 THEN timers \cup {worker[w].key[1]} ELSE timers

At(w, pc) == worker[w].pc = pc
TaskOf(w) == worker[w].key[1]

\* Mutant of NotServed: no error is returned, so there is no retry.
NotServedMutant(w) == Return(w) /\ UNCHANGED timers

\* The end of a reconcile of a user TaskRun that could not be served: it
\* returns an error, so that it is retried, except that a malformed PLATFORM
\* is none (whether or not the error secret could be created).
NotServed(w) ==
    IF worker[w].pc \in {"fail", "errorSecret"} /\ ~worker[w].obj.valid
    THEN Return(w) /\ UNCHANGED timers
    ELSE Requeue(w)
Reconciles(w, kind) == (worker[w].key[2] = None) = (kind = "user")

-----------------------------------------------------------------------------
(***************************************************************************)
(* Reconcile of a user TaskRun: handleUserTask, HostPool.Allocate.         *)
(***************************************************************************)

\* The host count of Allocate: user TaskRuns the cache shows assigned to h.
Load(h) == Cardinality({u \in Tasks : cache[u].assigned = h})
Free(h) == Concurrency[h] - Load(h)

\* Mutant of MostFree: the hosts are not filtered by FailedHosts.
MostFreeMutant(S) ==
    {h \in Hosts : Free(h) > 0 /\ \A g \in Hosts : Free(g) <= Free(h)}

\* The hosts of S with the most free spots, if any has one; the code keeps
\* the first of them in map order, which is arbitrary.
MostFree(S) == {h \in S : Free(h) > 0 /\ \A g \in S : Free(g) <= Free(h)}

\* Mutant of Ignored: a TaskRun that has a host is allocated one again.
IgnoredMutant(o) ==
    \/ ~Exists(o)
    \/ o.assigned = None /\ Done(o) /\ ~o.finalizer

\* handleUserTask and handleHostAssigned return without doing anything.
Ignored(o) ==
    \/ ~Exists(o)
    \/ o.assigned # None /\ ~Done(o)
    \/ o.assigned = None /\ Done(o) /\ ~o.finalizer

\* createErrorSecret first stores the finalizer if o does not have it.
FailPC(o) == IF o.finalizer THEN "errorSecret" ELSE "fail"
ConfigPC(o) == IF o.finalizer THEN "configSecret" ELSE "configFail"

\* What handleHostAllocation sets out to do.
Allocates(w, t, o) ==
    LET open == Hosts \ o.failed IN
    \/ /\ secret[t] # "none"                     \* skipping allocation
       /\ UNCHANGED worker
    \/ /\ secret[t] = "none"
       /\ open = {}                              \* no hosts, or all failed
       /\ Begin(w, FailPC(o), UserKey(t), o, o, None)
    \/ /\ secret[t] = "none"
       /\ open # {} /\ MostFree(open) = {}
       /\ IF o.waiting
          THEN UNCHANGED worker
          ELSE Begin(w, "wait", UserKey(t), o,
                     [o EXCEPT !.waiting = TRUE], None)
    \/ /\ secret[t] = "none"
       /\ \E h \in MostFree(open) :
             Begin(w, "assign", UserKey(t), o,
                   [o EXCEPT !.assigned = h, !.waiting = FALSE,
                             !.finalizer = TRUE], h)

\* Reconcile reads the TaskRun from the API server, not from the cache.
ReconcileUser(w, t) ==
    LET o == tr[t] IN
    /\ Available(w, UserKey(t))
    /\ t \in queue
    /\ queue' = queue \ {t}
    /\ \/ Ignored(o) /\ UNCHANGED worker
       \/ ~Ignored(o) /\ Done(o)
          /\ Begin(w, "deallocate", UserKey(t), o, o, o.assigned)
       \/ ~Ignored(o) /\ ~Done(o) /\ ~o.valid
          /\ Begin(w, FailPC(o), UserKey(t), o, o, None)
       \/ ~Ignored(o) /\ ~Done(o) /\ o.valid /\ Allocates(w, t, o)
    /\ UNCHANGED <<tr, watch, cache, secret, jobVars, timers, faults>>


\* Allocate: no host is free.  The label is stored and a retry is due in a
\* minute; a TaskRun that is gone meanwhile makes the update fail.
WaitForHost(w) ==
    /\ At(w, "wait")
    /\ IF Exists(tr[TaskOf(w)])
       THEN UpdateTaskRunWithRetry(TaskOf(w), worker[w].obj) /\ Requeue(w)
       ELSE /\ UNCHANGED <<tr, watch, timers>>
            /\ Keep(w, FailPC(worker[w].obj), worker[w].obj)
    /\ UNCHANGED <<cache, secret, jobVars, queue, faults>>

\* Allocate: the host is recorded, with the finalizer.
AssignHost(w) ==
    /\ At(w, "assign")
    /\ IF Exists(tr[TaskOf(w)])
       THEN UpdateTaskRunWithRetry(TaskOf(w), worker[w].obj)
            /\ Keep(w, "launch", worker[w].obj)
       ELSE Goto(w, "errorSecret") /\ UNCHANGED storeVars
    /\ UNCHANGED <<cache, secret, jobVars, queue, timers, faults>>

\* Creating an error secret; one that exists is left alone, and the garbage
\* collector removes the secret of an owner that is gone.
ErrorSecret(t) ==
    secret' = IF secret[t] = "none" /\ Exists(tr[t])
              THEN [secret EXCEPT ![t] = "error"] ELSE secret

\* launchProvisioningTask: without the SSH secret there is an error secret
\* and no provision TaskRun, and no error.
LaunchProvision(w) ==
    LET l == <<TaskOf(w), worker[w].host>> IN
    /\ At(w, "launch")
    /\ IF worker[w].host \in MissingKey
       THEN ErrorSecret(TaskOf(w)) /\ UNCHANGED prov
       ELSE /\ prov' = IF prov[l] = "none"
                       THEN [prov EXCEPT ![l] = "running"] ELSE prov
            /\ UNCHANGED secret
    /\ Return(w)
    /\ UNCHANGED <<tr, watch, cache, processed, clean, accounts, abandoned,
                   queue, timers, faults>>

\* Allocate, after a failed launch: give the host up.
UnassignHost(w) ==
    /\ At(w, "unassign")
    /\ IF Exists(tr[TaskOf(w)])
       THEN UpdateTaskRunWithRetry(TaskOf(w), worker[w].obj)
       ELSE UNCHANGED storeVars
    /\ Keep(w, "fail", worker[w].obj)
    /\ UNCHANGED <<cache, secret, jobVars, queue, timers, faults>>

\* createErrorSecret, the finalizer: a plain update, so a TaskRun that is
\* not the caller's version any more is a conflict and there is no secret.
AddErrorFinalizer(w) ==
    LET t == TaskOf(w)
        o == worker[w].obj
    IN
    /\ At(w, "fail") \/ At(w, "configFail")
    /\ \/ /\ tr[t] = worker[w].seen
          /\ Put(t, [o EXCEPT !.finalizer = TRUE])
          /\ Goto(w, IF At(w, "fail") THEN "errorSecret" ELSE "configSecret")
          /\ UNCHANGED timers
       \/ /\ tr[t] # worker[w].seen
          /\ NotServed(w)
          /\ UNCHANGED storeVars
    /\ UNCHANGED <<cache, secret, jobVars, queue, faults>>

\* createErrorSecret, the secret.  A provision TaskRun's reconcile goes on.
\* A user TaskRun's returns the error that led here, unless that is a
\* malformed PLATFORM or a configuration that cannot be read.
CreateErrorSecret(w) ==
    /\ At(w, "errorSecret") \/ At(w, "configSecret")
    /\ ErrorSecret(TaskOf(w))
    /\ \/ Reconciles(w, "provision") /\ Goto(w, "mark") /\ UNCHANGED timers
       \/ Reconciles(w, "user") /\ At(w, "errorSecret") /\ NotServed(w)
       \/ At(w, "configSecret") /\ Return(w) /\ UNCHANGED timers
    /\ UNCHANGED <<tr, watch, cache, jobVars, queue, faults>>

-----------------------------------------------------------------------------
(***************************************************************************)
(* A user TaskRun is done: handleHostAssigned, HostPool.Deallocate,        *)
(* handleWaitingTasks.                                                     *)
(***************************************************************************)

\* AssignedHost and the finalizer are removed from o.
Released(o) == [o EXCEPT !.assigned = None, !.finalizer = FALSE]

\* Mutant of Deallocate: the host is not found, so nothing is cleaned up.
DeallocateMutant(w) ==
    /\ At(w, "deallocate")
    /\ UNCHANGED <<tr, watch, cache, secret, jobVars, queue, timers, faults>>
    /\ Keep(w, "release", Released(worker[w].obj))

\* Deallocate: a cleanup TaskRun on the host, unless the user TaskRun has
\* one already.
Deallocate(w) ==
    LET t == TaskOf(w)
        h == worker[w].host
        cleaned == \E g \in Hosts : clean[<<t, g>>] # "none"
    IN
    /\ At(w, "deallocate")
    /\ clean' = IF h = None \/ cleaned THEN clean
                ELSE [clean EXCEPT ![<<t, h>>] = "running"]
    /\ UNCHANGED <<tr, watch, cache, secret, prov, processed, accounts,
                   abandoned, queue, timers, faults>>
    /\ Keep(w, "release", Released(worker[w].obj))

\* The finalizer and the assignment are removed; an error is retried.
ReleaseHost(w) ==
    /\ At(w, "release")
    /\ IF Exists(tr[TaskOf(w)])
       THEN /\ UpdateTaskRunWithRetry(TaskOf(w), worker[w].obj)
            /\ Goto(w, "deleteSecret")
            /\ UNCHANGED timers
       ELSE Requeue(w) /\ UNCHANGED storeVars
    /\ UNCHANGED <<cache, secret, jobVars, queue, faults>>

\* Mutant of DeleteSecret: it returns before handleWaitingTasks.
DeleteSecretMutant(w) ==
    /\ At(w, "deleteSecret")
    /\ secret' = [secret EXCEPT ![TaskOf(w)] = "none"]
    /\ Return(w)
    /\ UNCHANGED <<tr, watch, cache, jobVars, queue, timers, faults>>

\* The secret is deleted; one that does not exist is no error.
DeleteSecret(w) ==
    /\ At(w, "deleteSecret")
    /\ secret' = [secret EXCEPT ![TaskOf(w)] = "none"]
    /\ Goto(w, "wake")
    /\ UNCHANGED <<tr, watch, cache, jobVars, queue, timers, faults>>

\* handleWaitingTasks: label the oldest TaskRun the cache shows waiting with
\* FinishedWaiting.  A plain update of the cached copy: a conflict is logged
\* and dropped.
WakeOldest(w) ==
    LET waiting == {u \in Tasks : cache[u].waiting}
        Wake(u) == IF Fresh(u) THEN Put(u, [tr[u] EXCEPT !.woken = TRUE])
                   ELSE UNCHANGED storeVars
    IN
    /\ At(w, "wake")
    /\ \/ waiting = {} /\ UNCHANGED storeVars
       \/ \E u \in waiting : (\A v \in waiting : u <= v) /\ Wake(u)
    /\ Return(w)
    /\ UNCHANGED <<cache, secret, jobVars, queue, timers, faults>>

-----------------------------------------------------------------------------
(***************************************************************************)
(* Reconcile of provision and cleanup TaskRuns: handleProvisionTask and    *)
(* handleCleanTask.                                                        *)
(***************************************************************************)

\* A provision TaskRun that has been processed is deleted, a failed one
\* after it was kept for an hour.
RemoveProvision(w, t, h) ==
    /\ <<t, h>> \in processed
    /\ Available(w, <<t, h>>)
    /\ prov' = [prov EXCEPT ![<<t, h>>] = "none"]
    /\ processed' = processed \ {<<t, h>>}
    /\ UNCHANGED <<tr, watch, cache, secret, clean, accounts, abandoned, queue,
                   timers, worker, faults>>

\* The watch has delivered the assignment of h to t: no undelivered event
\* makes it.  User and provision TaskRuns share one ordered watch, so what a
\* reconcile of the provision TaskRun reads of t is no older than that.
Delivered(t, h) ==
    \A i \in 1..Len(watch) :
        watch[i].task = t /\ watch[i].obj.assigned = h
        => /\ cache[t].assigned = h
           /\ \A j \in 1..(i - 1) :
                 watch[j].task = t => watch[j].obj.assigned = h

\* A provision TaskRun has finished: after a failure the host is to be added
\* to FailedHosts of the cached user TaskRun and its AssignedHost removed;
\* after a success without a secret there is to be an error secret.
ReconcileProvision(w, t, h) ==
    LET mine == cache[t] IN
    /\ prov[<<t, h>>] \in Finished /\ <<t, h>> \notin processed
    /\ Available(w, <<t, h>>)
    /\ Delivered(t, h)
    /\ \/ /\ prov[<<t, h>>] = "failed" /\ Exists(mine)
          /\ Begin(w, "unassignFailed", <<t, h>>, mine,
                   [mine EXCEPT !.failed = @ \cup {h}, !.assigned = None], h)
       \/ /\ prov[<<t, h>>] = "succeeded" /\ Exists(mine) /\ secret[t] = "none"
          /\ Begin(w, FailPC(mine), <<t, h>>, mine, mine, h)
       \/ /\ Exists(mine) => prov[<<t, h>>] = "succeeded" /\ secret[t] # "none"
          /\ Begin(w, "mark", <<t, h>>, Absent, Absent, h)
    /\ UNCHANGED <<tr, watch, cache, secret, jobVars, queue, timers, faults>>

\* Mutant of UnassignFailedHost: the update of the user TaskRun is left out.
UnassignFailedHostMutant(w) ==
    /\ At(w, "unassignFailed")
    /\ Goto(w, "mark")
    /\ UNCHANGED <<tr, watch, cache, secret, jobVars, queue, timers, faults>>

\* After a failed provision TaskRun: the user TaskRun's update; an error is
\* retried.
UnassignFailedHost(w) ==
    /\ At(w, "unassignFailed")
    /\ IF Exists(tr[TaskOf(w)])
       THEN /\ UpdateTaskRunWithRetry(TaskOf(w), worker[w].obj)
            /\ Goto(w, "mark")
            /\ UNCHANGED timers
       ELSE Requeue(w) /\ UNCHANGED storeVars
    /\ UNCHANGED <<cache, secret, jobVars, queue, faults>>

\* Mutant of MarkProcessed: the annotation is only set in memory.
MarkProcessedMutant(w) ==
    /\ At(w, "mark")
    /\ Return(w)
    /\ UNCHANGED <<tr, watch, cache, secret, jobVars, queue, timers, faults>>

\* ProvisionTaskProcessed is stored.
MarkProcessed(w) ==
    /\ At(w, "mark")
    /\ processed' = processed \cup {worker[w].key}
    /\ Return(w)
    /\ UNCHANGED <<tr, watch, cache, secret, prov, clean, accounts, abandoned,
                   queue, timers, faults>>

\* A finished cleanup TaskRun is deleted, a failed one after an hour.
ReconcileClean(t, h) ==
    /\ clean[<<t, h>>] \in Finished
    /\ clean' = [clean EXCEPT ![<<t, h>>] = "none"]
    /\ UNCHANGED <<tr, watch, cache, secret, prov, processed, accounts,
                   abandoned, queue, timers, worker, faults>>

-----------------------------------------------------------------------------
(***************************************************************************)
(* Failing API calls and restarts.                                         *)
(***************************************************************************)

Fault(kind) ==
    /\ kind \in FaultKinds
    /\ faults < MaxFaults
    /\ faults' = faults + 1

\* History: these accounts and secrets stay, whatever follows.
Abandon(K) == abandoned' = abandoned \cup K

\* The error ends the reconcile, which is retried with a backoff.  (For
\* assign and wait: a conflict that outlasts the retries; for deleteSecret:
\* the secret cannot be read, and the retry finds the TaskRun released.)
ErrorRequeues(w) ==
    /\ worker[w].pc \in {"assign", "wait", "fail", "errorSecret", "release",
                         "deleteSecret", "unassignFailed", "mark"}
    /\ Fault(worker[w].pc)
    /\ NotServed(w)
    /\ Abandon(IF At(w, "deleteSecret") THEN {UserKey(TaskOf(w))} ELSE {})
    /\ UNCHANGED <<tr, watch, cache, secret, prov, processed, clean, accounts,
                   queue>>

\* The error secret for a configuration that cannot be read fails: it is
\* tried once more, with the finalizer already set in the copy in memory.
ErrorSecretAgain(w) ==
    /\ worker[w].pc \in {"configFail", "configSecret"}
    /\ Fault(worker[w].pc)
    /\ Goto(w, "errorSecret")
    /\ UNCHANGED <<tr, watch, cache, secret, jobVars, queue, timers>>

\* Any other error of an update in Allocate ends in an error secret.
ErrorFailsAllocation(w) ==
    /\ worker[w].pc \in {"assign", "wait", "unassign"}
    /\ Fault(worker[w].pc)
    /\ UNCHANGED <<tr, watch, cache, secret, jobVars, queue, timers>>
    /\ Keep(w, FailPC(worker[w].obj), worker[w].obj)

\* The provision TaskRun cannot be created: the host is to be given up.
LaunchFails(w) ==
    /\ At(w, "launch")
    /\ Fault("launch")
    /\ UNCHANGED <<tr, watch, cache, secret, jobVars, queue, timers>>
    /\ Keep(w, "unassign", Released(worker[w].obj))

\* launchProvisioningTask cannot read the SSH secret: as if it were missing.
KeyReadFails(w) ==
    /\ At(w, "launch")
    /\ Fault("key")
    /\ ErrorSecret(TaskOf(w))
    /\ Return(w)
    /\ UNCHANGED <<tr, watch, cache, jobVars, queue, timers>>

\* The cleanup TaskRun cannot be created: logged, and the release goes on.
DeallocateFails(w) ==
    /\ At(w, "deallocate")
    /\ Fault("deallocate")
    /\ Abandon({<<TaskOf(w), worker[w].host>>} \cap accounts)
    /\ UNCHANGED <<tr, watch, cache, secret, prov, processed, clean, accounts,
                   queue, timers>>
    /\ Keep(w, "release", Released(worker[w].obj))

\* The secret cannot be deleted: logged, and the secret stays.
SecretDeleteFails(w) ==
    /\ At(w, "deleteSecret")
    /\ Fault("deleteSecret")
    /\ Goto(w, "wake")
    /\ Abandon({UserKey(TaskOf(w))})
    /\ UNCHANGED <<tr, watch, cache, secret, prov, processed, clean, accounts,
                   queue, timers>>

\* The oldest waiting TaskRun cannot be listed or updated: logged, dropped.
WakeFails(w) ==
    /\ At(w, "wake")
    /\ Fault("wake")
    /\ Return(w)
    /\ UNCHANGED <<tr, watch, cache, secret, jobVars, queue, timers>>

\* A read of a user TaskRun's reconcile fails.  The TaskRun itself and, when
\* it is done, the configuration are read again later; in
\* handleHostAllocation it ends in an error secret, and for the configuration
\* that is not an error.
UserReadFails(w, t) ==
    LET o == tr[t] IN
    /\ Available(w, UserKey(t))
    /\ t \in queue
    /\ Fault("read")
    /\ queue' = queue \ {t}
    /\ \/ timers' = timers \cup {t} /\ UNCHANGED worker
       \/ /\ ~Ignored(o) /\ ~Done(o) /\ o.valid
          /\ \E pc \in {FailPC(o)} \cup
                       (IF secret[t] = "none" THEN {ConfigPC(o)} ELSE {}) :
                Begin(w, pc, UserKey(t), o, o, None)
          /\ UNCHANGED timers
    /\ UNCHANGED <<tr, watch, cache, secret, jobVars>>

\* handleProvisionTask cannot read the user TaskRun of a failed provision
\* TaskRun: FailedHosts and AssignedHost stay as they are.
ProvisionReadFails(w, t, h) ==
    /\ prov[<<t, h>>] = "failed" /\ <<t, h>> \notin processed
    /\ Available(w, <<t, h>>)
    /\ Delivered(t, h)
    /\ Fault("read")
    /\ Begin(w, "mark", <<t, h>>, Absent, Absent, h)
    /\ UNCHANGED <<tr, watch, cache, secret, jobVars, queue, timers>>

\* The controller restarts: the queue, its timers and the reconciles in
\* progress are lost; the informer lists every TaskRun anew.
Restart ==
    /\ Fault("crash")
    /\ worker' = [w \in Workers |-> Idle]
    /\ timers' = {}
    /\ watch' = <<>>
    /\ cache' = tr
    /\ queue' = {t \in Tasks : Exists(tr[t])}
    /\ UNCHANGED <<tr, secret, jobVars>>

-----------------------------------------------------------------------------
(***************************************************************************)
(* Users, Tekton and the hosts (external).                                 *)
(***************************************************************************)

CreateTask(t) ==
    /\ tr[t].phase = "absent"
    /\ \A u \in Tasks : u < t => tr[u].phase # "absent"
    /\ \/ Put(t, Created(TRUE))
       \/ "malformed" \in Mishaps /\ Put(t, Created(FALSE))
    /\ UNCHANGED <<cache, secret, jobVars, queue, timers, worker, faults>>

Completes(t) ==
    /\ tr[t].phase = "running"
    /\ Put(t, [tr[t] EXCEPT !.phase = "completed"])
    /\ UNCHANGED <<cache, secret, jobVars, queue, timers, worker, faults>>

\* The pod of t runs once it can mount the secret; then it ends.
TaskCompletes(t) ==
    /\ secret[t] # "none"
    /\ PromptWatch => Fresh(t)
    /\ Completes(t)

\* A TaskRun is cancelled or times out before it has its secret.
TaskCancelled(t) == "cancel" \in Mishaps /\ secret[t] = "none" /\ Completes(t)

DeleteTask(t) ==
    /\ "delete" \in Mishaps
    /\ Exists(tr[t]) /\ ~tr[t].deleting
    /\ Put(t, [tr[t] EXCEPT !.deleting = TRUE])
    /\ UNCHANGED <<cache, secret, jobVars, queue, timers, worker, faults>>

\* provision-shared-host: an account is made on the host, then the secret in
\* the namespace of t; neither may exist yet.  (History: if t has ended
\* meanwhile, its release may be over and remove neither.)
ProvisionSucceeds(t, h) ==
    /\ prov[<<t, h>>] = "running"
    /\ secret[t] = "none" /\ <<t, h>> \notin accounts
    /\ prov' = [prov EXCEPT ![<<t, h>>] = "succeeded"]
    /\ \/ secret' = [secret EXCEPT ![t] = "ssh"]
       \/ "noSecret" \in Mishaps /\ UNCHANGED secret
    /\ accounts' = accounts \cup {<<t, h>>}
    /\ Abandon(IF Exists(tr[t]) /\ ~Done(tr[t]) THEN {}
               ELSE {<<t, h>>, UserKey(t)})
    /\ UNCHANGED <<tr, watch, cache, processed, clean, queue, timers, worker,
                   faults>>

\* It may fail before or after it made the account, and then handleProvisionTask
\* takes the host from t without a cleanup.
ProvisionFails(t, h) ==
    /\ prov[<<t, h>>] = "running"
    /\ \/ "provisionFails" \in Mishaps
       \/ secret[t] # "none" \/ <<t, h>> \in accounts
    /\ prov' = [prov EXCEPT ![<<t, h>>] = "failed"]
    /\ accounts' \in {accounts, accounts \cup {<<t, h>>}}
    /\ Abandon({<<t, h>>} \cap accounts')
    /\ UNCHANGED <<tr, watch, cache, secret, processed, clean, queue, timers,
                   worker, faults>>

\* clean-shared-host: the account is removed.
CleanSucceeds(t, h) ==
    /\ clean[<<t, h>>] = "running"
    /\ clean' = [clean EXCEPT ![<<t, h>>] = "succeeded"]
    /\ accounts' = accounts \ {<<t, h>>}
    /\ UNCHANGED <<tr, watch, cache, secret, prov, processed, abandoned, queue,
                   timers, worker, faults>>

CleanFails(t, h) ==
    /\ "cleanFails" \in Mishaps
    /\ clean[<<t, h>>] = "running"
    /\ clean' = [clean EXCEPT ![<<t, h>>] = "failed"]
    /\ Abandon({<<t, h>>} \cap accounts)
    /\ UNCHANGED <<tr, watch, cache, secret, prov, processed, accounts,
                   queue, timers, worker, faults>>

-----------------------------------------------------------------------------

\* The next write of a reconcile in progress.
WorkerStep(w) ==
    \/ WaitForHost(w) \/ AssignHost(w) \/ LaunchProvision(w)
    \/ UnassignHost(w) \/ AddErrorFinalizer(w) \/ CreateErrorSecret(w)
    \/ Deallocate(w) \/ ReleaseHost(w) \/ DeleteSecret(w) \/ WakeOldest(w)
    \/ UnassignFailedHost(w) \/ MarkProcessed(w)

\* A worker takes the next key.
ReconcileProvisionKey(w, t, h) ==
    ReconcileProvision(w, t, h) \/ RemoveProvision(w, t, h)

WorkerFault(w) ==
    \/ ErrorRequeues(w) \/ ErrorSecretAgain(w) \/ ErrorFailsAllocation(w)
    \/ LaunchFails(w) \/ KeyReadFails(w) \/ DeallocateFails(w)
    \/ SecretDeleteFails(w) \/ WakeFails(w)
    \/ \E t \in Tasks : UserReadFails(w, t)
    \/ \E t \in Tasks, h \in Hosts : ProvisionReadFails(w, t, h)

User(t) ==
    CreateTask(t) \/ TaskCompletes(t) \/ TaskCancelled(t) \/ DeleteTask(t)

Job(t, h) ==
    \/ ProvisionSucceeds(t, h) \/ ProvisionFails(t, h)
    \/ CleanSucceeds(t, h) \/ CleanFails(t, h)

Next ==
    \/ Deliver
    \/ Restart
    \/ \E t \in Tasks : TimerFires(t)
    \/ \E w \in Workers : WorkerStep(w) \/ WorkerFault(w)
    \/ \E w \in Workers, t \in Tasks : ReconcileUser(w, t)
    \/ \E w \in Workers, t \in Tasks, h \in Hosts :
          ReconcileProvisionKey(w, t, h)
    \/ \E t \in Tasks : User(t)
    \/ \E t \in Tasks, h \in Hosts : Job(t, h) \/ ReconcileClean(t, h)

Spec == Init /\ [][Next]_vars

\* Watch events are delivered, timers fire, a reconcile in progress goes on,
\* the work queue is first-in first-out so that a queued key is taken, a
\* TaskRun with its secret runs to its end, and Tekton ends its jobs.  No
\* fairness for users (creation, cancellation, deletion) nor for faults.
Fairness ==
    /\ WF_vars(Deliver)
    /\ \A w \in Workers : WF_vars(WorkerStep(w))
    /\ \A t \in Tasks :
          /\ WF_vars(TimerFires(t))
          /\ SF_vars(\E w \in Workers : ReconcileUser(w, t))
          /\ WF_vars(TaskCompletes(t))
    /\ \A t \in Tasks, h \in Hosts :
          /\ SF_vars(\E w \in Workers : ReconcileProvisionKey(w, t, h))
          /\ WF_vars(ProvisionSucceeds(t, h) \/ ProvisionFails(t, h))

FairSpec == Spec /\ Fairness

-----------------------------------------------------------------------------
(***************************************************************************)
(* Properties.                                                             *)
(***************************************************************************)

\* A TaskRun that holds a host has the finalizer, so that it cannot go away
\* before handleHostAssigned has run: no writer of the two fields, stale or
\* not, separates them.
AssignedKeepsFinalizer ==
    \A t \in Tasks : tr[t].assigned # None => tr[t].finalizer

\* A TaskRun never holds a host that is on its FailedHosts list, whatever
\* FailedHosts updates of handleProvisionTask and Allocate overtake others.
AssignedNotFailed == \A t \in Tasks : tr[t].assigned \notin tr[t].failed

\* The inductive invariant behind the two: not only what is stored, but
\* every copy that may be written later (watch event, cached copy, object in
\* a worker's memory) has them; a busy worker has a key, and a worker that
\* deals with a provision TaskRun's outcome has that TaskRun's key.
Copy == {o \in TaskRun : /\ o.assigned # None => o.finalizer
                         /\ o.assigned \notin o.failed}
Busy == {r \in Worker :
            /\ r.pc # "idle" /\ r.key \in Keys /\ r.obj \in Copy
            /\ r.pc \in {"unassignFailed", "mark"} => r.key \in Leases}
StoreOK ==
    /\ tr \in [Tasks -> Copy]
    /\ watch \in Seq([task : Tasks, obj : Copy])
    /\ cache \in [Tasks -> Copy]
WorkersOK == worker \in [Workers -> Busy \cup {Idle}]
RestOK ==
    /\ secret \in [Tasks -> {"none", "ssh", "error"}]
    /\ prov \in [Leases -> JobState] /\ clean \in [Leases -> JobState]
    /\ processed \subseteq Leases /\ accounts \subseteq Leases
    /\ queue \subseteq Tasks /\ timers \subseteq Tasks
    /\ faults \in 0..MaxFaults /\ abandoned \subseteq Keys
CopiesConsistent == StoreOK /\ WorkersOK /\ RestOK

\* A running TaskRun without a secret that holds a host has a provision
\* TaskRun on it, or a worker about to launch one: an assigned TaskRun is
\* never reconciled again until it is done (handleHostAssigned), so nothing
\* else would ever give it a secret.
AssignedHasProvision ==
    \A t \in Tasks, h \in Hosts :
        tr[t].assigned = h /\ ~Done(tr[t]) /\ secret[t] = "none"
        => \/ prov[<<t, h>>] # "none"
           \/ \E w \in Workers : worker[w].key = UserKey(t)

AssignedTo(h) == {t \in Tasks : tr[t].assigned = h}

\* No wakeup is lost: when the controller has nothing left to do (no event,
\* retry or reconcile, and no TaskRun whose release is still to come and
\* will call handleWaitingTasks), no TaskRun waits for a host it could have.
\* The exception is a TaskRun that was woken before, found the host taken and
\* waits again: to wake it changes nothing, so that no event follows.
NothingToDo ==
    /\ queue \cup timers = {} /\ watch = <<>>
    /\ \A w \in Workers : worker[w].pc = "idle"
    /\ \A t \in Tasks : ~tr[t].finalizer
WokenBefore == {t \in Tasks : tr[t].waiting /\ tr[t].woken}
NoLostWakeup ==
    NothingToDo /\ WokenBefore = {} => \A t \in Tasks :
        tr[t].waiting /\ ~Done(tr[t]) /\ secret[t] = "none"
        => \A h \in Hosts \ tr[t].failed :
              Cardinality(AssignedTo(h)) >= Concurrency[h]

\* One host at a time is provisioned for a TaskRun: a second one is only
\* tried after the first has failed.
OneHostPerTask ==
    \A t \in Tasks, g, h \in Hosts :
        prov[<<t, g>>] \in {"running", "succeeded"}
        /\ prov[<<t, h>>] \in {"running", "succeeded"} => g = h

\* When a TaskRun is over and nothing on its behalf is in progress, no host
\* has an account for it any more and its SSH secret is gone, except for the
\* causes recorded: provisioning failed when it had made the account, or
\* ended after the TaskRun; the cleanup failed on the host; the call that
\* starts the cleanup, or the one that deletes the secret, failed.
Over(t) == tr[t].phase = "gone" \/ (Done(tr[t]) /\ ~tr[t].finalizer)
Quiet(t) == /\ \A w \in Workers : worker[w].key[1] # t
            /\ \A h \in Hosts :
                  /\ clean[<<t, h>>] = "none"
                  /\ prov[<<t, h>>] = "none" \/ <<t, h>> \in processed
NoLeftovers ==
    \A t \in Tasks : Over(t) /\ Quiet(t) =>
        /\ secret[t] = "ssh" => UserKey(t) \in abandoned
        /\ \A h \in Hosts : <<t, h>> \in accounts => <<t, h>> \in abandoned

\* At most Concurrency[h] TaskRuns are assigned to host h.
HostCapacity == \A h \in Hosts : Cardinality(AssignedTo(h)) <= Concurrency[h]

\* A TaskRun loses its host only when it is done, when provisioning that
\* host failed, or when its provision TaskRun could not be launched: then
\* Allocate gives the host up, or, if that update fails, createErrorSecret
\* writes the copy without it.
GivesUp(w, t, h) ==
    /\ worker[w].key = UserKey(t) /\ worker[w].host = h
    /\ worker[w].pc \in {"unassign", "fail"}
HostLostForCause ==
    [][\A t \in Tasks, h \in Hosts :
          tr[t].assigned = h /\ tr'[t].assigned # h
          => \/ Done(tr[t])
             \/ prov[<<t, h>>] = "failed"
             \/ \E w \in Workers : GivesUp(w, t, h)]_vars

\* In the end no running TaskRun is without a secret (an SSH secret, or an
\* error): it has a host, or is told why not, as README.adoc has it of a
\* TaskRun for which no host is available.
Unserved(t) == Exists(tr[t]) /\ ~Done(tr[t]) /\ secret[t] = "none"
EventuallyServed == <>[](\A t \in Tasks : ~Unserved(t))


\* The finalizer of a TaskRun that is done is removed, whatever calls fail
\* on the way and whether or not the controller restarts.
FinalizerRemoved ==
    \A t \in Tasks : (Done(tr[t]) /\ tr[t].finalizer) ~> ~tr[t].finalizer
=============================================================================
