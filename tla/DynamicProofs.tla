--------------------------- MODULE DynamicProofs ----------------------------
(***************************************************************************)
(* Proofs about Dynamic, for every number of TaskRuns, instances and       *)
(* workers, every limit and any failing calls and restarts: how far        *)
(* max-instances can be exceeded, which instances are accounted for, that  *)
(* a TaskRun has one of them, and that the host behind an SSH secret stays *)
(* up.                                                                     *)
(***************************************************************************)
EXTENDS Dynamic, FiniteSetTheorems, TLAPS

\* Most steps keep the invariant, launch nothing and let nobody else launch.
Calm == /\ DynInv'
        /\ Live' \subseteq Live
        /\ Launching' \subseteq Launching

(***************************************************************************)
(* Records and the operators that make them.                               *)
(***************************************************************************)

\* The records the model starts from have their types.
LEMMA Constants ==
    /\ Absent \in TaskRun /\ Gone \in TaskRun
    /\ Idle \in Worker /\ Idle \notin Busy
<1>1. Absent \in TaskRun
  BY DEF Absent, TaskRun
<1>2. Gone \in TaskRun
  BY <1>1 DEF Gone, TaskRun
<1>3. Idle \in Worker
  BY <1>1 DEF Idle, Worker, PCs
<1>4. QED
  BY <1>1, <1>2, <1>3 DEF Idle, Busy

\* The changes Allocate, Deallocate and updateTaskRun make give TaskRuns.
LEMMA Updated ==
    ASSUME NEW o \in TaskRun, NEW m \in TaskRun
    PROVE  /\ Merged(o, m) \in TaskRun
           /\ Released(o) \in TaskRun
           /\ Settled(o) \in TaskRun
           /\ [o EXCEPT !.finalizer = TRUE] \in TaskRun
           /\ [o EXCEPT !.phase = "completed"] \in TaskRun
           /\ [o EXCEPT !.deleting = TRUE] \in TaskRun
           /\ \A b \in BOOLEAN : /\ [o EXCEPT !.waiting = b] \in TaskRun
                                 /\ [o EXCEPT !.assigned = b] \in TaskRun
           /\ [o EXCEPT !.instance = None] \in TaskRun
           /\ [o EXCEPT !.instance = None, !.assigned = FALSE] \in TaskRun
           /\ [o EXCEPT !.failed = TRUE, !.assigned = FALSE] \in TaskRun
           /\ [o EXCEPT !.failures = m.failures] \in TaskRun
           /\ o.failures # 2 => [o EXCEPT !.failures = @ + 1] \in TaskRun
           /\ \A i \in Instances :
                 [o EXCEPT !.instance = i, !.finalizer = TRUE] \in TaskRun
<1>1. Merged(o, m) \in TaskRun /\ Released(o) \in TaskRun
  BY DEF Merged, Released, TaskRun
<1>2. Settled(o) \in TaskRun
  BY Constants DEF Settled
<1>3. o.failures # 2 => [o EXCEPT !.failures = @ + 1] \in TaskRun
  BY DEF TaskRun
<1>4. \A i \in Instances :
         [o EXCEPT !.instance = i, !.finalizer = TRUE] \in TaskRun
  BY DEF TaskRun
<1>5. /\ [o EXCEPT !.finalizer = TRUE] \in TaskRun
      /\ [o EXCEPT !.phase = "completed"] \in TaskRun
      /\ [o EXCEPT !.deleting = TRUE] \in TaskRun
      /\ \A b \in BOOLEAN : /\ [o EXCEPT !.waiting = b] \in TaskRun
                            /\ [o EXCEPT !.assigned = b] \in TaskRun
  BY DEF TaskRun
<1>6. /\ [o EXCEPT !.instance = None] \in TaskRun
      /\ [o EXCEPT !.instance = None, !.assigned = FALSE] \in TaskRun
      /\ [o EXCEPT !.failed = TRUE, !.assigned = FALSE] \in TaskRun
      /\ [o EXCEPT !.failures = m.failures] \in TaskRun
  BY DEF TaskRun
<1>7. QED
  BY <1>1, <1>2, <1>3, <1>4, <1>5, <1>6

(***************************************************************************)
(* The steps actions are made of.                                          *)
(***************************************************************************)

\* Storing a TaskRun.
LEMMA PutOK ==
    ASSUME StoreOK, NEW t \in Tasks, NEW o \in TaskRun,
           NEW kind \in {"events", "assignment"}, Put(t, o, kind),
           UNCHANGED cache
    PROVE  StoreOK'
<1>1. Settled(o) \in TaskRun
  BY Updated
<1>2. CASE Settled(o) = tr[t]
  BY <1>2 DEF Put, StoreOK, storeVars
<1>3. CASE Settled(o) # tr[t]
  <2> DEFINE p == IF pending[t] = "assignment" THEN pending[t] ELSE kind
  <2>1. tr' = [tr EXCEPT ![t] = Settled(o)] /\ pending' = [pending EXCEPT ![t] = p]
    BY <1>3 DEF Put
  <2>2. p \in {"none", "events", "assignment"}
    OBVIOUS
  <2> HIDE DEF p
  <2>3. QED
    BY <1>1, <2>1, <2>2 DEF StoreOK
<1>4. QED
  BY <1>2, <1>3

\* UpdateTaskRunWithRetry.
LEMMA UpdateOK ==
    ASSUME StoreOK, NEW t \in Tasks, NEW o \in TaskRun,
           NEW kind \in {"events", "assignment"},
           UpdateTaskRunWithRetry(t, o, kind), UNCHANGED cache
    PROVE  StoreOK'
<1>1. Merged(tr[t], o) \in TaskRun
  BY Updated DEF StoreOK
<1>2. QED
  BY <1>1, PutOK DEF UpdateTaskRunWithRetry

\* What a busy worker holds.
LEMMA BusyWorker ==
    ASSUME WorkersOK, NEW w \in Workers, worker[w].pc # "idle"
    PROVE  /\ worker[w] \in Busy /\ worker[w] \in Worker
           /\ TaskOf(w) \in Tasks /\ worker[w].key[2] \in {"user", "prov"}
           /\ Obj(w) \in TaskRun /\ worker[w].seen \in TaskRun
<1>1. worker[w] \in Busy
  BY DEF WorkersOK, Idle
<1>2. worker[w] \in Worker /\ worker[w].key \in Key
  BY <1>1 DEF Busy
<1>3. QED
  BY <1>1, <1>2 DEF Worker, Key, TaskOf, Obj

\* A reconcile that ends.
LEMMA ReturnOK ==
    ASSUME WorkersOK, NEW w \in Workers, Return(w)
    PROVE  WorkersOK' /\ Launching' \subseteq Launching
<1>1. \A v \in Workers : worker'[v] = IF v = w THEN Idle ELSE worker[v]
  BY DEF Return, WorkersOK
<1>2. WorkersOK'
  BY DEF WorkersOK, Return
<1>3. QED
  BY <1>1, <1>2 DEF Launching, Idle

\* A reconcile that ends with an error, or with RequeueAfter.
LEMMA RequeueOK ==
    ASSUME WorkersOK, NEW w \in Workers, worker[w].pc # "idle",
           timers \subseteq Tasks, Requeue(w)
    PROVE  /\ WorkersOK' /\ Launching' \subseteq Launching
           /\ timers' \subseteq Tasks
<1>1. WorkersOK' /\ Launching' \subseteq Launching
  BY ReturnOK DEF Requeue
<1>2. worker[w].key[1] \in Tasks
  BY BusyWorker DEF TaskOf
<1>3. QED
  BY <1>1, <1>2 DEF Requeue

\* A reconcile that goes on, with o.
LEMMA GotoOK ==
    ASSUME WorkersOK, NEW w \in Workers, worker[w].pc # "idle",
           NEW pc \in PCs \ {"idle", "launch"}, NEW o \in TaskRun,
           pc \in {"record", "abandon"} => o.instance # None,
           Goto(w, pc, o)
    PROVE  WorkersOK' /\ Launching' \subseteq Launching \ {w}
<1>1. worker[w] \in Busy /\ worker[w] \in Worker
  BY BusyWorker
<1> DEFINE s == IF pc = "fail" THEN worker[w].seen ELSE Absent
           r == [worker[w] EXCEPT !.pc = pc, !.obj = o, !.seen = s]
<1>2. s \in TaskRun
  BY <1>1, Constants DEF Worker
<1>3. worker' = [worker EXCEPT ![w] = r]
  BY <1>1 DEF Goto, WorkersOK
<1> HIDE DEF s
<1>4. r \in Busy /\ r.pc = pc
  BY <1>1, <1>2 DEF Busy, Worker, Key
<1> HIDE DEF r
<1>5. WorkersOK'
  BY <1>3, <1>4 DEF WorkersOK
<1>6. \A v \in Workers : worker'[v] = IF v = w THEN r ELSE worker[v]
  BY <1>3 DEF WorkersOK
<1>7. QED
  BY <1>4, <1>5, <1>6 DEF Launching

\* A reconcile that starts.
LEMMA BeginOK ==
    ASSUME WorkersOK, NEW w \in Workers, NEW key \in Key, NEW r,
           r \in Worker, r.key = key, r.pc \notin {"idle", "record", "abandon"},
           worker' = [worker EXCEPT ![w] = r]
    PROVE  /\ WorkersOK'
           /\ Launching' \subseteq
                 IF r.pc = "launch" THEN Launching \cup {w} ELSE Launching
<1>1. r \in Busy
  BY DEF Busy
<1>2. WorkersOK'
  BY <1>1 DEF WorkersOK
<1>3. \A v \in Workers : worker'[v] = IF v = w THEN r ELSE worker[v]
  BY DEF WorkersOK
<1>4. QED
  BY <1>2, <1>3 DEF Launching

\* Begin, in particular.
LEMMA BeginStep ==
    ASSUME WorkersOK, NEW w \in Workers, NEW key \in Key,
           NEW pc \in PCs \ {"idle", "record", "abandon"},
           NEW s \in TaskRun, NEW o \in TaskRun, Begin(w, pc, key, s, o)
    PROVE  /\ WorkersOK'
           /\ Launching' \subseteq
                 IF pc = "launch" THEN Launching \cup {w} ELSE Launching
<1> DEFINE r == [pc |-> pc, key |-> key, obj |-> o, seen |-> s,
                 after |-> "error"]
<1>1. r \in Worker /\ r.key = key /\ r.pc = pc
  BY DEF Worker
<1>2. worker' = [worker EXCEPT ![w] = r]
  BY DEF Begin
<1> HIDE DEF r
<1>3. QED
  BY <1>1, <1>2, BeginOK

\* The error of Allocate: an error secret is to come.
LEMMA FailsOK ==
    ASSUME WorkersOK, NEW w \in Workers, worker[w].pc # "idle", Fails(w)
    PROVE  WorkersOK' /\ Launching' \subseteq Launching \ {w}
<1>1. Obj(w) \in TaskRun /\ FailPC(Obj(w)) \in {"fail", "errorSecret"}
  BY BusyWorker DEF FailPC
<1>2. FailPC(Obj(w)) \in PCs \ {"idle", "launch"}
  BY <1>1 DEF PCs
<1>3. QED
  BY <1>1, <1>2, GotoOK DEF Fails

\* TerminateInstance.
LEMMA TerminatesOK ==
    ASSUME CloudOK, NEW i, Terminates(i), UNCHANGED <<owner, lost>>
    PROVE  CloudOK' /\ Live' \subseteq Live
<1>1. \A j \in Instances : cloud'[j] = cloud[j] \/ cloud'[j] = "terminated"
  BY DEF Terminates, CloudOK
<1>2. CloudOK'
  BY DEF Terminates, CloudOK, CloudStates
<1>3. QED
  BY <1>1, <1>2 DEF Live

\* The error secret.
LEMMA SecretOK ==
    ASSUME secret \in [Tasks -> {"none", "ssh", "error"}], NEW t \in Tasks,
           ErrorSecret(t)
    PROVE  secret' \in [Tasks -> {"none", "ssh", "error"}]
BY DEF ErrorSecret

\* A step that leaves the cloud alone.
LEMMA CloudKept ==
    ASSUME CloudOK, UNCHANGED <<cloud, owner, lost>>
    PROVE  CloudOK' /\ Live' \subseteq Live
BY DEF CloudOK, Live

(***************************************************************************)
(* The actions.                                                            *)
(***************************************************************************)

\* A failed launch is counted.
LEMMA CountsFailureOK ==
    ASSUME WorkersOK, NEW w \in Workers, worker[w].pc # "idle",
           CountsFailure(w)
    PROVE  WorkersOK' /\ Launching' \subseteq Launching
<1>1. Obj(w) \in TaskRun
  BY BusyWorker
<1>2. CASE Obj(w).failures = 2
  BY <1>2, FailsOK DEF CountsFailure
<1>3. CASE Obj(w).failures # 2
  <2>1. [Obj(w) EXCEPT !.failures = @ + 1] \in TaskRun
    BY <1>1, <1>3, Updated
  <2>2. QED
    BY <1>3, <2>1, GotoOK DEF CountsFailure, PCs
<1>4. QED
  BY <1>2, <1>3

\* After removeInstanceFromTask.
LEMMA AfterRemovalOK ==
    ASSUME WorkersOK, NEW w \in Workers, worker[w].pc # "idle",
           timers \subseteq Tasks, AfterRemoval(w)
    PROVE  /\ WorkersOK' /\ Launching' \subseteq Launching
           /\ timers' \subseteq Tasks
BY FailsOK, RequeueOK DEF AfterRemoval

\* A step of a reconcile in progress other than LaunchInstance.
LEMMA WorkerStepCalm ==
    ASSUME DynInv, NEW w \in Workers, WorkerStep(w), ~Launch(w)
    PROVE  Calm
<1> USE DEF DynInv
<1>1. /\ worker[w].pc # "idle"
      /\ worker[w] \in Busy /\ TaskOf(w) \in Tasks /\ Obj(w) \in TaskRun
      /\ timers \subseteq Tasks
      /\ worker[w].pc \in {"record", "abandon"} => Obj(w).instance # None
  <2>1. worker[w].pc # "idle"
    BY DEF WorkerStep, WaitForRoom, Launch, QuotaReached, CountFailure,
           RecordInstance, AbandonInstance, AssignInstance, LaunchProvision,
           TerminateInstance, RemoveInstance, AddErrorFinalizer,
           CreateErrorSecret, Deallocate, ReleaseTask, DeleteSecret,
           WakeWaiting, UnassignFailed, MarkProcessed, At
  <2>2. QED
    BY <2>1, BusyWorker DEF JobsOK, Busy, Obj
<1>2. CASE WaitForRoom(w)
  <2>1. StoreOK'
    BY <1>1, <1>2, UpdateOK DEF WaitForRoom, StoreOK, storeVars
  <2>2. WorkersOK' /\ Launching' \subseteq Launching /\ timers' \subseteq Tasks
    BY <1>1, <1>2, RequeueOK DEF WaitForRoom, JobsOK
  <2>3. JobsOK'
    BY <1>2, <2>2 DEF WaitForRoom, JobsOK, faultVars
  <2>4. CloudOK' /\ Live' \subseteq Live
    BY <1>2, CloudKept DEF WaitForRoom, cloudVars, faultVars
  <2>5. QED
    BY <2>1, <2>2, <2>3, <2>4 DEF Calm
<1>3. CASE QuotaReached(w)
  <2>1. StoreOK' /\ JobsOK'
    BY <1>3 DEF QuotaReached, StoreOK, JobsOK, faultVars
  <2>2. WorkersOK' /\ Launching' \subseteq Launching
    BY <1>1, <1>3, CountsFailureOK DEF QuotaReached
  <2>3. CloudOK' /\ Live' \subseteq Live
    BY <1>3, CloudKept DEF QuotaReached, cloudVars, faultVars
  <2>4. QED
    BY <2>1, <2>2, <2>3 DEF Calm
<1>4. CASE CountFailure(w)
  <2>1. StoreOK'
    BY <1>1, <1>4, UpdateOK DEF CountFailure, StoreOK, storeVars
  <2>2. WorkersOK' /\ Launching' \subseteq Launching /\ timers' \subseteq Tasks
    BY <1>1, <1>4, RequeueOK DEF CountFailure, JobsOK
  <2>3. JobsOK'
    BY <1>4, <2>2 DEF CountFailure, JobsOK, faultVars
  <2>4. CloudOK' /\ Live' \subseteq Live
    BY <1>4, CloudKept DEF CountFailure, cloudVars, faultVars
  <2>5. QED
    BY <2>1, <2>2, <2>3, <2>4 DEF Calm
<1>5. CASE RecordInstance(w)
  <2>1. StoreOK'
    BY <1>1, <1>5, UpdateOK DEF RecordInstance, StoreOK, storeVars
  <2>2. WorkersOK' /\ Launching' \subseteq Launching /\ timers' \subseteq Tasks
    <3>1. CASE Exists(tr[TaskOf(w)])
      BY <1>1, <1>5, <3>1, RequeueOK DEF RecordInstance
    <3>2. CASE ~Exists(tr[TaskOf(w)])
      BY <1>1, <1>5, <3>2, GotoOK DEF RecordInstance, PCs, At
    <3>3. QED
      BY <3>1, <3>2
  <2>3. JobsOK'
    BY <1>5, <2>2 DEF RecordInstance, JobsOK, faultVars
  <2>4. CloudOK' /\ Live' \subseteq Live
    BY <1>5, CloudKept DEF RecordInstance, cloudVars, faultVars
  <2>5. QED
    BY <2>1, <2>2, <2>3, <2>4 DEF Calm
<1>6. CASE AbandonInstance(w)
  <2>1. StoreOK'
    BY <1>6 DEF AbandonInstance, StoreOK
  <2>2. WorkersOK' /\ Launching' \subseteq Launching /\ timers' \subseteq Tasks
    BY <1>1, <1>6, FailsOK DEF AbandonInstance, JobsOK
  <2>3. JobsOK'
    BY <1>6, <2>2 DEF AbandonInstance, JobsOK, faultVars
  <2>4. CloudOK' /\ Live' \subseteq Live
    BY <1>6, TerminatesOK DEF AbandonInstance, faultVars
  <2>5. QED
    BY <2>1, <2>2, <2>3, <2>4 DEF Calm
<1>7. CASE AssignInstance(w)
  <2>1. StoreOK'
    BY <1>1, <1>7, UpdateOK DEF AssignInstance, StoreOK, storeVars
  <2>2. WorkersOK' /\ Launching' \subseteq Launching /\ timers' \subseteq Tasks
    <3>1. CASE Exists(tr[TaskOf(w)])
      BY <1>1, <1>7, <3>1, GotoOK DEF AssignInstance, PCs
    <3>2. CASE ~Exists(tr[TaskOf(w)])
      BY <1>1, <1>7, <3>2, FailsOK DEF AssignInstance
    <3>3. QED
      BY <3>1, <3>2
  <2>3. JobsOK'
    BY <1>7, <2>2 DEF AssignInstance, JobsOK, faultVars
  <2>4. CloudOK' /\ Live' \subseteq Live
    BY <1>7, CloudKept DEF AssignInstance, cloudVars, faultVars
  <2>5. QED
    BY <2>1, <2>2, <2>3, <2>4 DEF Calm
<1>8. CASE LaunchProvision(w)
  <2>1. StoreOK'
    BY <1>8 DEF LaunchProvision, StoreOK
  <2>2. WorkersOK' /\ Launching' \subseteq Launching /\ timers' \subseteq Tasks
    BY <1>8, ReturnOK DEF LaunchProvision, JobsOK
  <2>3. JobsOK'
    BY <1>1, <1>8, <2>2 DEF LaunchProvision, JobsOK, ProvStates, faultVars
  <2>4. CloudOK' /\ Live' \subseteq Live
    BY <1>8, CloudKept DEF LaunchProvision, cloudVars, faultVars
  <2>5. QED
    BY <2>1, <2>2, <2>3, <2>4 DEF Calm
<1>9. CASE TerminateInstance(w)
  <2>1. StoreOK'
    BY <1>9 DEF TerminateInstance, StoreOK
  <2>2. WorkersOK' /\ Launching' \subseteq Launching /\ timers' \subseteq Tasks
    BY <1>1, <1>9, GotoOK, Updated, Constants DEF TerminateInstance, JobsOK,
       PCs
  <2>3. JobsOK'
    BY <1>9, <2>2 DEF TerminateInstance, JobsOK, faultVars
  <2>4. CloudOK' /\ Live' \subseteq Live
    BY <1>9, TerminatesOK DEF TerminateInstance, faultVars
  <2>5. QED
    BY <2>1, <2>2, <2>3, <2>4 DEF Calm
<1>10. CASE RemoveInstance(w)
  <2>1. StoreOK'
    BY <1>1, <1>10, UpdateOK DEF RemoveInstance, StoreOK, storeVars
  <2>2. WorkersOK' /\ Launching' \subseteq Launching /\ timers' \subseteq Tasks
    BY <1>1, <1>10, AfterRemovalOK DEF RemoveInstance
  <2>3. JobsOK'
    BY <1>10, <2>2 DEF RemoveInstance, JobsOK, faultVars
  <2>4. CloudOK' /\ Live' \subseteq Live
    BY <1>10, CloudKept DEF RemoveInstance, cloudVars, faultVars
  <2>5. QED
    BY <2>1, <2>2, <2>3, <2>4 DEF Calm
<1>11. CASE AddErrorFinalizer(w)
  <2>1. StoreOK'
    <3>1. [Obj(w) EXCEPT !.finalizer = TRUE] \in TaskRun
      BY <1>1, Updated
    <3>2. QED
      BY <1>1, <1>11, <3>1, PutOK DEF AddErrorFinalizer, StoreOK, storeVars
  <2>2. WorkersOK' /\ Launching' \subseteq Launching /\ timers' \subseteq Tasks
    <3>1. CASE Requeue(w)
      BY <1>1, <3>1, RequeueOK
    <3>2. CASE Goto(w, "errorSecret", Absent) /\ UNCHANGED timers
      BY <1>1, <3>2, GotoOK, Constants DEF PCs
    <3>3. QED
      BY <1>11, <3>1, <3>2 DEF AddErrorFinalizer
  <2>3. JobsOK'
    BY <1>11, <2>2 DEF AddErrorFinalizer, JobsOK, faultVars
  <2>4. CloudOK' /\ Live' \subseteq Live
    BY <1>11, CloudKept DEF AddErrorFinalizer, cloudVars, faultVars
  <2>5. QED
    BY <2>1, <2>2, <2>3, <2>4 DEF Calm
<1>12. CASE CreateErrorSecret(w)
  <2>1. StoreOK'
    BY <1>12 DEF CreateErrorSecret, StoreOK
  <2>2. WorkersOK' /\ Launching' \subseteq Launching /\ timers' \subseteq Tasks
    <3>1. CASE Requeue(w)
      BY <1>1, <3>1, RequeueOK
    <3>2. CASE Goto(w, "mark", Absent) /\ UNCHANGED timers
      BY <1>1, <3>2, GotoOK, Constants DEF PCs
    <3>3. QED
      BY <1>12, <3>1, <3>2 DEF CreateErrorSecret
  <2>3. JobsOK'
    BY <1>1, <1>12, <2>2, SecretOK DEF CreateErrorSecret, JobsOK, faultVars
  <2>4. CloudOK' /\ Live' \subseteq Live
    BY <1>12, CloudKept DEF CreateErrorSecret, cloudVars, faultVars
  <2>5. QED
    BY <2>1, <2>2, <2>3, <2>4 DEF Calm
<1>13. CASE Deallocate(w)
  <2>1. StoreOK'
    BY <1>13 DEF Deallocate, StoreOK
  <2>2. WorkersOK' /\ Launching' \subseteq Launching /\ timers' \subseteq Tasks
    <3>1. Released([Obj(w) EXCEPT !.instance = None]) \in TaskRun
      BY <1>1, Updated
    <3>2. QED
      BY <1>1, <1>13, <3>1, GotoOK DEF Deallocate, PCs
  <2>3. JobsOK'
    BY <1>13, <2>2 DEF Deallocate, JobsOK, faultVars
  <2>4. CloudOK' /\ Live' \subseteq Live
    <3>1. CASE Terminates(Obj(w).instance)
      BY <1>13, <3>1, TerminatesOK DEF Deallocate, faultVars
    <3>2. CASE UNCHANGED cloud
      BY <1>13, <3>2, CloudKept DEF Deallocate, faultVars
    <3>3. QED
      BY <1>13, <3>1, <3>2 DEF Deallocate
  <2>5. QED
    BY <2>1, <2>2, <2>3, <2>4 DEF Calm
<1>14. CASE ReleaseTask(w)
  <2>1. StoreOK'
    BY <1>1, <1>14, UpdateOK DEF ReleaseTask, StoreOK, storeVars
  <2>2. WorkersOK' /\ Launching' \subseteq Launching /\ timers' \subseteq Tasks
    <3>1. CASE Requeue(w)
      BY <1>1, <3>1, RequeueOK
    <3>2. CASE Goto(w, "deleteSecret", Absent) /\ UNCHANGED timers
      BY <1>1, <3>2, GotoOK, Constants DEF PCs
    <3>3. QED
      BY <1>14, <3>1, <3>2 DEF ReleaseTask
  <2>3. JobsOK'
    BY <1>14, <2>2 DEF ReleaseTask, JobsOK, faultVars
  <2>4. CloudOK' /\ Live' \subseteq Live
    BY <1>14, CloudKept DEF ReleaseTask, cloudVars, faultVars
  <2>5. QED
    BY <2>1, <2>2, <2>3, <2>4 DEF Calm
<1>15. CASE DeleteSecret(w)
  <2>1. StoreOK'
    BY <1>15 DEF DeleteSecret, StoreOK
  <2>2. WorkersOK' /\ Launching' \subseteq Launching /\ timers' \subseteq Tasks
    BY <1>1, <1>15, GotoOK, Updated, Constants DEF DeleteSecret, JobsOK, PCs
  <2>3. JobsOK'
    BY <1>1, <1>15, <2>2 DEF DeleteSecret, JobsOK, faultVars
  <2>4. CloudOK' /\ Live' \subseteq Live
    BY <1>15, CloudKept DEF DeleteSecret, cloudVars, faultVars
  <2>5. QED
    BY <2>1, <2>2, <2>3, <2>4 DEF Calm
<1>16. CASE WakeWaiting(w)
  <2>1. StoreOK'
    BY <1>16 DEF WakeWaiting, StoreOK
  <2>2. WorkersOK' /\ Launching' \subseteq Launching /\ timers' \subseteq Tasks
    BY <1>16, ReturnOK DEF WakeWaiting, JobsOK
  <2>3. JobsOK'
    BY <1>16, <2>2 DEF WakeWaiting, JobsOK, faultVars
  <2>4. CloudOK' /\ Live' \subseteq Live
    BY <1>16, CloudKept DEF WakeWaiting, cloudVars, faultVars
  <2>5. QED
    BY <2>1, <2>2, <2>3, <2>4 DEF Calm
<1>17. CASE UnassignFailed(w)
  <2>1. StoreOK'
    BY <1>1, <1>17, UpdateOK DEF UnassignFailed, StoreOK, storeVars
  <2>2. WorkersOK' /\ Launching' \subseteq Launching /\ timers' \subseteq Tasks
    <3>1. CASE Requeue(w)
      BY <1>1, <3>1, RequeueOK
    <3>2. CASE Goto(w, "mark", Absent) /\ UNCHANGED timers
      BY <1>1, <3>2, GotoOK, Constants DEF PCs
    <3>3. QED
      BY <1>17, <3>1, <3>2 DEF UnassignFailed
  <2>3. JobsOK'
    BY <1>17, <2>2 DEF UnassignFailed, JobsOK, faultVars
  <2>4. CloudOK' /\ Live' \subseteq Live
    BY <1>17, CloudKept DEF UnassignFailed, cloudVars, faultVars
  <2>5. QED
    BY <2>1, <2>2, <2>3, <2>4 DEF Calm
<1>18. CASE MarkProcessed(w)
  <2>1. StoreOK'
    BY <1>18 DEF MarkProcessed, StoreOK
  <2>2. WorkersOK' /\ Launching' \subseteq Launching /\ timers' \subseteq Tasks
    BY <1>18, ReturnOK DEF MarkProcessed, JobsOK
  <2>3. JobsOK'
    BY <1>1, <1>18, <2>2 DEF MarkProcessed, JobsOK, ProvStates, faultVars
  <2>4. CloudOK' /\ Live' \subseteq Live
    BY <1>18, CloudKept DEF MarkProcessed, cloudVars, faultVars
  <2>5. QED
    BY <2>1, <2>2, <2>3, <2>4 DEF Calm
<1>19. QED
  BY <1>2, <1>3, <1>4, <1>5, <1>6, <1>7, <1>8, <1>9, <1>10, <1>11, <1>12,
     <1>13, <1>14, <1>15, <1>16, <1>17, <1>18 DEF WorkerStep

\* A failing call of a reconcile in progress.
LEMMA WorkerFaultCalm ==
    ASSUME DynInv, NEW w \in Workers, worker[w].pc # "idle",
           \/ ErrorRequeues(w) \/ UpdateLost(w) \/ LosesCount(w)
           \/ LaunchFails(w) \/ RecordFails(w) \/ TerminateFails(w)
           \/ AssignFails(w) \/ ProvisionLaunchFails(w) \/ SecretDeleteFails(w)
    PROVE  Calm
<1> USE DEF DynInv
<1>1. /\ worker[w] \in Busy /\ TaskOf(w) \in Tasks /\ Obj(w) \in TaskRun
      /\ timers \subseteq Tasks
      /\ worker[w].pc \in {"record", "abandon"} => Obj(w).instance # None
  BY BusyWorker DEF JobsOK, Busy, Obj
<1>2. CASE ErrorRequeues(w)
  <2>1. StoreOK'
    BY <1>2 DEF ErrorRequeues, StoreOK
  <2>2. WorkersOK' /\ Launching' \subseteq Launching /\ timers' \subseteq Tasks
    BY <1>2, <1>1, RequeueOK DEF ErrorRequeues
  <2>3. JobsOK'
    BY <1>2, <2>2, DynamicAssumption DEF ErrorRequeues, JobsOK, Fault
  <2>4. CloudOK' /\ Live' \subseteq Live
    BY <1>2, CloudKept DEF ErrorRequeues, cloudVars
  <2>5. QED
    BY <2>1, <2>2, <2>3, <2>4 DEF Calm
<1>3. CASE UpdateLost(w)
  <2>1. StoreOK'
    BY <1>3 DEF UpdateLost, StoreOK
  <2>2. WorkersOK' /\ Launching' \subseteq Launching /\ timers' \subseteq Tasks
    <3>1. CASE AfterRemoval(w)
      BY <1>1, <3>1, AfterRemovalOK
    <3>2. CASE Requeue(w)
      BY <1>1, <3>2, RequeueOK
    <3>3. QED
      BY <1>3, <3>1, <3>2 DEF UpdateLost
  <2>3. JobsOK'
    BY <1>3, <2>2, DynamicAssumption DEF UpdateLost, JobsOK, Fault
  <2>4. CloudOK' /\ Live' \subseteq Live
    BY <1>3, CloudKept DEF UpdateLost, cloudVars
  <2>5. QED
    BY <2>1, <2>2, <2>3, <2>4 DEF Calm
<1>4. CASE LosesCount(w)
  <2>1. StoreOK'
    <3>1. Merged(tr[TaskOf(w)],
                 [Obj(w) EXCEPT !.failures = tr[TaskOf(w)].failures])
             \in TaskRun
      BY <1>1, Updated DEF StoreOK
    <3>2. QED
      BY <1>1, <1>4, <3>1, PutOK DEF LosesCount
  <2>2. WorkersOK' /\ Launching' \subseteq Launching /\ timers' \subseteq Tasks
    BY <1>4, <1>1, RequeueOK DEF LosesCount
  <2>3. JobsOK'
    BY <1>4, <2>2, DynamicAssumption DEF LosesCount, JobsOK, Fault
  <2>4. CloudOK' /\ Live' \subseteq Live
    BY <1>4, CloudKept DEF LosesCount, cloudVars
  <2>5. QED
    BY <2>1, <2>2, <2>3, <2>4 DEF Calm
<1>5. CASE LaunchFails(w)
  <2>1. StoreOK'
    BY <1>5 DEF LaunchFails, StoreOK
  <2>2. WorkersOK' /\ Launching' \subseteq Launching /\ timers' \subseteq Tasks
    BY <1>5, <1>1, CountsFailureOK DEF LaunchFails
  <2>3. JobsOK'
    BY <1>5, <2>2, DynamicAssumption DEF LaunchFails, JobsOK, Fault
  <2>4. CloudOK' /\ Live' \subseteq Live
    BY <1>5, CloudKept DEF LaunchFails, cloudVars
  <2>5. QED
    BY <2>1, <2>2, <2>3, <2>4 DEF Calm
<1>6. CASE RecordFails(w)
  <2>1. StoreOK'
    BY <1>6 DEF RecordFails, StoreOK
  <2>2. WorkersOK' /\ Launching' \subseteq Launching /\ timers' \subseteq Tasks
    BY <1>6, <1>1, GotoOK DEF RecordFails, PCs, At
  <2>3. JobsOK'
    BY <1>6, <2>2, DynamicAssumption DEF RecordFails, JobsOK, Fault
  <2>4. CloudOK' /\ Live' \subseteq Live
    BY <1>6, CloudKept DEF RecordFails, cloudVars
  <2>5. QED
    BY <2>1, <2>2, <2>3, <2>4 DEF Calm
<1>7. CASE TerminateFails(w)
  <2>1. StoreOK'
    BY <1>7 DEF TerminateFails, StoreOK
  <2>2. WorkersOK' /\ Launching' \subseteq Launching /\ timers' \subseteq Tasks
    <3>1. CASE Fails(w)
      BY <1>1, <1>7, <3>1, FailsOK DEF TerminateFails
    <3>2. CASE Goto(w, "remove", [Obj(w) EXCEPT !.assigned = FALSE])
      <4>1. [Obj(w) EXCEPT !.assigned = FALSE] \in TaskRun
        BY <1>1, Updated
      <4>2. QED
        BY <1>1, <1>7, <3>2, <4>1, GotoOK DEF TerminateFails, PCs
    <3>3. CASE Goto(w, "release", Released(Obj(w)))
      <4>1. Released(Obj(w)) \in TaskRun
        BY <1>1, Updated
      <4>2. QED
        BY <1>1, <1>7, <3>3, <4>1, GotoOK DEF TerminateFails, PCs
    <3>4. QED
      BY <1>7, <3>1, <3>2, <3>3 DEF TerminateFails
  <2>3. JobsOK'
    BY <1>7, <2>2, DynamicAssumption DEF TerminateFails, JobsOK, Fault
  <2>4. CloudOK' /\ Live' \subseteq Live
    <3>1. Obj(w).instance \in Instances \/ At(w, "terminate")
      BY <1>1, <1>7 DEF TerminateFails, TaskRun, At
    <3>2. lost' \subseteq Instances /\ UNCHANGED <<cloud, owner>>
      BY <1>7, <3>1 DEF TerminateFails, CloudOK, cloudVars
    <3>3. QED
      BY <3>2 DEF CloudOK, Live
  <2>5. QED
    BY <2>1, <2>2, <2>3, <2>4 DEF Calm
<1>8. CASE AssignFails(w)
  <2>1. StoreOK'
    BY <1>8 DEF AssignFails, StoreOK
  <2>2. WorkersOK' /\ Launching' \subseteq Launching /\ timers' \subseteq Tasks
    BY <1>8, <1>1, FailsOK DEF AssignFails
  <2>3. JobsOK'
    BY <1>8, <2>2, DynamicAssumption DEF AssignFails, JobsOK, Fault
  <2>4. CloudOK' /\ Live' \subseteq Live
    BY <1>8, CloudKept DEF AssignFails, cloudVars
  <2>5. QED
    BY <2>1, <2>2, <2>3, <2>4 DEF Calm
<1>9. CASE ProvisionLaunchFails(w)
  <2>1. StoreOK'
    BY <1>9 DEF ProvisionLaunchFails, StoreOK
  <2>2. WorkersOK' /\ Launching' \subseteq Launching /\ timers' \subseteq Tasks
    <3>1. CASE Goto(w, "terminate", Obj(w))
      BY <1>1, <1>9, <3>1, GotoOK DEF ProvisionLaunchFails, PCs
    <3>2. CASE Return(w)
      BY <1>1, <1>9, <3>2, ReturnOK DEF ProvisionLaunchFails
    <3>3. QED
      BY <1>9, <3>1, <3>2 DEF ProvisionLaunchFails
  <2>3. JobsOK'
    <3>1. secret' \in [Tasks -> {"none", "ssh", "error"}]
      BY <1>1, <1>9, SecretOK DEF ProvisionLaunchFails, JobsOK
    <3>2. QED
      BY <1>9, <2>2, <3>1, DynamicAssumption
      DEF ProvisionLaunchFails, JobsOK, Fault
  <2>4. CloudOK' /\ Live' \subseteq Live
    BY <1>9, CloudKept DEF ProvisionLaunchFails, cloudVars
  <2>5. QED
    BY <2>1, <2>2, <2>3, <2>4 DEF Calm
<1>10. CASE SecretDeleteFails(w)
  <2>1. StoreOK'
    BY <1>10 DEF SecretDeleteFails, StoreOK
  <2>2. WorkersOK' /\ Launching' \subseteq Launching /\ timers' \subseteq Tasks
    BY <1>1, <1>10, GotoOK, Constants DEF SecretDeleteFails, PCs
  <2>3. JobsOK'
    BY <1>10, <2>2, DynamicAssumption DEF SecretDeleteFails, JobsOK, Fault
  <2>4. CloudOK' /\ Live' \subseteq Live
    BY <1>10, CloudKept DEF SecretDeleteFails, cloudVars
  <2>5. QED
    BY <2>1, <2>2, <2>3, <2>4 DEF Calm
<1>11. QED
  BY <1>2, <1>3, <1>4, <1>5, <1>6, <1>7, <1>8, <1>9, <1>10

\* A reconcile of a provision TaskRun starts.
LEMMA ReconcileProvisionCalm ==
    ASSUME DynInv, NEW w \in Workers, NEW t \in Tasks, ReconcileProvision(w, t)
    PROVE  Calm
<1> USE DEF DynInv
<1> DEFINE mine == cache[t]
           key == <<t, "prov">>
<1>1. mine \in TaskRun /\ Absent \in TaskRun /\ key \in Key
  BY Constants DEF StoreOK, Key
<1>2. StoreOK' /\ JobsOK'
  BY DEF ReconcileProvision, StoreOK, JobsOK, faultVars
<1>3. CloudOK' /\ Live' \subseteq Live
  BY CloudKept DEF ReconcileProvision, cloudVars, faultVars
<1>4. CASE Begin(w, "unassignFailed", key, Absent,
                 [mine EXCEPT !.failed = TRUE, !.assigned = FALSE])
  <2>1. [mine EXCEPT !.failed = TRUE, !.assigned = FALSE] \in TaskRun
    BY <1>1, Updated
  <2>2. WorkersOK' /\ Launching' \subseteq Launching
    BY <1>1, <1>4, <2>1, BeginStep DEF PCs
  <2>3. QED
    BY <1>2, <1>3, <2>2 DEF Calm
<1>5. CASE Begin(w, FailPC(mine), key, mine, mine)
  <2>1. WorkersOK' /\ Launching' \subseteq Launching
    BY <1>1, <1>5, BeginStep DEF PCs, FailPC
  <2>2. QED
    BY <1>2, <1>3, <2>1 DEF Calm
<1>6. CASE Begin(w, "mark", key, Absent, Absent)
  <2>1. WorkersOK' /\ Launching' \subseteq Launching
    BY <1>1, <1>6, BeginStep DEF PCs
  <2>2. QED
    BY <1>2, <1>3, <2>1 DEF Calm
<1>7. QED
  BY <1>4, <1>5, <1>6 DEF ReconcileProvision

\* A reconcile of a user TaskRun starts.  Either it counted fewer instances
\* than max-instances and is to launch one, or nobody new is to.
LEMMA AllocatesOK ==
    ASSUME DynInv, NEW w \in Workers, NEW t \in Tasks, Allocates(w, t, tr[t])
    PROVE  /\ WorkersOK' /\ timers' \subseteq Tasks
           /\ \/ Launching' \subseteq Launching
              \/ HasRoom /\ Launching' \subseteq Launching \cup {w}
<1> USE DEF DynInv
<1> DEFINE o == tr[t]
           key == <<t, "user">>
<1>1. /\ o \in TaskRun /\ Absent \in TaskRun /\ key \in Key
      /\ timers \subseteq Tasks /\ timers \cup {t} \subseteq Tasks
  BY Constants DEF StoreOK, JobsOK, Key
<1>2. UNCHANGED worker => WorkersOK' /\ Launching' \subseteq Launching
  BY DEF WorkersOK, Launching
<1>3. Begin(w, FailPC(o), key, o, o) =>
         WorkersOK' /\ Launching' \subseteq Launching
  BY <1>1, BeginStep DEF PCs, FailPC
<1>4. CASE o.instance # None /\ AwaitsAddress(w, t, o)
  <2>1. CASE Begin(w, "terminate", key, Absent, o)
    BY <1>1, <1>4, <2>1, BeginStep DEF PCs, AwaitsAddress
  <2>2. CASE Begin(w, "assign", key, Absent, [o EXCEPT !.assigned = TRUE])
    <3>1. [o EXCEPT !.assigned = TRUE] \in TaskRun
      BY <1>1, Updated
    <3>2. QED
      BY <1>1, <1>4, <2>2, <3>1, BeginStep DEF PCs, AwaitsAddress
  <2> DEFINE r == [pc |-> "terminate", key |-> key, obj |-> o,
                   seen |-> Absent, after |-> "retry"]
  <2>3. CASE worker' = [worker EXCEPT ![w] = r]
    <3>1. r \in Worker /\ r.key = key /\ r.pc = "terminate"
      BY <1>1 DEF Worker, PCs
    <3> HIDE DEF r
    <3>2. WorkersOK' /\ Launching' \subseteq Launching
      BY <1>1, <2>3, <3>1, BeginOK
    <3>3. QED
      BY <1>1, <1>4, <3>2 DEF AwaitsAddress
  <2>4. CASE UNCHANGED worker
    BY <1>1, <1>2, <1>4, <2>4 DEF AwaitsAddress
  <2>5. QED
    BY <1>4, <2>1, <2>2, <2>3, <2>4 DEF AwaitsAddress
<1>5. CASE WantsInstance(w, t, o)
  <2>1. \A b \in BOOLEAN : [o EXCEPT !.waiting = b] \in TaskRun
    BY <1>1, Updated
  <2>2. CASE HasRoom /\ Begin(w, "launch", key, o, [o EXCEPT !.waiting = FALSE])
             /\ UNCHANGED timers
    BY <1>1, <2>1, <2>2, BeginStep DEF PCs
  <2>3. CASE Begin(w, "wait", key, Absent, [o EXCEPT !.waiting = TRUE])
             /\ UNCHANGED timers
    BY <1>1, <2>1, <2>3, BeginStep DEF PCs
  <2>4. CASE UNCHANGED worker /\ timers' = timers \cup {t}
    BY <1>1, <1>2, <2>4
  <2>5. QED
    BY <1>5, <2>2, <2>3, <2>4 DEF WantsInstance
<1>6. QED
  BY <1>1, <1>2, <1>3, <1>4, <1>5 DEF Allocates

\* Reconcile of a user TaskRun, its reads failing or not.
LEMMA ReconcileUserOK ==
    ASSUME DynInv, NEW w \in Workers, NEW t \in Tasks,
           ReconcileUser(w, t) \/ UserReadFails(w, t)
    PROVE  \/ Calm
           \/ DynInv' /\ HasRoom /\ Live' \subseteq Live
<1> USE DEF DynInv
<1> DEFINE o == tr[t]
           key == <<t, "user">>
<1>1. /\ o \in TaskRun /\ Absent \in TaskRun /\ key \in Key
      /\ timers \subseteq Tasks /\ timers \cup {t} \subseteq Tasks
  BY Constants DEF StoreOK, JobsOK, Key
<1>2. StoreOK'
  BY DEF ReconcileUser, UserReadFails, StoreOK
<1>3. CloudOK' /\ Live' \subseteq Live
  BY CloudKept DEF ReconcileUser, UserReadFails, cloudVars, faultVars
<1>4. timers' \subseteq Tasks => JobsOK'
  BY DynamicAssumption
  DEF ReconcileUser, UserReadFails, JobsOK, faultVars, Fault
<1>5. CASE UNCHANGED worker /\ timers' \in {timers, timers \cup {t}}
  <2>1. WorkersOK' /\ Launching' \subseteq Launching
    BY <1>5 DEF WorkersOK, Launching
  <2>2. QED
    BY <1>1, <1>2, <1>3, <1>4, <1>5, <2>1 DEF Calm
<1>6. ASSUME NEW pc \in PCs \ {"idle", "launch", "record", "abandon"},
             NEW s \in TaskRun, Begin(w, pc, key, s, o), UNCHANGED timers
      PROVE  Calm
  <2>1. WorkersOK' /\ Launching' \subseteq Launching
    BY <1>1, <1>6, BeginStep
  <2>2. QED
    BY <1>1, <1>2, <1>3, <1>4, <1>6, <2>1 DEF Calm
<1>7. CASE Allocates(w, t, o)
  BY <1>2, <1>3, <1>4, <1>7, AllocatesOK DEF Calm
<1>8. CASE ReconcileUser(w, t)
  <2>1. Begin(w, "deallocate", key, Absent, o) /\ UNCHANGED timers => Calm
    BY <1>1, <1>6 DEF PCs
  <2>2. QED
    BY <1>5, <1>7, <1>8, <2>1 DEF ReconcileUser
<1>9. CASE UserReadFails(w, t)
  <2>1. Begin(w, "terminate", key, Absent, o) /\ UNCHANGED timers => Calm
    BY <1>1, <1>6 DEF PCs
  <2>2. Begin(w, FailPC(o), key, o, o) /\ UNCHANGED timers => Calm
    BY <1>1, <1>6 DEF PCs, FailPC
  <2>3. QED
    BY <1>5, <1>9, <2>1, <2>2 DEF UserReadFails
<1>10. QED
  BY <1>8, <1>9

\* Users, Tekton and the cloud.
LEMMA EnvironmentCalm ==
    ASSUME DynInv,
           \/ \E t \in Tasks : User(t) \/ ProvisionEnds(t) \/ TimePasses(t)
           \/ \E i \in Instances : InstanceStarts(i)
    PROVE  Calm
<1> USE DEF DynInv
<1>1. ASSUME NEW t \in Tasks, User(t) PROVE Calm
  <2>1. tr[t] \in TaskRun /\ Absent \in TaskRun
    BY Constants DEF StoreOK
  <2>2. [Absent EXCEPT !.phase = "running"] \in TaskRun
    BY <2>1 DEF TaskRun
  <2>3. \E o \in TaskRun : Stores(t, o)
    BY <1>1, <2>1, <2>2, Updated
    DEF User, CreateTask, TaskCompletes, TaskCancelled, DeleteTask
  <2>4. StoreOK'
    BY <2>3, PutOK DEF Stores
  <2>5. WorkersOK' /\ JobsOK' /\ Launching' \subseteq Launching
    BY <2>3 DEF Stores, WorkersOK, JobsOK, Launching, faultVars
  <2>6. CloudOK' /\ Live' \subseteq Live
    BY <2>3, CloudKept DEF Stores, cloudVars, faultVars
  <2>7. QED
    BY <2>4, <2>5, <2>6 DEF Calm
<1>2. ASSUME NEW t \in Tasks, ProvisionEnds(t) \/ TimePasses(t) PROVE Calm
  <2>1. StoreOK' /\ WorkersOK' /\ Launching' \subseteq Launching
    BY <1>2 DEF ProvisionEnds, TimePasses, StoreOK, WorkersOK, Launching
  <2>2. JobsOK'
    BY <1>2 DEF ProvisionEnds, TimePasses, JobsOK, ProvStates, faultVars
  <2>3. CloudOK' /\ Live' \subseteq Live
    BY <1>2, CloudKept DEF ProvisionEnds, TimePasses, cloudVars, faultVars
  <2>4. QED
    BY <2>1, <2>2, <2>3 DEF Calm
<1>3. ASSUME NEW i \in Instances, InstanceStarts(i) PROVE Calm
  <2>1. StoreOK' /\ WorkersOK' /\ JobsOK' /\ Launching' \subseteq Launching
    BY <1>3
    DEF InstanceStarts, StoreOK, WorkersOK, JobsOK, Launching, faultVars
  <2>2. CloudOK'
    BY <1>3 DEF InstanceStarts, CloudOK, CloudStates, faultVars
  <2>3. Live' \subseteq Live
    BY <1>3 DEF InstanceStarts, CloudOK, Live
  <2>4. QED
    BY <2>1, <2>2, <2>3 DEF Calm
<1>4. QED
  BY <1>1, <1>2, <1>3

\* The informer, the timers and a restart.
LEMMA ControllerCalm ==
    ASSUME DynInv,
           Restart \/ \E t \in Tasks : Deliver(t) \/ TimerFires(t)
    PROVE  Calm
<1> USE DEF DynInv
<1>1. CASE Restart
  <2>1. StoreOK' /\ WorkersOK' /\ Launching' \subseteq Launching
    BY <1>1 DEF Restart, StoreOK, WorkersOK, Launching, Idle
  <2>2. JobsOK'
    BY <1>1, DynamicAssumption DEF Restart, JobsOK, Fault
  <2>3. CloudOK' /\ Live' \subseteq Live
    BY <1>1 DEF Restart, CloudOK, Live, cloudVars
  <2>4. QED
    BY <2>1, <2>2, <2>3 DEF Calm
<1>2. ASSUME NEW t \in Tasks, Deliver(t) \/ TimerFires(t) PROVE Calm
  <2>1. StoreOK' /\ WorkersOK' /\ Launching' \subseteq Launching
    BY <1>2 DEF Deliver, TimerFires, StoreOK, WorkersOK, Launching
  <2>2. JobsOK'
    BY <1>2 DEF Deliver, TimerFires, JobsOK, faultVars
  <2>3. CloudOK' /\ Live' \subseteq Live
    BY <1>2, CloudKept DEF Deliver, TimerFires, cloudVars, faultVars
  <2>4. QED
    BY <2>1, <2>2, <2>3 DEF Calm
<1>3. QED
  BY <1>1, <1>2

\* LaunchInstance: one more instance, by a worker that was about to launch it.
LEMMA LaunchOK ==
    ASSUME DynInv, NEW w \in Workers, Launch(w)
    PROVE  /\ DynInv' /\ w \in Launching
           /\ Launching' \subseteq Launching \ {w}
           /\ \E i \in Instances : Live' = Live \cup {i}
<1> USE DEF DynInv
<1>1. /\ worker[w].pc # "idle" /\ w \in Launching
      /\ TaskOf(w) \in Tasks /\ Obj(w) \in TaskRun
  BY BusyWorker DEF Launch, At, Launching
<1>2. PICK i \in Instances :
         /\ cloud' = [cloud EXCEPT ![i] = "starting"]
         /\ owner' = [owner EXCEPT ![i] = TaskOf(w)]
         /\ Goto(w, "record", [Obj(w) EXCEPT !.instance = i,
                                             !.finalizer = TRUE])
  BY DEF Launch
<1> DEFINE o == [Obj(w) EXCEPT !.instance = i, !.finalizer = TRUE]
<1>3. o \in TaskRun /\ o.instance # None
  <2>1. o \in TaskRun
    BY <1>1, Updated
  <2>2. o.instance = i
    BY <1>1 DEF TaskRun
  <2>3. QED
    BY <2>1, <2>2, DynamicAssumption
<1> HIDE DEF o
<1>4. WorkersOK' /\ Launching' \subseteq Launching \ {w}
  BY <1>1, <1>2, <1>3, GotoOK DEF PCs, o
<1>5. CloudOK'
  BY <1>1, <1>2 DEF Launch, CloudOK, CloudStates, faultVars
<1>6. Live' = Live \cup {i}
  BY <1>2 DEF CloudOK, Live
<1>7. StoreOK' /\ JobsOK'
  BY DEF Launch, StoreOK, JobsOK, faultVars
<1>8. QED
  BY <1>1, <1>4, <1>5, <1>6, <1>7

(***************************************************************************)
(* The theorems.                                                           *)
(***************************************************************************)

\* The sets the bound counts are finite.
LEMMA Finite ==
    /\ IsFiniteSet(Live) /\ Cardinality(Live) \in Nat
    /\ IsFiniteSet(Launching) /\ Cardinality(Launching) \in Nat
    /\ Cardinality(Launching) <= Cardinality(Workers)
    /\ Cardinality(Workers) \in Nat /\ Cardinality(Workers) >= 1
<1>1. Live \in SUBSET Instances /\ Launching \in SUBSET Workers
  BY DEF Live, Launching
<1>2. IsFiniteSet(Live) /\ IsFiniteSet(Launching)
      /\ Cardinality(Launching) <= Cardinality(Workers)
  BY <1>1, FS_Subset, DynamicAssumption
<1>3. /\ Cardinality(Live) \in Nat /\ Cardinality(Launching) \in Nat
      /\ Cardinality(Workers) \in Nat
  BY <1>2, FS_CardinalityType, DynamicAssumption
<1>4. Cardinality(Workers) # 0
  BY FS_EmptySet, DynamicAssumption
<1>5. QED
  BY <1>2, <1>3, <1>4

\* A calm step keeps the bound.
LEMMA CalmBound == ASSUME InstanceBound, Calm PROVE InstanceBound'
<1>1. Cardinality(Live') <= Cardinality(Live) /\ Cardinality(Live') \in Nat
  <2>1. IsFiniteSet(Live) /\ Live' \in SUBSET Live
    BY Finite DEF Calm
  <2>2. IsFiniteSet(Live') /\ Cardinality(Live') <= Cardinality(Live)
    BY <2>1, FS_Subset
  <2>3. QED
    BY <2>2, FS_CardinalityType
<1>2. /\ Cardinality(Launching') <= Cardinality(Launching)
      /\ Cardinality(Launching') \in Nat
  <2>1. IsFiniteSet(Launching) /\ Launching' \in SUBSET Launching
    BY Finite DEF Calm
  <2>2. /\ IsFiniteSet(Launching')
        /\ Cardinality(Launching') <= Cardinality(Launching)
    BY <2>1, FS_Subset
  <2>3. QED
    BY <2>2, FS_CardinalityType
<1>3. QED
  BY <1>1, <1>2, Finite, DynamicAssumption DEF InstanceBound

\* A worker that counted fewer instances than the limit: however many others
\* are about to launch one, they are among the workers.
LEMMA CountedBound ==
    ASSUME HasRoom, Live' \subseteq Live PROVE InstanceBound'
<1>1. Cardinality(Live') <= Cardinality(Live) /\ Cardinality(Live') \in Nat
  <2>1. IsFiniteSet(Live) /\ Live' \in SUBSET Live
    BY Finite
  <2>2. IsFiniteSet(Live') /\ Cardinality(Live') <= Cardinality(Live)
    BY <2>1, FS_Subset
  <2>3. QED
    BY <2>2, FS_CardinalityType
<1>2. /\ Cardinality(Launching') <= Cardinality(Workers)
      /\ Cardinality(Launching') \in Nat
  <2>1. Launching' \in SUBSET Workers
    BY DEF Launching
  <2>2. IsFiniteSet(Launching') /\ Cardinality(Launching') <= Cardinality(Workers)
    BY <2>1, FS_Subset, DynamicAssumption
  <2>3. QED
    BY <2>2, FS_CardinalityType
<1>3. QED
  BY <1>1, <1>2, Finite, DynamicAssumption DEF InstanceBound, HasRoom

\* A launch turns a worker about to launch into an instance.
LEMMA LaunchBound ==
    ASSUME InstanceBound, NEW w \in Launching,
           Launching' \subseteq Launching \ {w},
           NEW i \in Instances, Live' = Live \cup {i}
    PROVE  InstanceBound'
<1>1. Cardinality(Live') <= Cardinality(Live) + 1 /\ Cardinality(Live') \in Nat
  <2>1. /\ IsFiniteSet(Live \cup {i})
        /\ Cardinality(Live \cup {i}) \in {Cardinality(Live),
                                           Cardinality(Live) + 1}
    BY Finite, FS_AddElement
  <2>2. QED
    BY <2>1, Finite
<1>2. /\ Cardinality(Launching') <= Cardinality(Launching) - 1
      /\ Cardinality(Launching') \in Nat
  <2>1. /\ IsFiniteSet(Launching \ {w})
        /\ Cardinality(Launching \ {w}) = Cardinality(Launching) - 1
    BY Finite, FS_RemoveElement
  <2>2. Launching' \in SUBSET (Launching \ {w})
    OBVIOUS
  <2>3. /\ IsFiniteSet(Launching')
        /\ Cardinality(Launching') <= Cardinality(Launching \ {w})
    BY <2>1, <2>2, FS_Subset
  <2>4. QED
    BY <2>1, <2>3, FS_CardinalityType
<1>3. QED
  BY <1>1, <1>2, Finite, DynamicAssumption DEF InstanceBound

\* The invariant and the bound hold at the start.
LEMMA InitOK == Init => DynInv /\ InstanceBound
<1> SUFFICES ASSUME Init PROVE DynInv /\ InstanceBound
  OBVIOUS
<1>1. StoreOK /\ WorkersOK
  BY Constants DEF Init, StoreOK, WorkersOK
<1>2. JobsOK /\ CloudOK
  BY DynamicAssumption DEF Init, JobsOK, CloudOK, ProvStates, CloudStates
<1>3. Live = {} /\ Launching = {}
  BY DEF Init, Live, Launching, Idle
<1>4. Cardinality(Live) = 0 /\ Cardinality(Launching) = 0
  BY <1>3, FS_EmptySet
<1>5. InstanceBound
  BY <1>4, Finite, DynamicAssumption DEF InstanceBound
<1>6. QED
  BY <1>1, <1>2, <1>5 DEF DynInv

\* Every step keeps them.
LEMMA NextOK ==
    DynInv /\ InstanceBound /\ [Next]_vars => DynInv' /\ InstanceBound'
<1> SUFFICES ASSUME DynInv, InstanceBound, [Next]_vars
             PROVE  DynInv' /\ InstanceBound'
  OBVIOUS
<1>1. Calm => DynInv' /\ InstanceBound'
  BY CalmBound DEF Calm
<1>2. CASE UNCHANGED vars
  <2>1. Calm
    BY <1>2 DEF vars, Calm, DynInv, StoreOK, WorkersOK, JobsOK, CloudOK, Live,
                Launching
  <2>2. QED
    BY <1>1, <2>1
<1>3. ASSUME NEW w \in Workers, WorkerStep(w)
      PROVE  DynInv' /\ InstanceBound'
  <2>1. CASE Launch(w)
    BY <2>1, LaunchOK, LaunchBound
  <2>2. CASE ~Launch(w)
    BY <1>1, <1>3, <2>2, WorkerStepCalm
  <2>3. QED
    BY <2>1, <2>2
<1>4. ASSUME NEW w \in Workers, NEW t \in Tasks,
             ReconcileUser(w, t) \/ UserReadFails(w, t)
      PROVE  DynInv' /\ InstanceBound'
  BY <1>1, <1>4, ReconcileUserOK, CountedBound
<1>5. ASSUME NEW w \in Workers, WorkerFault(w)
      PROVE  DynInv' /\ InstanceBound'
  <2>1. CASE \E t \in Tasks : UserReadFails(w, t)
    BY <1>4, <2>1
  <2>2. CASE ~\E t \in Tasks : UserReadFails(w, t)
    <3>1. worker[w].pc # "idle"
      BY <1>5, <2>2
      DEF WorkerFault, ErrorRequeues, UpdateLost, LosesCount, LaunchFails,
          RecordFails, TerminateFails, AssignFails, ProvisionLaunchFails,
          SecretDeleteFails, At
    <3>2. QED
      BY <1>1, <1>5, <2>2, <3>1, WorkerFaultCalm DEF WorkerFault
  <2>3. QED
    BY <2>1, <2>2
<1>6. ASSUME NEW w \in Workers, NEW t \in Tasks, ReconcileProvision(w, t)
      PROVE  DynInv' /\ InstanceBound'
  BY <1>1, <1>6, ReconcileProvisionCalm
<1>7. CASE \/ Restart
           \/ \E t \in Tasks : Deliver(t) \/ TimerFires(t) \/ TimePasses(t)
           \/ \E t \in Tasks : User(t) \/ ProvisionEnds(t)
           \/ \E i \in Instances : InstanceStarts(i)
  BY <1>1, <1>7, EnvironmentCalm, ControllerCalm
<1>8. QED
  BY <1>2, <1>3, <1>4, <1>5, <1>6, <1>7 DEF Next

\* Type correctness of the dynamic allocation.
THEOREM DynamicTyping == Spec => []TypeOK
<1>1. DynInv => TypeOK
  <2> SUFFICES ASSUME DynInv PROVE TypeOK
    OBVIOUS
  <2>1. worker \in [Workers -> Worker]
    BY Constants DEF DynInv, WorkersOK, Busy
  <2>2. QED
    BY <2>1 DEF DynInv, StoreOK, JobsOK, CloudOK, TypeOK
<1>2. QED
  BY <1>1, InitOK, NextOK, PTL DEF Spec

\* However reconciles interleave, calls fail and the controller restarts,
\* there are never more than max-instances + (number of workers - 1) instances:
\* Allocate counts before it launches, so each other worker can add one.
THEOREM LimitExceededByWorkers == Spec => []InstanceBound
<1>1. QED
  BY InitOK, NextOK, PTL DEF Spec

-----------------------------------------------------------------------------
(***************************************************************************)
(* Which instances are accounted for, that a TaskRun has one of them, and  *)
(* that the host behind an SSH secret stays up.                            *)
(***************************************************************************)

(***************************************************************************)
(* The inductive invariant.                                                *)
(***************************************************************************)

\* TaskRun t is done, or gone: it is never allocated an instance again.
Over(t) == tr[t].phase = "gone" \/ Done(tr[t])

\* The instances of t that have to be accounted for.
Mine(t) == {i \in Live \ lost : owner[i] = t}

\* The instance of a copy c of TaskRun t was launched for t.
Owned(t, c) ==
    c.instance # None =>
        owner[c.instance] = t /\ cloud[c.instance] # "none"

\* A copy with an instance has the finalizer too, until t is over.
Finalized(t, c) == c.instance # None /\ ~c.finalizer => Over(t)

\* Storing copy c as t would not forget an instance.
Remembers(t, c) == \A i \in Mine(t) : c.instance = i /\ c.finalizer

\* The parts of a TaskRun that a launch which failed leaves as it read them.
Alike(o, s) == /\ o.phase = s.phase /\ o.deleting = s.deleting
               /\ o.assigned = s.assigned /\ o.failed = s.failed
               /\ o.instance = s.instance

\* The calls of Allocate: up to the creation of the provision TaskRun.
NewPCs == {"launch", "countFailure", "wait"}
HandPCs == {"record", "abandon"}
HavePCs == {"assign", "provision", "terminate"}
AllocatePCs == NewPCs \cup HandPCs \cup HavePCs \cup {"remove"}
UserPCs == AllocatePCs \cup {"fail", "errorSecret", "deallocate", "release",
                             "deleteSecret", "wake"}
ProvPCs == {"unassignFailed", "fail", "errorSecret", "mark"}

Working(w) == worker[w].pc # "idle"
OnUser(w, t) == Working(w) /\ worker[w].key = <<t, "user">>
OnProv(w, t) == Working(w) /\ worker[w].key = <<t, "prov">>

\* One reconcile of a TaskRun at a time.
KeysApart == \A v, w \in Workers :
    Working(v) /\ Working(w) /\ worker[v].key = worker[w].key => v = w

\* What a reconcile of user TaskRun t knows: while it allocates nobody else
\* changes the instance of t.
AllocationKnows(w, t) ==
    LET pc == worker[w].pc
        o == Obj(w)
        s == tr[t]
    IN
    /\ pc \in AllocatePCs => prov[t] = "none"
    /\ pc \in NewPCs \cup HandPCs => s.instance = None
    /\ pc \in NewPCs => o.instance = None
    /\ pc \in HandPCs \cup HavePCs \cup {"remove"} => o.finalizer
    /\ pc \in HavePCs \cup {"remove"} => s.finalizer
    /\ pc \in HavePCs => o.instance = s.instance /\ o.instance # None
    /\ pc = "remove" =>
          \/ o.instance = s.instance
          \/ o.instance = None /\ s.instance \notin Live
    /\ pc = "assign" => o.assigned /\ ~s.assigned
    /\ pc = "provision" =>
          /\ s.assigned
          /\ \/ pending[t] = "assignment"
             \/ cache[t].instance = o.instance /\ cache[t].finalizer

UserOK(w, t) ==
    LET pc == worker[w].pc
        o == Obj(w)
    IN
    /\ pc \in UserPCs
    /\ tr[t].phase # "absent"
    /\ Owned(t, o)
    /\ AllocationKnows(w, t)
    /\ pc \in {"deallocate", "release"} => Over(t)
    /\ pc = "deallocate" => \A i \in Mine(t) : o.instance = i
    /\ pc = "release" => Mine(t) = {}
    /\ pc \in {"launch", "fail"} => Alike(o, worker[w].seen)

\* What a reconcile of the provision TaskRun of t knows.
ProvOK(w, t) ==
    LET pc == worker[w].pc
        o == Obj(w)
    IN
    /\ pc \in ProvPCs
    /\ prov[t] # "none"
    /\ Owned(t, o)
    /\ pc = "unassignFailed" => o.failed /\ Finalized(t, o) /\ Remembers(t, o)
    /\ pc = "fail" => Alike(o, worker[w].seen)

\* What is stored of t.  Once the provision TaskRun was created, the instance
\* of t is recorded in every copy that may be written.
TaskOK(t) ==
    /\ tr[t].phase = "absent" =>
          tr[t].instance = None /\ ~tr[t].deleting /\ prov[t] = "none"
    /\ Owned(t, tr[t]) /\ Owned(t, cache[t])
    /\ Finalized(t, tr[t]) /\ Finalized(t, cache[t])
    /\ prov[t] # "none" =>
          /\ tr[t].assigned \/ tr[t].failed \/ Over(t)
          /\ Remembers(t, tr[t])
          /\ pending[t] # "assignment" => Remembers(t, cache[t])
    /\ secret[t] = "ssh" => prov[t] # "none" /\ (HostUp(t) \/ Over(t))

\* An instance in the hand of a reconcile that is yet to record it, or to
\* terminate it.
InHand(i) == \E w \in Workers : /\ worker[w].key = <<owner[i], "user">>
                                /\ worker[w].pc \in HandPCs
                                /\ worker[w].obj.instance = i

TasksOK == \A t \in Tasks : TaskOK(t)
ReconcilesOK == \A w \in Workers, t \in Tasks :
    (OnUser(w, t) => UserOK(w, t)) /\ (OnProv(w, t) => ProvOK(w, t))
LiveOK == \A i \in Instances : cloud[i] # "none" => owner[i] \in Tasks
Tied == \A t \in Tasks : \A i \in Mine(t) : Recorded(i) \/ InHand(i)

AccountInv == /\ DynInv /\ KeysApart /\ TasksOK /\ ReconcilesOK
              /\ LiveOK /\ Tied

(***************************************************************************)
(* What a step has to show.                                                *)
(***************************************************************************)

\* A worker that is not idle reconciles a user or a provision TaskRun.
LEMMA Reconciling ==
    ASSUME WorkersOK, NEW w \in Workers, Working(w)
    PROVE  \E t \in Tasks : OnUser(w, t) \/ OnProv(w, t)
<1>1. worker[w].key \in Key
  BY BusyWorker DEF Working, Busy
<1>2. QED
  BY <1>1 DEF Key, OnUser, OnProv

\* A worker that ends its reconcile, goes on with it, or takes a key nobody
\* has keeps the keys apart.
LEMMA KeysKept ==
    ASSUME KeysApart, NEW w \in Workers,
           \A v \in Workers \ {w} : worker'[v] = worker[v],
           \/ worker'[w].pc = "idle"
           \/ Working(w) /\ worker'[w].key = worker[w].key
           \/ \A v \in Workers : worker[v].key # worker'[w].key
    PROVE  KeysApart'
BY DEF KeysApart, Working

\* The facts about copies only depend on the instances of the TaskRun.
LEMMA CopiesKept ==
    ASSUME UNCHANGED owner, NEW t \in Tasks,
           \A i \in Instances : cloud[i] # "none" => cloud'[i] # "none",
           Live' \subseteq Live, lost \subseteq lost',
           Over(t) => Over(t)'
    PROVE  /\ Mine(t)' \subseteq Mine(t)
           /\ \A c \in TaskRun : /\ Owned(t, c) => Owned(t, c)'
                                 /\ Finalized(t, c) => Finalized(t, c)'
                                 /\ Remembers(t, c) => Remembers(t, c)'
<1>1. Mine(t)' \subseteq Mine(t)
  BY DEF Mine
<1>2. \A c \in TaskRun : Owned(t, c) => Owned(t, c)'
  BY DEF Owned, TaskRun
<1>3. \A c \in TaskRun : Finalized(t, c) => Finalized(t, c)'
  BY DEF Finalized
<1>4. \A c \in TaskRun : Remembers(t, c) => Remembers(t, c)'
  BY <1>1 DEF Remembers
<1>5. QED
  BY <1>1, <1>2, <1>3, <1>4

\* A step that stores no user TaskRun and launches nothing, and terminates no
\* host that a TaskRun works with.
Undisturbed ==
    /\ UNCHANGED <<tr, cache, owner>>
    /\ \A t \in Tasks :
          /\ pending'[t] = "assignment" <=> pending[t] = "assignment"
          /\ prov'[t] = "none" <=> prov[t] = "none"
          /\ secret'[t] = "ssh" => prov[t] # "none" /\ (HostUp(t)' \/ Over(t))
    /\ \A i \in Instances : cloud'[i] = "none" <=> cloud[i] = "none"
    /\ Live' \subseteq Live /\ lost \subseteq lost'

\* Such a step keeps the invariant if the workers that moved know what they
\* should, and dropped no instance.
LEMMA Moves ==
    ASSUME AccountInv, DynInv', KeysApart', NEW W \in SUBSET Workers,
           \A v \in Workers \ W : worker'[v] = worker[v],
           Undisturbed,
           \A w \in W, t \in Tasks : /\ OnUser(w, t)' => UserOK(w, t)'
                                     /\ OnProv(w, t)' => ProvOK(w, t)',
           \A w \in W, i \in Live' \ lost' :
               worker[w].pc \in HandPCs /\ Obj(w).instance = i =>
                  /\ worker'[w].key = worker[w].key
                  /\ worker'[w].pc \in HandPCs /\ Obj(w)'.instance = i
    PROVE  AccountInv'
<1> USE DEF Undisturbed
<1>1. \A t \in Tasks : Over(t)' <=> Over(t)
  BY DEF Over
<1>2. \A t \in Tasks :
         /\ Mine(t)' \subseteq Mine(t)
         /\ \A c \in TaskRun : /\ Owned(t, c) => Owned(t, c)'
                               /\ Finalized(t, c) => Finalized(t, c)'
                               /\ Remembers(t, c) => Remembers(t, c)'
  BY <1>1, CopiesKept
<1>3. \A t \in Tasks : tr[t] \in TaskRun /\ cache[t] \in TaskRun
  BY DEF AccountInv, DynInv, StoreOK
<1>4. TasksOK'
  <2> SUFFICES ASSUME NEW t \in Tasks PROVE TaskOK(t)'
    BY DEF TasksOK
  <2>1. TaskOK(t)
    BY DEF AccountInv, TasksOK
  <2>2. /\ Owned(t, tr[t])' /\ Owned(t, cache[t])'
        /\ Finalized(t, tr[t])' /\ Finalized(t, cache[t])'
        /\ Remembers(t, tr[t]) => Remembers(t, tr[t])'
        /\ Remembers(t, cache[t]) => Remembers(t, cache[t])'
    BY <1>2, <1>3, <2>1 DEF TaskOK
  <2>3. QED
    BY <1>1, <2>1, <2>2 DEF TaskOK
<1>5. ReconcilesOK'
  <2> SUFFICES ASSUME NEW w \in Workers, NEW t \in Tasks
               PROVE  /\ OnUser(w, t)' => UserOK(w, t)'
                      /\ OnProv(w, t)' => ProvOK(w, t)'
    BY DEF ReconcilesOK
  <2>1. CASE w \in W
    BY <2>1
  <2>2. CASE w \notin W
    <3>1. worker'[w] = worker[w]
      BY <2>2
    <3>2. ASSUME OnUser(w, t)' PROVE UserOK(w, t)'
      <4>1. OnUser(w, t) /\ UserOK(w, t) /\ Obj(w) \in TaskRun
        BY <3>1, <3>2, BusyWorker
        DEF OnUser, Working, AccountInv, ReconcilesOK, DynInv
      <4>2. Owned(t, Obj(w))' /\ Obj(w)' = Obj(w)
        BY <1>2, <3>1, <4>1 DEF UserOK, Obj
      <4>3. AllocationKnows(w, t)'
        BY <3>1, <4>1, <4>2 DEF UserOK, AllocationKnows
      <4>4. QED
        BY <1>1, <1>2, <3>1, <4>1, <4>2, <4>3 DEF UserOK
    <3>3. ASSUME OnProv(w, t)' PROVE ProvOK(w, t)'
      <4>1. OnProv(w, t) /\ ProvOK(w, t) /\ Obj(w) \in TaskRun
        BY <3>1, <3>3, BusyWorker
        DEF OnProv, Working, AccountInv, ReconcilesOK, DynInv
      <4>2. /\ Owned(t, Obj(w))' /\ Obj(w)' = Obj(w)
            /\ Finalized(t, Obj(w)) => Finalized(t, Obj(w))'
            /\ Remembers(t, Obj(w)) => Remembers(t, Obj(w))'
        BY <1>2, <3>1, <4>1 DEF ProvOK, Obj
      <4>3. QED
        BY <3>1, <4>1, <4>2 DEF ProvOK
    <3>4. QED
      BY <3>2, <3>3
  <2>3. QED
    BY <2>1, <2>2
<1>6. LiveOK'
  BY DEF LiveOK, AccountInv
<1>7. Tied'
  <2> SUFFICES ASSUME NEW t \in Tasks, NEW i \in Mine(t)'
               PROVE  Recorded(i)' \/ InHand(i)'
    BY DEF Tied
  <2>1. i \in Mine(t) /\ i \in Live' \ lost'
    BY <1>2 DEF Mine
  <2>2. CASE Recorded(i)
    BY <2>2 DEF Recorded
  <2>3. CASE InHand(i)
    <3>1. PICK w \in Workers : /\ worker[w].key = <<owner[i], "user">>
                               /\ worker[w].pc \in HandPCs
                               /\ Obj(w).instance = i
      BY <2>3 DEF InHand, Obj
    <3>2. /\ worker'[w].key = <<owner'[i], "user">>
          /\ worker'[w].pc \in HandPCs
          /\ worker'[w].obj.instance = i
      BY <2>1, <3>1 DEF Obj
    <3>3. QED
      BY <3>2 DEF InHand
  <2>4. QED
    BY <2>1, <2>2, <2>3 DEF AccountInv, Tied
<1>8. QED
  BY <1>4, <1>5, <1>6, <1>7 DEF AccountInv

\* Put stores o, settled, and keeps the news of an assignment.
LEMMA PutStores ==
    ASSUME StoreOK, NEW t \in Tasks, NEW o \in TaskRun, NEW kind,
           Put(t, o, kind)
    PROVE  /\ tr'[t] = Settled(o)
           /\ \A s \in Tasks \ {t} : tr'[s] = tr[s] /\ pending'[s] = pending[s]
           /\ pending[t] = "assignment" => pending'[t] = "assignment"
           /\ kind = "assignment" /\ Settled(o) # tr[t] =>
                 pending'[t] = "assignment"
BY DEF Put, storeVars, StoreOK

\* A step that stores TaskRun t.
LEMMA StoreMoves ==
    ASSUME AccountInv, DynInv', KeysApart', NEW W \in SUBSET Workers,
           NEW t \in Tasks,
           \A v \in Workers \ W : worker'[v] = worker[v],
           UNCHANGED <<cache, secret, prov, cloud, owner, lost>>,
           \A s \in Tasks \ {t} : tr'[s] = tr[s] /\ pending'[s] = pending[s],
           pending[t] = "assignment" => pending'[t] = "assignment",
           tr'[t].phase # "absent", Over(t) => Over(t)',
           Owned(t, tr'[t]),
           tr'[t].instance # None /\ ~tr'[t].finalizer => Over(t)',
           prov[t] # "none" => tr'[t].assigned \/ tr'[t].failed \/ Over(t)',
           \A i \in Mine(t) : Recorded(i) =>
               tr'[t].instance = i /\ tr'[t].finalizer,
           \A v \in Workers \ W : OnUser(v, t) => AllocationKnows(v, t)',
           \A w \in W, s \in Tasks : /\ OnUser(w, s)' => UserOK(w, s)'
                                     /\ OnProv(w, s)' => ProvOK(w, s)',
           \A w \in W, i \in Live \ lost :
               worker[w].pc \in HandPCs /\ Obj(w).instance = i => Recorded(i)'
    PROVE  AccountInv'
<1>1. \A s \in Tasks : Over(s) => Over(s)'
  BY DEF Over
<1>2. Live' = Live /\ \A s \in Tasks : Mine(s)' = Mine(s)
  BY DEF Mine, Live
<1>3. \A s \in Tasks, c \in TaskRun :
          /\ Owned(s, c) => Owned(s, c)'
          /\ Finalized(s, c) => Finalized(s, c)'
          /\ Remembers(s, c) => Remembers(s, c)'
  BY <1>1, <1>2, CopiesKept
<1>4. \A s \in Tasks : /\ tr[s] \in TaskRun /\ cache[s] \in TaskRun
                       /\ tr'[s] \in TaskRun
  BY DEF AccountInv, DynInv, StoreOK
<1>5. \A s \in Tasks : \A i \in Mine(s) : Recorded(i) => Recorded(i)'
  BY DEF Recorded, Mine
<1>6. TasksOK'
  <2> SUFFICES ASSUME NEW s \in Tasks PROVE TaskOK(s)'
    BY DEF TasksOK
  <2>1. TaskOK(s)
    BY DEF AccountInv, TasksOK
  <2>2. /\ Owned(s, cache[s])' /\ Finalized(s, cache[s])'
        /\ Remembers(s, cache[s]) => Remembers(s, cache[s])'
    BY <1>3, <1>4, <2>1 DEF TaskOK
  <2>3. HostUp(s)' <=> HostUp(s)
    BY DEF HostUp
  <2>4. CASE s = t
    <3>1. Owned(t, tr[t])' /\ Finalized(t, tr[t])'
      BY DEF Owned, Finalized
    <3>2. ASSUME prov[t] # "none" PROVE Remembers(t, tr[t])'
      <4>1. \A i \in Mine(t) : Recorded(i)
        BY <2>1, <2>4, <3>2 DEF TaskOK, Remembers, Recorded, Mine
      <4>2. QED
        BY <1>2, <4>1 DEF Remembers
    <3>3. QED
      BY <1>1, <2>1, <2>2, <2>3, <2>4, <3>1, <3>2 DEF TaskOK
  <2>5. CASE s # t
    <3>1. tr'[s] = tr[s] /\ pending'[s] = pending[s]
      BY <2>5
    <3>2. /\ Owned(s, tr[s])' /\ Finalized(s, tr[s])'
          /\ Remembers(s, tr[s]) => Remembers(s, tr[s])'
      BY <1>3, <1>4, <2>1, <3>1 DEF TaskOK
    <3>3. QED
      BY <1>1, <2>1, <2>2, <2>3, <3>1, <3>2 DEF TaskOK
  <2>6. QED
    BY <2>4, <2>5
<1>7. ReconcilesOK'
  <2> SUFFICES ASSUME NEW w \in Workers, NEW s \in Tasks
               PROVE  /\ OnUser(w, s)' => UserOK(w, s)'
                      /\ OnProv(w, s)' => ProvOK(w, s)'
    BY DEF ReconcilesOK
  <2>1. CASE w \in W
    BY <2>1
  <2>2. CASE w \notin W
    <3>1. worker'[w] = worker[w]
      BY <2>2
    <3>2. ASSUME OnUser(w, s)' PROVE UserOK(w, s)'
      <4>1. OnUser(w, s) /\ UserOK(w, s) /\ Obj(w) \in TaskRun
        BY <3>1, <3>2, BusyWorker
        DEF OnUser, Working, AccountInv, ReconcilesOK, DynInv
      <4>2. Owned(s, Obj(w))' /\ Obj(w)' = Obj(w)
        BY <1>3, <3>1, <4>1 DEF UserOK, Obj
      <4>3. AllocationKnows(w, s)'
        <5>1. CASE s = t
          BY <2>2, <4>1, <5>1
        <5>2. CASE s # t
          <6>1. tr'[s] = tr[s] /\ pending'[s] = pending[s]
            BY <5>2
          <6>2. QED
            BY <1>2, <3>1, <4>1, <4>2, <6>1 DEF UserOK, AllocationKnows
        <5>3. QED
          BY <5>1, <5>2
      <4>4. tr'[s].phase # "absent"
        BY <4>1 DEF UserOK
      <4>5. QED
        BY <1>1, <1>2, <3>1, <4>1, <4>2, <4>3, <4>4 DEF UserOK
    <3>3. ASSUME OnProv(w, s)' PROVE ProvOK(w, s)'
      <4>1. OnProv(w, s) /\ ProvOK(w, s) /\ Obj(w) \in TaskRun
        BY <3>1, <3>3, BusyWorker
        DEF OnProv, Working, AccountInv, ReconcilesOK, DynInv
      <4>2. /\ Owned(s, Obj(w))' /\ Obj(w)' = Obj(w)
            /\ Finalized(s, Obj(w)) => Finalized(s, Obj(w))'
            /\ Remembers(s, Obj(w)) => Remembers(s, Obj(w))'
        BY <1>3, <3>1, <4>1 DEF ProvOK, Obj
      <4>3. QED
        BY <3>1, <4>1, <4>2 DEF ProvOK
    <3>4. QED
      BY <3>2, <3>3
  <2>3. QED
    BY <2>1, <2>2
<1>8. LiveOK'
  BY DEF LiveOK, AccountInv
<1>9. Tied'
  <2> SUFFICES ASSUME NEW s \in Tasks, NEW i \in Mine(s)
               PROVE  Recorded(i)' \/ InHand(i)'
    BY <1>2 DEF Tied
  <2>1. i \in Live \ lost
    BY DEF Mine
  <2>2. CASE Recorded(i)
    BY <1>5, <2>2
  <2>3. CASE InHand(i)
    <3>1. PICK w \in Workers : /\ worker[w].key = <<owner[i], "user">>
                               /\ worker[w].pc \in HandPCs
                               /\ Obj(w).instance = i
      BY <2>3 DEF InHand, Obj
    <3>2. CASE w \in W
      BY <2>1, <3>1, <3>2
    <3>3. CASE w \notin W
      BY <3>1, <3>3 DEF InHand, Obj
    <3>4. QED
      BY <3>2, <3>3
  <2>4. QED
    BY <2>2, <2>3 DEF AccountInv, Tied
<1>10. QED
  BY <1>6, <1>7, <1>8, <1>9 DEF AccountInv

(***************************************************************************)
(* The steps actions are made of.                                          *)
(***************************************************************************)

\* What is known of the TaskRun of a reconcile that allocates or releases.
LEMMA UserKnown ==
    ASSUME AccountInv, NEW w \in Workers, worker[w].pc \in UserPCs \ ProvPCs
    PROVE  \E t \in Tasks :
              /\ t = TaskOf(w) /\ Working(w) /\ Obj(w) \in TaskRun
              /\ tr[t] \in TaskRun /\ worker[w].seen \in TaskRun
              /\ OnUser(w, t) /\ UserOK(w, t) /\ TaskOK(t)
              /\ \A s \in Tasks : ~OnProv(w, s) /\ (OnUser(w, s) => s = t)
<1>1. Working(w)
  BY DEF Working, UserPCs, AllocatePCs, NewPCs, HandPCs, HavePCs
<1>2. /\ worker[w] \in Busy /\ TaskOf(w) \in Tasks /\ Obj(w) \in TaskRun
      /\ worker[w].seen \in TaskRun
  BY <1>1, BusyWorker DEF Working, AccountInv, DynInv
<1>3. \A t \in Tasks : ~OnProv(w, t)
  BY DEF AccountInv, ReconcilesOK, ProvOK
<1>4. PICK t \in Tasks : OnUser(w, t)
  BY <1>1, <1>3, Reconciling DEF AccountInv, DynInv
<1>5. t = TaskOf(w) /\ \A s \in Tasks : OnUser(w, s) => s = TaskOf(w)
  BY <1>4 DEF OnUser, TaskOf
<1>6. UserOK(w, t) /\ TaskOK(t) /\ tr[t] \in TaskRun
  BY <1>4 DEF AccountInv, ReconcilesOK, TasksOK, DynInv, StoreOK
<1>7. QED
  BY <1>1, <1>2, <1>3, <1>4, <1>5, <1>6

\* And of the reconcile of a provision TaskRun.
LEMMA ProvKnown ==
    ASSUME AccountInv, NEW w \in Workers, worker[w].pc \in ProvPCs \ UserPCs
    PROVE  \E t \in Tasks :
              /\ t = TaskOf(w) /\ Working(w) /\ Obj(w) \in TaskRun
              /\ tr[t] \in TaskRun
              /\ OnProv(w, t) /\ ProvOK(w, t) /\ TaskOK(t)
              /\ \A s \in Tasks : ~OnUser(w, s) /\ (OnProv(w, s) => s = t)
<1>1. Working(w)
  BY DEF Working, ProvPCs
<1>2. worker[w] \in Busy /\ TaskOf(w) \in Tasks /\ Obj(w) \in TaskRun
  BY <1>1, BusyWorker DEF Working, AccountInv, DynInv
<1>3. \A t \in Tasks : ~OnUser(w, t)
  BY DEF AccountInv, ReconcilesOK, UserOK
<1>4. PICK t \in Tasks : OnProv(w, t)
  BY <1>1, <1>3, Reconciling DEF AccountInv, DynInv
<1>5. t = TaskOf(w) /\ \A s \in Tasks : OnProv(w, s) => s = TaskOf(w)
  BY <1>4 DEF OnProv, TaskOf
<1>6. ProvOK(w, t) /\ TaskOK(t) /\ tr[t] \in TaskRun
  BY <1>4 DEF AccountInv, ReconcilesOK, TasksOK, DynInv, StoreOK
<1>7. QED
  BY <1>1, <1>2, <1>3, <1>4, <1>5, <1>6

\* A reconcile that ends, and one that goes on.
LEMMA AfterReturn ==
    ASSUME WorkersOK, NEW w \in Workers, Return(w)
    PROVE  /\ \A v \in Workers \ {w} : worker'[v] = worker[v]
           /\ worker'[w].pc = "idle"
BY DEF Return, WorkersOK, Idle

LEMMA AfterGoto ==
    ASSUME WorkersOK, NEW w \in Workers, Working(w), NEW pc, NEW o,
           Goto(w, pc, o)
    PROVE  /\ \A v \in Workers \ {w} : worker'[v] = worker[v]
           /\ worker'[w].pc = pc /\ worker'[w].key = worker[w].key
           /\ worker'[w].obj = o
           /\ worker'[w].seen = IF pc = "fail" THEN worker[w].seen ELSE Absent
<1>1. worker[w] \in Worker
  BY BusyWorker DEF Working
<1>2. QED
  BY <1>1 DEF Goto, WorkersOK, Worker

\* Most steps change neither the store nor the cloud.
LEMMA Calmly ==
    ASSUME AccountInv, UNCHANGED <<tr, cache, cloudVars>>,
           lost \subseteq lost',
           \A t \in Tasks :
              /\ pending'[t] = "assignment" <=> pending[t] = "assignment"
              /\ prov'[t] = "none" <=> prov[t] = "none"
              /\ secret'[t] = "ssh" => secret[t] = "ssh"
    PROVE  Undisturbed
<1>1. ASSUME NEW t \in Tasks, secret'[t] = "ssh"
      PROVE  prov[t] # "none" /\ (HostUp(t)' \/ Over(t))
  BY <1>1 DEF AccountInv, TasksOK, TaskOK, HostUp, cloudVars
<1>2. QED
  BY <1>1 DEF Undisturbed, Live, cloudVars

\* A reconcile ends.
LEMMA ReturnMoves ==
    ASSUME AccountInv, DynInv', NEW w \in Workers, Return(w), Undisturbed,
           worker[w].pc \notin HandPCs
    PROVE  AccountInv'
<1>1. /\ \A v \in Workers \ {w} : worker'[v] = worker[v]
      /\ worker'[w].pc = "idle"
  BY AfterReturn DEF AccountInv, DynInv
<1>2. KeysApart'
  BY <1>1, KeysKept DEF AccountInv
<1>3. \A t \in Tasks : ~OnUser(w, t)' /\ ~OnProv(w, t)'
  BY <1>1 DEF OnUser, OnProv, Working
<1>4. QED
  <2> DEFINE W == {w}
  <2>1. W \in SUBSET Workers /\ \A v \in Workers \ W : worker'[v] = worker[v]
    BY <1>1
  <2>2. \A v \in W, t \in Tasks : ~OnUser(v, t)' /\ ~OnProv(v, t)'
    BY <1>3
  <2>3. \A v \in W : worker[v].pc \notin HandPCs
    OBVIOUS
  <2> HIDE DEF W
  <2>4. QED
    BY <1>2, <2>1, <2>2, <2>3, Moves

\* A reconcile goes on.
LEMMA GotoMoves ==
    ASSUME AccountInv, DynInv', NEW w \in Workers, Working(w), Undisturbed,
           NEW pc, NEW o, Goto(w, pc, o),
           \A t \in Tasks : /\ OnUser(w, t) => UserOK(w, t)'
                            /\ OnProv(w, t) => ProvOK(w, t)',
           \/ worker[w].pc \notin HandPCs
           \/ Obj(w).instance \notin Live' \ lost'
           \/ pc \in HandPCs /\ o.instance = Obj(w).instance
    PROVE  AccountInv'
<1>1. /\ \A v \in Workers \ {w} : worker'[v] = worker[v]
      /\ worker'[w].pc = pc /\ worker'[w].key = worker[w].key
      /\ Obj(w)' = o
  BY AfterGoto DEF AccountInv, DynInv, Obj
<1>2. KeysApart'
  BY <1>1, KeysKept DEF AccountInv
<1>3. \A t \in Tasks : /\ OnUser(w, t)' => UserOK(w, t)'
                       /\ OnProv(w, t)' => ProvOK(w, t)'
  BY <1>1 DEF OnUser, OnProv
<1>4. QED
  <2> DEFINE W == {w}
  <2>1. W \in SUBSET Workers /\ \A v \in Workers \ W : worker'[v] = worker[v]
    BY <1>1
  <2>2. \A v \in W, t \in Tasks : /\ OnUser(v, t)' => UserOK(v, t)'
                                  /\ OnProv(v, t)' => ProvOK(v, t)'
    BY <1>3
  <2>3. \A v \in W, i \in Live' \ lost' :
            worker[v].pc \in HandPCs /\ Obj(v).instance = i =>
               /\ worker'[v].key = worker[v].key
               /\ worker'[v].pc \in HandPCs /\ Obj(v)'.instance = i
    BY <1>1
  <2> HIDE DEF W
  <2>4. QED
    BY <1>2, <2>1, <2>2, <2>3, Moves

\* What does not depend on the worker stays known in an undisturbed step.
LEMMA Undisturbing ==
    ASSUME Undisturbed, NEW t \in Tasks
    PROVE  /\ Over(t)' <=> Over(t)
           /\ Mine(t)' \subseteq Mine(t)
           /\ \A c \in TaskRun : /\ Owned(t, c) => Owned(t, c)'
                                 /\ Finalized(t, c) => Finalized(t, c)'
                                 /\ Remembers(t, c) => Remembers(t, c)'
<1>1. Over(t)' <=> Over(t)
  BY DEF Over, Undisturbed
<1>2. QED
  BY <1>1, CopiesKept DEF Undisturbed

\* A reconcile goes on to a call that needs no knowledge.
LEMMA QuietMoves ==
    ASSUME AccountInv, DynInv', NEW w \in Workers, Working(w), Undisturbed,
           NEW pc, NEW o \in {Absent, Obj(w)}, Goto(w, pc, o),
           \/ pc = "errorSecret"
           \/ pc \in {"deleteSecret", "wake"} /\ worker[w].key[2] = "user"
           \/ pc = "mark" /\ worker[w].key[2] = "prov",
           \/ worker[w].pc \notin HandPCs
           \/ Obj(w).instance \notin Live' \ lost'
    PROVE  AccountInv'
<1>1. /\ worker'[w].pc = pc /\ worker'[w].key = worker[w].key /\ Obj(w)' = o
  BY AfterGoto DEF AccountInv, DynInv, Obj
<1>2. Obj(w) \in TaskRun
  BY BusyWorker DEF Working, AccountInv, DynInv
<1>3. ASSUME NEW t \in Tasks, OnUser(w, t) \/ OnProv(w, t)
      PROVE  Owned(t, Obj(w))'
  <2>1. Owned(t, Obj(w)) /\ Owned(t, Absent)
    BY <1>3 DEF AccountInv, ReconcilesOK, UserOK, ProvOK, Owned, Absent
  <2>2. Owned(t, o)'
    BY <1>2, <2>1, Undisturbing, Constants
  <2>3. QED
    BY <1>1, <2>2
<1>4. ASSUME NEW t \in Tasks, OnUser(w, t) PROVE UserOK(w, t)'
  <2>1. UserOK(w, t) /\ pc \in {"errorSecret", "deleteSecret", "wake"}
    BY <1>4 DEF AccountInv, ReconcilesOK, OnUser
  <2>2. AllocationKnows(w, t)' /\ pc \in UserPCs
    BY <1>1, <2>1 DEF AllocationKnows, AllocatePCs, NewPCs, HandPCs, HavePCs,
                      UserPCs
  <2>3. QED
    BY <1>1, <1>3, <1>4, <2>1, <2>2 DEF UserOK, Undisturbed
<1>5. ASSUME NEW t \in Tasks, OnProv(w, t) PROVE ProvOK(w, t)'
  <2>1. ProvOK(w, t) /\ pc \in {"errorSecret", "mark"}
    BY <1>5 DEF AccountInv, ReconcilesOK, OnProv
  <2>2. QED
    BY <1>1, <1>3, <1>5, <2>1 DEF ProvOK, Undisturbed, ProvPCs
<1>6. QED
  BY <1>4, <1>5, GotoMoves

\* Allocate returns an error: the copy has the finalizer, or the finalizer is
\* stored first, in the TaskRun as it was read.
LEMMA FailsMoves ==
    ASSUME AccountInv, DynInv', NEW w \in Workers, Undisturbed, Fails(w),
           NEW t \in Tasks, OnUser(w, t),
           Obj(w).finalizer \/ Alike(Obj(w), worker[w].seen),
           \/ worker[w].pc \notin HandPCs
           \/ Obj(w).instance \notin Live' \ lost'
    PROVE  AccountInv'
<1>1. Working(w)
  BY DEF OnUser
<1>2. CASE Obj(w).finalizer
  BY <1>1, <1>2, QuietMoves DEF Fails, FailPC
<1>3. CASE ~Obj(w).finalizer
  <2>1. Goto(w, "fail", Obj(w))
    BY <1>3 DEF Fails, FailPC
  <2>2. /\ worker'[w].pc = "fail" /\ worker'[w].key = worker[w].key
        /\ Obj(w)' = Obj(w) /\ worker'[w].seen = worker[w].seen
    BY <1>1, <2>1, AfterGoto DEF AccountInv, DynInv, Obj
  <2>3. Obj(w) \in TaskRun /\ UserOK(w, t)
    BY <1>1, BusyWorker DEF Working, AccountInv, DynInv, ReconcilesOK
  <2>4. Owned(t, Obj(w))'
    BY <2>2, <2>3, Undisturbing DEF UserOK
  <2>5. UserOK(w, t)'
    BY <1>3, <2>2, <2>3, <2>4
    DEF UserOK, AllocationKnows, AllocatePCs, NewPCs, HandPCs, HavePCs,
        UserPCs, Undisturbed, Alike
  <2>6. \A s \in Tasks : (OnUser(w, s) => s = t) /\ ~OnProv(w, s)
    BY DEF OnUser, OnProv
  <2>7. QED
    BY <1>1, <2>1, <2>5, <2>6, GotoMoves
<1>4. QED
  BY <1>2, <1>3

(***************************************************************************)
(* The calls that store nothing.                                           *)
(***************************************************************************)

\* A launch fails, and is counted.
LEMMA CountMoves ==
    ASSUME AccountInv, DynInv', NEW w \in Workers, At(w, "launch"),
           CountsFailure(w), Undisturbed
    PROVE  AccountInv'
<1>1. PICK t \in Tasks :
      /\ t = TaskOf(w) /\ Working(w) /\ Obj(w) \in TaskRun
      /\ OnUser(w, t) /\ UserOK(w, t)
      /\ \A s \in Tasks : ~OnProv(w, s) /\ (OnUser(w, s) => s = t)
  BY UserKnown DEF At, UserPCs, ProvPCs, AllocatePCs, NewPCs
<1>2. CASE Obj(w).failures = 2
  BY <1>1, <1>2, FailsMoves DEF CountsFailure, UserOK, At, HandPCs
<1>3. CASE Obj(w).failures # 2
  <2> DEFINE o == [Obj(w) EXCEPT !.failures = @ + 1]
  <2>1. Goto(w, "countFailure", o)
    BY <1>3 DEF CountsFailure
  <2>2. o.instance = Obj(w).instance
    BY <1>1 DEF TaskRun
  <2> HIDE DEF o
  <2>3. /\ worker'[w].pc = "countFailure" /\ worker'[w].key = worker[w].key
        /\ Obj(w)' = o
    BY <1>1, <2>1, AfterGoto DEF AccountInv, DynInv, Obj
  <2>4. UserOK(w, t)'
    BY <1>1, <2>2, <2>3
    DEF UserOK, AllocationKnows, AllocatePCs, NewPCs, HandPCs, HavePCs,
        UserPCs, Undisturbed, Owned, At
  <2>5. QED
    BY <1>1, <2>1, <2>4, GotoMoves DEF At, HandPCs
<1>4. QED
  BY <1>2, <1>3

\* The instance cannot be recorded: it stays in hand.
LEMMA AbandonMoves ==
    ASSUME AccountInv, DynInv', NEW w \in Workers, At(w, "record"),
           Goto(w, "abandon", Obj(w)), Undisturbed
    PROVE  AccountInv'
<1>1. PICK t \in Tasks :
      /\ t = TaskOf(w) /\ Working(w) /\ Obj(w) \in TaskRun
      /\ OnUser(w, t) /\ UserOK(w, t)
      /\ \A s \in Tasks : ~OnProv(w, s) /\ (OnUser(w, s) => s = t)
  BY UserKnown DEF At, UserPCs, ProvPCs, AllocatePCs, HandPCs
<1>2. /\ worker'[w].pc = "abandon" /\ worker'[w].key = worker[w].key
      /\ Obj(w)' = Obj(w)
  BY <1>1, AfterGoto DEF AccountInv, DynInv, Obj
<1>3. Owned(t, Obj(w))'
  BY <1>1, <1>2, Undisturbing DEF UserOK
<1>4. UserOK(w, t)'
  BY <1>1, <1>2, <1>3
  DEF UserOK, AllocationKnows, AllocatePCs, NewPCs, HandPCs, HavePCs,
      UserPCs, Undisturbed, At
<1>5. QED
  BY <1>1, <1>4, GotoMoves DEF At, HandPCs

\* After removeInstanceFromTask the copy has the finalizer.
LEMMA AfterRemovalMoves ==
    ASSUME AccountInv, DynInv', NEW w \in Workers, At(w, "remove"),
           AfterRemoval(w), Undisturbed
    PROVE  AccountInv'
<1>1. PICK t \in Tasks : OnUser(w, t) /\ Obj(w).finalizer
  BY UserKnown
  DEF At, UserPCs, ProvPCs, AllocatePCs, UserOK, AllocationKnows
<1>2. QED
  BY <1>1, FailsMoves, ReturnMoves DEF AfterRemoval, Requeue, At, HandPCs

\* Terminating an instance of t, when t is not provisioned or is over.
LEMMA Terminating ==
    ASSUME AccountInv, NEW t \in Tasks, NEW i \in Instances \cup {None},
           i # None => owner[i] = t /\ cloud[i] # "none",
           prov[t] = "none" \/ Over(t),
           Terminates(i) \/ (i = None /\ UNCHANGED cloud),
           UNCHANGED <<tr, cache, pending, secret, prov, owner, lost>>
    PROVE  Undisturbed /\ i \notin Live'
<1>1. \A j \in Instances : cloud'[j] = IF j = i THEN "terminated" ELSE cloud[j]
  BY DynamicAssumption DEF Terminates, AccountInv, DynInv, CloudOK
<1>2. /\ \A j \in Instances : cloud'[j] = "none" <=> cloud[j] = "none"
      /\ Live' \subseteq Live /\ i \notin Live'
  BY <1>1, DynamicAssumption DEF Live
<1>3. ASSUME NEW s \in Tasks, secret[s] = "ssh"
      PROVE  prov[s] # "none" /\ (HostUp(s)' \/ Over(s))
  <2>1. prov[s] # "none" /\ (HostUp(s) \/ Over(s))
    BY <1>3 DEF AccountInv, TasksOK, TaskOK
  <2>2. CASE HostUp(s) /\ ~Over(s)
    <3>1. PICK j \in Instances : owner[j] = s /\ cloud[j] = "up"
      BY <2>2 DEF HostUp
    <3>2. s # t
      BY <2>1, <2>2
    <3>3. j # i
      BY <3>1, <3>2, DynamicAssumption
    <3>4. QED
      BY <1>1, <2>1, <3>1, <3>3 DEF HostUp
  <2>3. QED
    BY <2>1, <2>2
<1>4. QED
  BY <1>2, <1>3 DEF Undisturbed

\* The instance that could not be recorded is terminated, or lost.
LEMMA AbandonedMoves ==
    ASSUME AccountInv, DynInv', NEW w \in Workers, At(w, "abandon"),
           \/ AbandonInstance(w)
           \/ TerminateFails(w)
    PROVE  AccountInv'
<1>1. PICK t \in Tasks :
      /\ t = TaskOf(w) /\ Working(w) /\ Obj(w) \in TaskRun
      /\ OnUser(w, t) /\ UserOK(w, t)
      /\ \A s \in Tasks : ~OnProv(w, s) /\ (OnUser(w, s) => s = t)
  BY UserKnown DEF At, UserPCs, ProvPCs, AllocatePCs, HandPCs
<1>2. prov[t] = "none" /\ Obj(w).finalizer /\ Owned(t, Obj(w))
  BY <1>1 DEF UserOK, AllocationKnows, At, AllocatePCs, HandPCs
<1>3. CASE AbandonInstance(w)
  <2>1. Undisturbed /\ Obj(w).instance \notin Live'
    BY <1>1, <1>2, <1>3, Terminating
    DEF AbandonInstance, Owned, TaskRun, faultVars
  <2>2. QED
    BY <1>1, <1>2, <1>3, <2>1, FailsMoves DEF AbandonInstance
<1>4. CASE TerminateFails(w)
  <2>1. /\ Fails(w) /\ lost' = lost \cup {Obj(w).instance}
        /\ UNCHANGED <<tr, pending, cache, secret, prov, cloudVars>>
    BY <1>4 DEF TerminateFails, At
  <2>2. Undisturbed
    BY <2>1, Calmly
  <2>3. QED
    BY <1>1, <1>2, <2>1, <2>2, FailsMoves
<1>5. QED
  BY <1>3, <1>4

\* An instance to be rid of is terminated, or stays recorded.
LEMMA TerminatedMoves ==
    ASSUME AccountInv, DynInv', NEW w \in Workers, At(w, "terminate"),
           \/ TerminateInstance(w)
           \/ TerminateFails(w)
    PROVE  AccountInv'
<1>1. PICK t \in Tasks :
      /\ t = TaskOf(w) /\ Working(w) /\ Obj(w) \in TaskRun
      /\ OnUser(w, t) /\ UserOK(w, t)
      /\ \A s \in Tasks : ~OnProv(w, s) /\ (OnUser(w, s) => s = t)
  BY UserKnown DEF At, UserPCs, ProvPCs, AllocatePCs, HavePCs
<1>2. /\ prov[t] = "none" /\ Obj(w).finalizer /\ Owned(t, Obj(w))
      /\ tr[t].finalizer /\ tr[t].instance = Obj(w).instance
      /\ tr[t].phase # "absent"
  BY <1>1 DEF UserOK, AllocationKnows, At, AllocatePCs, HavePCs
<1>3. CASE TerminateInstance(w)
  <2>0. PICK o : o = [Obj(w) EXCEPT !.instance = None, !.assigned = FALSE]
    OBVIOUS
  <2>1. Goto(w, "remove", o)
    BY <1>3, <2>0 DEF TerminateInstance
  <2>2. o.instance = None /\ o.finalizer
    BY <1>1, <1>2, <2>0 DEF TaskRun
  <2>3. Undisturbed /\ Obj(w).instance \notin Live'
    BY <1>1, <1>2, <1>3, Terminating
    DEF TerminateInstance, Owned, TaskRun, faultVars
  <2>4. /\ worker'[w].pc = "remove" /\ worker'[w].key = worker[w].key
        /\ Obj(w)' = o
    BY <1>1, <2>1, AfterGoto DEF AccountInv, DynInv, Obj
  <2>5. UserOK(w, t)'
    BY <1>2, <2>2, <2>3, <2>4
    DEF UserOK, AllocationKnows, AllocatePCs, NewPCs, HandPCs, HavePCs,
        UserPCs, Undisturbed, Owned
  <2>6. QED
    BY <1>1, <2>1, <2>3, <2>5, GotoMoves DEF At, HandPCs
<1>4. CASE TerminateFails(w)
  <2>0. PICK o : o = [Obj(w) EXCEPT !.assigned = FALSE]
    OBVIOUS
  <2>1. /\ Goto(w, "remove", o) /\ lost' = lost
        /\ UNCHANGED <<tr, pending, cache, secret, prov, cloudVars>>
    BY <1>4, <2>0 DEF TerminateFails, At
  <2>2. o.instance = Obj(w).instance /\ o.finalizer /\ Owned(t, o)
    BY <1>1, <1>2, <2>0 DEF TaskRun, Owned
  <2>3. o \in TaskRun
    BY <1>1, <2>0, Updated
  <2>4. Undisturbed
    BY <2>1, Calmly
  <2>5. /\ worker'[w].pc = "remove" /\ worker'[w].key = worker[w].key
        /\ Obj(w)' = o /\ Owned(t, o)'
    BY <1>1, <2>1, <2>2, <2>3, <2>4, AfterGoto, Undisturbing
    DEF AccountInv, DynInv, Obj
  <2>6. UserOK(w, t)'
    BY <1>2, <2>2, <2>4, <2>5
    DEF UserOK, AllocationKnows, AllocatePCs, NewPCs, HandPCs, HavePCs,
        UserPCs, Undisturbed
  <2>7. QED
    BY <1>1, <2>1, <2>4, <2>6, GotoMoves DEF At, HandPCs
<1>5. QED
  BY <1>3, <1>4

\* Deallocate: the instance of a TaskRun that is over is terminated, or lost.
LEMMA DeallocateMoves ==
    ASSUME AccountInv, DynInv', NEW w \in Workers, At(w, "deallocate"),
           \/ Deallocate(w)
           \/ TerminateFails(w)
    PROVE  AccountInv'
<1>1. PICK t \in Tasks :
      /\ t = TaskOf(w) /\ Working(w) /\ Obj(w) \in TaskRun
      /\ OnUser(w, t) /\ UserOK(w, t)
      /\ \A s \in Tasks : ~OnProv(w, s) /\ (OnUser(w, s) => s = t)
  BY UserKnown DEF At, UserPCs, ProvPCs, AllocatePCs, NewPCs, HandPCs, HavePCs
<1>2. /\ Owned(t, Obj(w)) /\ Over(t) /\ tr[t].phase # "absent"
      /\ \A i \in Mine(t) : Obj(w).instance = i
  BY <1>1 DEF UserOK, At
<1>3. ASSUME NEW o, Goto(w, "release", o), Owned(t, o)', Undisturbed,
             Obj(w).instance \notin Live' \ lost'
      PROVE  AccountInv'
  <2>1. Mine(t)' = {}
    BY <1>2, <1>3, Undisturbing DEF Mine
  <2>2. /\ worker'[w].pc = "release" /\ worker'[w].key = worker[w].key
        /\ Obj(w)' = o /\ Over(t)'
    BY <1>1, <1>2, <1>3, AfterGoto, Undisturbing DEF AccountInv, DynInv, Obj
  <2>3. UserOK(w, t)'
    BY <1>2, <1>3, <2>1, <2>2
    DEF UserOK, AllocationKnows, AllocatePCs, NewPCs, HandPCs, HavePCs,
        UserPCs, Undisturbed
  <2>4. QED
    BY <1>1, <1>3, <2>3, GotoMoves DEF At, HandPCs
<1>4. CASE Deallocate(w)
  <2>0. PICK o : o = Released([Obj(w) EXCEPT !.instance = None])
    OBVIOUS
  <2>1. o.instance = None
    BY <1>1, <2>0 DEF Released, TaskRun
  <2>2. Owned(t, o)'
    BY <2>1 DEF Owned
  <2>3. Goto(w, "release", o)
    BY <1>4, <2>0 DEF Deallocate
  <2>4. Undisturbed /\ Obj(w).instance \notin Live'
    BY <1>1, <1>2, <1>4, Terminating DEF Deallocate, Owned, TaskRun, faultVars
  <2>5. QED
    BY <1>3, <2>2, <2>3, <2>4
<1>5. CASE TerminateFails(w)
  <2>0. PICK o : o = Released(Obj(w))
    OBVIOUS
  <2>1. /\ Goto(w, "release", o) /\ lost' = lost \cup {Obj(w).instance}
        /\ UNCHANGED <<tr, pending, cache, secret, prov, cloudVars>>
    BY <1>5, <2>0 DEF TerminateFails, At
  <2>2. Undisturbed
    BY <2>1, Calmly
  <2>3. o \in TaskRun /\ o.instance = Obj(w).instance
    BY <1>1, <2>0 DEF Released, TaskRun
  <2>4. Owned(t, o)'
    <3>1. Owned(t, o)
      BY <1>2, <2>3 DEF Owned
    <3>2. QED
      BY <2>2, <2>3, <3>1, Undisturbing
  <2>5. QED
    BY <1>3, <2>1, <2>2, <2>4
<1>6. QED
  BY <1>4, <1>5

\* The remaining calls that store no user TaskRun and launch nothing, and the
\* faults that do not.
LEMMA PlainMoves ==
    ASSUME AccountInv, DynInv', NEW w \in Workers,
           \/ QuotaReached(w) \/ LaunchFails(w) \/ RecordFails(w)
           \/ ErrorRequeues(w) \/ UpdateLost(w) \/ AssignFails(w)
           \/ CreateErrorSecret(w) \/ DeleteSecret(w) \/ SecretDeleteFails(w)
           \/ WakeWaiting(w) \/ MarkProcessed(w)
    PROVE  AccountInv'
<1>1. UNCHANGED <<tr, pending, cache, secret, prov, cloudVars, lost>>
      => Undisturbed
  BY Calmly
<1>2. CASE QuotaReached(w) \/ LaunchFails(w)
  BY <1>1, <1>2, CountMoves DEF QuotaReached, LaunchFails, faultVars
<1>3. CASE RecordFails(w)
  BY <1>1, <1>3, AbandonMoves DEF RecordFails
<1>4. CASE ErrorRequeues(w)
  BY <1>1, <1>4, ReturnMoves DEF ErrorRequeues, Requeue, HandPCs
<1>5. CASE UpdateLost(w)
  BY <1>1, <1>5, ReturnMoves, AfterRemovalMoves
  DEF UpdateLost, Requeue, HandPCs, At
<1>6. CASE AssignFails(w)
  <2>1. PICK t \in Tasks : OnUser(w, t) /\ Obj(w).finalizer
    BY <1>6, UserKnown
    DEF AssignFails, At, UserPCs, ProvPCs, AllocatePCs, HavePCs, UserOK,
        AllocationKnows
  <2>2. QED
    BY <1>1, <1>6, <2>1, FailsMoves DEF AssignFails, At, HandPCs
<1>7. CASE CreateErrorSecret(w)
  <2>1. \A t \in Tasks : secret'[t] = "ssh" => secret[t] = "ssh"
    BY <1>7 DEF CreateErrorSecret, ErrorSecret, AccountInv, DynInv, JobsOK
  <2>2. Undisturbed
    BY <1>7, <2>1, Calmly DEF CreateErrorSecret, faultVars
  <2>3. Working(w)
    BY <1>7 DEF CreateErrorSecret, At, Working
  <2>4. QED
    BY <1>7, <2>2, <2>3, ReturnMoves, QuietMoves
    DEF CreateErrorSecret, Requeue, At, HandPCs
<1>8. CASE DeleteSecret(w) \/ SecretDeleteFails(w)
  <2>1. \A t \in Tasks : secret'[t] = "ssh" => secret[t] = "ssh"
    BY <1>8 DEF DeleteSecret, SecretDeleteFails, AccountInv, DynInv, JobsOK
  <2>2. Undisturbed
    BY <1>8, <2>1, Calmly DEF DeleteSecret, SecretDeleteFails, faultVars
  <2>3. At(w, "deleteSecret") /\ Working(w) /\ Goto(w, "wake", Absent)
    BY <1>8 DEF DeleteSecret, SecretDeleteFails, At, Working
  <2>4. worker[w].key[2] = "user"
    BY <2>3, UserKnown
    DEF At, UserPCs, ProvPCs, AllocatePCs, NewPCs, HandPCs, HavePCs, OnUser
  <2>5. QED
    BY <2>2, <2>3, <2>4, QuietMoves DEF At, HandPCs
<1>9. CASE WakeWaiting(w)
  <2>1. \A t \in Tasks :
           pending'[t] = "assignment" <=> pending[t] = "assignment"
    BY <1>9 DEF WakeWaiting, AccountInv, DynInv, StoreOK
  <2>2. Undisturbed
    BY <1>9, <2>1, Calmly DEF WakeWaiting, faultVars
  <2>3. QED
    BY <1>9, <2>2, ReturnMoves DEF WakeWaiting, At, HandPCs
<1>10. CASE MarkProcessed(w)
  <2>1. prov[TaskOf(w)] # "none"
    BY <1>10, ProvKnown
    DEF MarkProcessed, At, ProvPCs, UserPCs, AllocatePCs, NewPCs, HandPCs,
        HavePCs, ProvOK
  <2>2. \A t \in Tasks : prov'[t] = "none" <=> prov[t] = "none"
    BY <1>10, <2>1 DEF MarkProcessed, AccountInv, DynInv, JobsOK
  <2>3. Undisturbed
    BY <1>10, <2>2, Calmly DEF MarkProcessed, faultVars
  <2>4. QED
    BY <1>10, <2>3, ReturnMoves DEF MarkProcessed, At, HandPCs
<1>11. QED
  BY <1>2, <1>3, <1>4, <1>5, <1>6, <1>7, <1>8, <1>9, <1>10

\* The provision TaskRun cannot be created.
LEMMA ProvisionFailsMoves ==
    ASSUME AccountInv, DynInv', NEW w \in Workers, ProvisionLaunchFails(w)
    PROVE  AccountInv'
<1>1. PICK t \in Tasks :
      /\ t = TaskOf(w) /\ Working(w) /\ Obj(w) \in TaskRun
      /\ OnUser(w, t) /\ UserOK(w, t)
      /\ \A s \in Tasks : ~OnProv(w, s) /\ (OnUser(w, s) => s = t)
  BY UserKnown
  DEF ProvisionLaunchFails, At, UserPCs, ProvPCs, AllocatePCs, HavePCs
<1>2. \A s \in Tasks : secret'[s] = "ssh" => secret[s] = "ssh"
  BY DEF ProvisionLaunchFails, ErrorSecret, AccountInv, DynInv, JobsOK
<1>3. Undisturbed /\ At(w, "provision")
  BY <1>2, Calmly DEF ProvisionLaunchFails
<1>4. CASE Return(w)
  BY <1>3, <1>4, ReturnMoves DEF At, HandPCs
<1>5. CASE Goto(w, "terminate", Obj(w))
  <2>1. /\ worker'[w].pc = "terminate" /\ worker'[w].key = worker[w].key
        /\ Obj(w)' = Obj(w)
    BY <1>1, <1>5, AfterGoto DEF AccountInv, DynInv, Obj
  <2>2. Owned(t, Obj(w))'
    BY <1>1, <1>3, <2>1, Undisturbing DEF UserOK
  <2>3. UserOK(w, t)'
    BY <1>1, <1>3, <2>1, <2>2
    DEF UserOK, AllocationKnows, AllocatePCs, NewPCs, HandPCs, HavePCs,
        UserPCs, Undisturbed, At
  <2>4. QED
    BY <1>1, <1>3, <1>5, <2>3, GotoMoves DEF At, HandPCs
<1>6. QED
  BY <1>4, <1>5 DEF ProvisionLaunchFails

(***************************************************************************)
(* The calls that store a user TaskRun.                                    *)
(***************************************************************************)

\* What is stored: the copy, or nothing is left if it lacks the finalizer.
LEMMA UpdateStores ==
    ASSUME StoreOK, NEW t \in Tasks, NEW mine \in TaskRun, NEW kind,
           Exists(tr[t]), UpdateTaskRunWithRetry(t, mine, kind)
    PROVE  /\ \A s \in Tasks \ {t} : tr'[s] = tr[s] /\ pending'[s] = pending[s]
           /\ pending[t] = "assignment" => pending'[t] = "assignment"
           /\ tr'[t].phase # "absent" /\ (Over(t) => Over(t)')
           /\ \/ /\ tr'[t].instance = mine.instance
                 /\ tr'[t].finalizer = mine.finalizer
                 /\ tr'[t].assigned = mine.assigned
                 /\ tr'[t].failed = mine.failed
              \/ /\ ~mine.finalizer /\ tr'[t].instance = None
                 /\ Over(t)'
           /\ kind = "assignment" /\ mine.finalizer
              /\ mine.assigned # tr[t].assigned => pending'[t] = "assignment"
<1>1. PICK n : n = Merged(tr[t], mine)
  OBVIOUS
<1>2. /\ n \in TaskRun /\ n.phase = tr[t].phase /\ n.deleting = tr[t].deleting
      /\ n.instance = mine.instance /\ n.finalizer = mine.finalizer
      /\ n.assigned = mine.assigned /\ n.failed = mine.failed
  BY <1>1 DEF Merged, TaskRun, StoreOK
<1>3. Put(t, n, kind)
  BY <1>1 DEF UpdateTaskRunWithRetry
<1>4. /\ tr'[t] = Settled(n)
      /\ \A s \in Tasks \ {t} : tr'[s] = tr[s] /\ pending'[s] = pending[s]
      /\ pending[t] = "assignment" => pending'[t] = "assignment"
      /\ kind = "assignment" /\ Settled(n) # tr[t] =>
            pending'[t] = "assignment"
  BY <1>2, <1>3, PutStores
<1>5. CASE n.deleting /\ ~n.finalizer
  <2>1. tr'[t] = Gone
    BY <1>4, <1>5 DEF Settled
  <2>2. Gone.phase = "gone" /\ Gone.instance = None
    BY DEF Gone, Absent
  <2>3. QED
    BY <1>2, <1>4, <1>5, <2>1, <2>2 DEF Over
<1>6. CASE ~(n.deleting /\ ~n.finalizer)
  <2>1. tr'[t] = n
    BY <1>4, <1>6 DEF Settled
  <2>2. Settled(n) = tr[t] => mine.assigned = tr[t].assigned
    BY <1>2, <1>4, <2>1
  <2>3. QED
    BY <1>2, <1>4, <2>1, <2>2 DEF Over, Done, Exists
<1>7. QED
  BY <1>5, <1>6

\* A reconcile of t, or of its provision TaskRun, stores t.
LEMMA StoresTask ==
    ASSUME AccountInv, DynInv', NEW w \in Workers, NEW t \in Tasks,
           OnUser(w, t) \/ OnProv(w, t),
           \A v \in Workers \ {w} : worker'[v] = worker[v],
           worker'[w].pc = "idle" \/ worker'[w].key = worker[w].key,
           UNCHANGED <<cache, secret, prov, cloud, owner, lost>>,
           \A s \in Tasks \ {t} : tr'[s] = tr[s] /\ pending'[s] = pending[s],
           pending[t] = "assignment" => pending'[t] = "assignment",
           tr'[t].phase # "absent", Over(t) => Over(t)',
           Owned(t, tr'[t]),
           tr'[t].instance # None /\ ~tr'[t].finalizer => Over(t)',
           prov[t] # "none" => tr'[t].assigned \/ tr'[t].failed \/ Over(t)',
           \A i \in Mine(t) : Recorded(i) =>
               tr'[t].instance = i /\ tr'[t].finalizer,
           \A s \in Tasks : /\ OnUser(w, s)' => UserOK(w, s)'
                            /\ OnProv(w, s)' => ProvOK(w, s)',
           worker[w].pc \in HandPCs =>
               tr'[t].instance = Obj(w).instance /\ tr'[t].finalizer
    PROVE  AccountInv'
<1>1. KeysApart'
  BY KeysKept DEF AccountInv, OnUser, OnProv
<1>2. ASSUME NEW v \in Workers \ {w}, OnUser(v, t)
      PROVE  AllocationKnows(v, t)'
  <2>1. prov[t] # "none"
    BY <1>2 DEF AccountInv, KeysApart, OnUser, ReconcilesOK, ProvOK
  <2>2. UserOK(v, t)
    BY <1>2 DEF AccountInv, ReconcilesOK
  <2>3. worker[v].pc \notin AllocatePCs /\ worker'[v] = worker[v]
    BY <2>1, <2>2 DEF UserOK, AllocationKnows
  <2>4. QED
    BY <2>3 DEF AllocationKnows, AllocatePCs, NewPCs, HandPCs, HavePCs
<1>3. ASSUME NEW i \in Live \ lost, worker[w].pc \in HandPCs,
             Obj(w).instance = i
      PROVE  Recorded(i)'
  <2>1. UserOK(w, t)
    BY <1>3 DEF AccountInv, ReconcilesOK, ProvOK, ProvPCs, HandPCs
  <2>2. owner[i] = t
    BY <1>3, <2>1, DynamicAssumption DEF UserOK, Owned, Live
  <2>3. QED
    BY <1>3, <2>2 DEF Recorded
<1>4. QED
  <2> DEFINE W == {w}
  <2>1. W \in SUBSET Workers /\ Workers \ W = Workers \ {w}
    OBVIOUS
  <2>2. \A v \in W : v = w
    OBVIOUS
  <2> HIDE DEF W
  <2>3. QED
    BY <1>1, <1>2, <1>3, <2>1, <2>2, StoreMoves

\* In particular with updateTaskRun.
LEMMA UpdateMoves ==
    ASSUME AccountInv, DynInv', NEW w \in Workers, NEW t \in Tasks,
           OnUser(w, t) \/ OnProv(w, t),
           NEW mine \in TaskRun, NEW kind, Exists(tr[t]),
           UpdateTaskRunWithRetry(t, mine, kind),
           \A v \in Workers \ {w} : worker'[v] = worker[v],
           worker'[w].pc = "idle" \/ worker'[w].key = worker[w].key,
           UNCHANGED <<cache, secret, prov, cloud, owner, lost>>,
           Owned(t, mine), Finalized(t, mine),
           prov[t] # "none" => mine.assigned \/ mine.failed \/ Over(t),
           \A i \in Mine(t) : Recorded(i) => mine.instance = i /\ mine.finalizer,
           \A s \in Tasks : /\ OnUser(w, s)' => UserOK(w, s)'
                            /\ OnProv(w, s)' => ProvOK(w, s)',
           worker[w].pc \in HandPCs =>
               mine.instance = Obj(w).instance /\ mine.finalizer
    PROVE  AccountInv'
<1>1. /\ \A s \in Tasks \ {t} : tr'[s] = tr[s] /\ pending'[s] = pending[s]
      /\ pending[t] = "assignment" => pending'[t] = "assignment"
      /\ tr'[t].phase # "absent" /\ (Over(t) => Over(t)')
      /\ \/ /\ tr'[t].instance = mine.instance
            /\ tr'[t].finalizer = mine.finalizer
            /\ tr'[t].assigned = mine.assigned
            /\ tr'[t].failed = mine.failed
         \/ /\ ~mine.finalizer /\ tr'[t].instance = None
            /\ Over(t)'
  BY UpdateStores DEF AccountInv, DynInv
<1>2. Owned(t, tr'[t])
  BY <1>1 DEF Owned
<1>3. tr'[t].instance # None /\ ~tr'[t].finalizer => Over(t)'
  BY <1>1 DEF Finalized
<1>4. prov[t] # "none" => tr'[t].assigned \/ tr'[t].failed \/ Over(t)'
  BY <1>1
<1>5. \A i \in Mine(t) : Recorded(i) => tr'[t].instance = i /\ tr'[t].finalizer
  BY <1>1
<1>6. worker[w].pc \in HandPCs =>
         tr'[t].instance = Obj(w).instance /\ tr'[t].finalizer
  BY <1>1
<1>7. QED
  BY <1>1, <1>2, <1>3, <1>4, <1>5, <1>6, StoresTask

\* An update that ends the reconcile.
LEMMA UpdateReturns ==
    ASSUME AccountInv, DynInv', NEW w \in Workers, NEW t \in Tasks,
           OnUser(w, t),
           NEW mine \in TaskRun, NEW kind, Exists(tr[t]),
           UpdateTaskRunWithRetry(t, mine, kind), Return(w),
           UNCHANGED <<cache, secret, prov, cloud, owner, lost>>,
           Owned(t, mine), Finalized(t, mine), prov[t] = "none",
           \A i \in Mine(t) : Recorded(i) => mine.instance = i /\ mine.finalizer,
           worker[w].pc \in HandPCs =>
               mine.instance = Obj(w).instance /\ mine.finalizer
    PROVE  AccountInv'
<1>1. /\ \A v \in Workers \ {w} : worker'[v] = worker[v]
      /\ worker'[w].pc = "idle"
  BY AfterReturn DEF AccountInv, DynInv
<1>2. \A s \in Tasks : ~OnUser(w, s)' /\ ~OnProv(w, s)'
  BY <1>1 DEF OnUser, OnProv, Working
<1>3. QED
  BY <1>1, <1>2, UpdateMoves

\* The waiting label, and the count of failed launches.
LEMMA CountedMoves ==
    ASSUME AccountInv, DynInv', NEW w \in Workers,
           WaitForRoom(w) \/ CountFailure(w) \/ LosesCount(w)
    PROVE  AccountInv'
<1>1. /\ At(w, "wait") \/ At(w, "countFailure")
      /\ Return(w)
      /\ UNCHANGED <<cache, secret, prov, cloud, owner, lost>>
  BY DEF WaitForRoom, CountFailure, LosesCount, Requeue, cloudVars, faultVars
<1>2. PICK t \in Tasks :
      /\ t = TaskOf(w) /\ Obj(w) \in TaskRun /\ tr[t] \in TaskRun
      /\ OnUser(w, t) /\ UserOK(w, t)
  BY <1>1, UserKnown DEF At, UserPCs, ProvPCs, AllocatePCs, NewPCs
<1>3. /\ prov[t] = "none" /\ Obj(w).instance = None /\ tr[t].instance = None
  BY <1>1, <1>2
  DEF UserOK, AllocationKnows, At, AllocatePCs, NewPCs, HandPCs, HavePCs
<1>4. \A i \in Mine(t) : ~Recorded(i)
  BY <1>3, DynamicAssumption DEF Recorded, Mine, Live
<1>5. ASSUME NEW mine \in TaskRun, mine.instance = None, Exists(tr[t]),
             UpdateTaskRunWithRetry(t, mine, "events")
      PROVE  AccountInv'
  <2>1. Owned(t, mine) /\ Finalized(t, mine) /\ worker[w].pc \notin HandPCs
    BY <1>1, <1>5 DEF Owned, Finalized, At, HandPCs
  <2>2. QED
    BY <1>1, <1>2, <1>3, <1>4, <1>5, <2>1, UpdateReturns
<1>6. CASE UNCHANGED storeVars
  <2>1. Undisturbed
    BY <1>1, <1>6, Calmly DEF storeVars, cloudVars
  <2>2. QED
    BY <1>1, <2>1, ReturnMoves DEF At, HandPCs
<1>7. CASE (WaitForRoom(w) \/ CountFailure(w)) /\ ~UNCHANGED storeVars
  BY <1>2, <1>3, <1>5, <1>7 DEF WaitForRoom, CountFailure
<1>8. CASE LosesCount(w)
  <2>1. PICK mine : mine = [Obj(w) EXCEPT !.failures = tr[t].failures]
    OBVIOUS
  <2>2. mine \in TaskRun /\ mine.instance = None
    BY <1>2, <1>3, <2>1 DEF TaskRun
  <2>3. QED
    BY <1>2, <1>5, <1>8, <2>1, <2>2 DEF LosesCount, UpdateTaskRunWithRetry
<1>9. QED
  BY <1>6, <1>7, <1>8

\* The instance is recorded, with the finalizer.
LEMMA RecordMoves ==
    ASSUME AccountInv, DynInv', NEW w \in Workers, RecordInstance(w)
    PROVE  AccountInv'
<1>1. At(w, "record") /\ UNCHANGED <<cache, secret, prov, cloud, owner, lost>>
  BY DEF RecordInstance, cloudVars, faultVars
<1>2. PICK t \in Tasks :
      /\ t = TaskOf(w) /\ Obj(w) \in TaskRun /\ tr[t] \in TaskRun
      /\ OnUser(w, t) /\ UserOK(w, t)
  BY <1>1, UserKnown DEF At, UserPCs, ProvPCs, AllocatePCs, HandPCs
<1>3. /\ prov[t] = "none" /\ Obj(w).finalizer /\ tr[t].instance = None
      /\ Owned(t, Obj(w)) /\ Finalized(t, Obj(w))
  BY <1>1, <1>2 DEF UserOK, AllocationKnows, At, AllocatePCs, HandPCs, Finalized
<1>4. \A i \in Mine(t) : ~Recorded(i)
  BY <1>3, DynamicAssumption DEF Recorded, Mine, Live
<1>5. CASE Exists(tr[t])
  BY <1>1, <1>2, <1>3, <1>4, <1>5, UpdateReturns
  DEF RecordInstance, Requeue
<1>6. CASE ~Exists(tr[t])
  <2>1. Goto(w, "abandon", Obj(w)) /\ UNCHANGED <<tr, pending>>
    BY <1>2, <1>6 DEF RecordInstance
  <2>2. Undisturbed
    BY <1>1, <2>1, Calmly DEF cloudVars
  <2>3. QED
    BY <1>1, <2>1, <2>2, AbandonMoves
<1>7. QED
  BY <1>5, <1>6

\* The instance is assigned: a watch event tells of it.
LEMMA AssignMoves ==
    ASSUME AccountInv, DynInv', NEW w \in Workers, AssignInstance(w)
    PROVE  AccountInv'
<1>1. At(w, "assign") /\ UNCHANGED <<cache, secret, prov, cloud, owner, lost>>
  BY DEF AssignInstance, cloudVars, faultVars
<1>2. PICK t \in Tasks :
      /\ t = TaskOf(w) /\ Working(w) /\ Obj(w) \in TaskRun
      /\ OnUser(w, t) /\ UserOK(w, t)
      /\ \A s \in Tasks : ~OnProv(w, s) /\ (OnUser(w, s) => s = t)
  BY <1>1, UserKnown DEF At, UserPCs, ProvPCs, AllocatePCs, HavePCs
<1>3. /\ prov[t] = "none" /\ Obj(w).finalizer /\ Owned(t, Obj(w))
      /\ tr[t].instance = Obj(w).instance /\ Obj(w).instance # None
      /\ Obj(w).assigned /\ ~tr[t].assigned
  BY <1>1, <1>2 DEF UserOK, AllocationKnows, At, AllocatePCs, HavePCs
<1>4. CASE Exists(tr[t])
  <2>1. /\ UpdateTaskRunWithRetry(t, Obj(w), "assignment")
        /\ Goto(w, "provision", Obj(w))
    BY <1>2, <1>4 DEF AssignInstance
  <2>2. /\ \A v \in Workers \ {w} : worker'[v] = worker[v]
        /\ worker'[w].pc = "provision" /\ worker'[w].key = worker[w].key
        /\ Obj(w)' = Obj(w)
    BY <1>2, <2>1, AfterGoto DEF AccountInv, DynInv, Obj
  <2>3. /\ tr'[t].phase # "absent" /\ pending'[t] = "assignment"
        /\ tr'[t].instance = Obj(w).instance
        /\ tr'[t].finalizer /\ tr'[t].assigned
    BY <1>2, <1>3, <1>4, <2>1, UpdateStores DEF AccountInv, DynInv
  <2>4. UserOK(w, t)'
    BY <1>1, <1>3, <2>2, <2>3
    DEF UserOK, AllocationKnows, AllocatePCs, NewPCs, HandPCs, HavePCs,
        UserPCs, Owned
  <2>5. \A s \in Tasks : /\ OnUser(w, s)' => UserOK(w, s)'
                         /\ OnProv(w, s)' => ProvOK(w, s)'
    BY <1>2, <2>2, <2>4 DEF OnUser, OnProv
  <2>6. \A i \in Mine(t) : Recorded(i) => Obj(w).instance = i
    BY <1>3 DEF Recorded, Mine
  <2>7. Finalized(t, Obj(w)) /\ worker[w].pc \notin HandPCs
    BY <1>1, <1>3 DEF Finalized, At, HandPCs
  <2>8. QED
    BY <1>1, <1>2, <1>3, <1>4, <2>1, <2>2, <2>5, <2>6, <2>7, UpdateMoves
<1>5. CASE ~Exists(tr[t])
  <2>1. Fails(w) /\ UNCHANGED storeVars
    BY <1>2, <1>5 DEF AssignInstance
  <2>2. Undisturbed
    BY <1>1, <2>1, Calmly DEF storeVars, cloudVars
  <2>3. QED
    BY <1>1, <1>2, <1>3, <2>1, <2>2, FailsMoves DEF At, HandPCs
<1>6. QED
  BY <1>4, <1>5

\* The id of the terminated instance is removed, or that of one that could not
\* be terminated is stored again.
LEMMA RemoveMoves ==
    ASSUME AccountInv, DynInv', NEW w \in Workers, RemoveInstance(w)
    PROVE  AccountInv'
<1>1. /\ At(w, "remove") /\ AfterRemoval(w)
      /\ UNCHANGED <<cache, secret, prov, cloud, owner, lost>>
  BY DEF RemoveInstance, cloudVars, faultVars
<1>2. PICK t \in Tasks :
      /\ t = TaskOf(w) /\ Working(w) /\ Obj(w) \in TaskRun
      /\ OnUser(w, t) /\ UserOK(w, t)
      /\ \A s \in Tasks : ~OnProv(w, s) /\ (OnUser(w, s) => s = t)
  BY <1>1, UserKnown DEF At, UserPCs, ProvPCs, AllocatePCs
<1>3. /\ prov[t] = "none" /\ Obj(w).finalizer /\ Owned(t, Obj(w))
      /\ \/ Obj(w).instance = tr[t].instance
         \/ tr[t].instance \notin Live
  BY <1>1, <1>2 DEF UserOK, AllocationKnows, At, AllocatePCs
<1>4. CASE Exists(tr[t])
  <2>1. UpdateTaskRunWithRetry(t, Obj(w), "events")
    BY <1>2, <1>4 DEF RemoveInstance
  <2>2. \A i \in Mine(t) : Recorded(i) => Obj(w).instance = i
    BY <1>3 DEF Recorded, Mine
  <2>3. Finalized(t, Obj(w)) /\ worker[w].pc \notin HandPCs
    BY <1>1, <1>3 DEF Finalized, At, HandPCs
  <2>4. CASE Return(w)
    BY <1>1, <1>2, <1>3, <1>4, <2>1, <2>2, <2>3, <2>4, UpdateReturns
  <2>5. CASE Goto(w, "errorSecret", Obj(w))
    <3>1. /\ \A v \in Workers \ {w} : worker'[v] = worker[v]
          /\ worker'[w].pc = "errorSecret" /\ worker'[w].key = worker[w].key
          /\ Obj(w)' = Obj(w)
      BY <1>2, <2>5, AfterGoto DEF AccountInv, DynInv, Obj
    <3>2. tr'[t].phase # "absent"
      BY <1>2, <1>4, <2>1, UpdateStores DEF AccountInv, DynInv
    <3>3. UserOK(w, t)'
      BY <1>1, <1>3, <3>1, <3>2
      DEF UserOK, AllocationKnows, AllocatePCs, NewPCs, HandPCs, HavePCs,
          UserPCs, Owned
    <3>4. \A s \in Tasks : /\ OnUser(w, s)' => UserOK(w, s)'
                           /\ OnProv(w, s)' => ProvOK(w, s)'
      BY <1>2, <3>1, <3>3 DEF OnUser, OnProv
    <3>5. QED
      BY <1>1, <1>2, <1>3, <1>4, <2>1, <2>2, <2>3, <3>1, <3>4, UpdateMoves
  <2>6. QED
    BY <1>1, <1>3, <2>4, <2>5 DEF AfterRemoval, Requeue, Fails, FailPC
<1>5. CASE ~Exists(tr[t])
  <2>1. UNCHANGED storeVars
    BY <1>2, <1>5 DEF RemoveInstance
  <2>2. Undisturbed
    BY <1>1, <2>1, Calmly DEF storeVars, cloudVars
  <2>3. QED
    BY <1>1, <2>2, AfterRemovalMoves
<1>6. QED
  BY <1>4, <1>5

\* The finalizer is removed when no instance is left to be accounted for.
LEMMA ReleaseMoves ==
    ASSUME AccountInv, DynInv', NEW w \in Workers, ReleaseTask(w)
    PROVE  AccountInv'
<1>1. At(w, "release") /\ UNCHANGED <<cache, secret, prov, cloud, owner, lost>>
  BY DEF ReleaseTask, cloudVars, faultVars
<1>2. PICK t \in Tasks :
      /\ t = TaskOf(w) /\ Working(w) /\ Obj(w) \in TaskRun
      /\ OnUser(w, t) /\ UserOK(w, t)
      /\ \A s \in Tasks : ~OnProv(w, s) /\ (OnUser(w, s) => s = t)
  BY <1>1, UserKnown
  DEF At, UserPCs, ProvPCs, AllocatePCs, NewPCs, HandPCs, HavePCs
<1>3. Over(t) /\ Mine(t) = {} /\ Owned(t, Obj(w)) /\ Finalized(t, Obj(w))
  BY <1>1, <1>2 DEF UserOK, At, Finalized
<1>4. CASE Exists(tr[t])
  <2>1. /\ UpdateTaskRunWithRetry(t, Obj(w), "events")
        /\ Goto(w, "deleteSecret", Absent)
    BY <1>2, <1>4 DEF ReleaseTask
  <2>2. /\ \A v \in Workers \ {w} : worker'[v] = worker[v]
        /\ worker'[w].pc = "deleteSecret" /\ worker'[w].key = worker[w].key
        /\ Obj(w)' = Absent
    BY <1>2, <2>1, AfterGoto DEF AccountInv, DynInv, Obj
  <2>3. tr'[t].phase # "absent" /\ Absent.instance = None
    BY <1>2, <1>4, <2>1, UpdateStores DEF AccountInv, DynInv, Absent
  <2>4. UserOK(w, t)'
    BY <2>2, <2>3
    DEF UserOK, AllocationKnows, AllocatePCs, NewPCs, HandPCs, HavePCs,
        UserPCs, Owned
  <2>5. \A s \in Tasks : /\ OnUser(w, s)' => UserOK(w, s)'
                         /\ OnProv(w, s)' => ProvOK(w, s)'
    BY <1>2, <2>2, <2>4 DEF OnUser, OnProv
  <2>6. QED
    BY <1>1, <1>2, <1>3, <1>4, <2>1, <2>2, <2>5, UpdateMoves DEF At, HandPCs
<1>5. CASE ~Exists(tr[t])
  <2>1. Return(w) /\ UNCHANGED storeVars
    BY <1>2, <1>5 DEF ReleaseTask, Requeue
  <2>2. Undisturbed
    BY <1>1, <2>1, Calmly DEF storeVars, cloudVars
  <2>3. QED
    BY <1>1, <2>1, <2>2, ReturnMoves DEF At, HandPCs
<1>6. QED
  BY <1>4, <1>5

\* The provision TaskRun failed: the cached copy that is stored remembers the
\* instance.
LEMMA UnassignMoves ==
    ASSUME AccountInv, DynInv', NEW w \in Workers, UnassignFailed(w)
    PROVE  AccountInv'
<1>1. /\ At(w, "unassignFailed")
      /\ UNCHANGED <<cache, secret, prov, cloud, owner, lost>>
  BY DEF UnassignFailed, cloudVars, faultVars
<1>2. PICK t \in Tasks :
      /\ t = TaskOf(w) /\ Working(w) /\ Obj(w) \in TaskRun
      /\ OnProv(w, t) /\ ProvOK(w, t)
      /\ \A s \in Tasks : ~OnUser(w, s) /\ (OnProv(w, s) => s = t)
  BY <1>1, ProvKnown
  DEF At, UserPCs, ProvPCs, AllocatePCs, NewPCs, HandPCs, HavePCs
<1>3. /\ Obj(w).failed /\ Owned(t, Obj(w)) /\ Finalized(t, Obj(w))
      /\ Remembers(t, Obj(w)) /\ prov[t] # "none"
  BY <1>1, <1>2 DEF ProvOK, At
<1>4. CASE Exists(tr[t])
  <2>1. /\ UpdateTaskRunWithRetry(t, Obj(w), "events")
        /\ Goto(w, "mark", Absent)
    BY <1>2, <1>4 DEF UnassignFailed
  <2>2. /\ \A v \in Workers \ {w} : worker'[v] = worker[v]
        /\ worker'[w].pc = "mark" /\ worker'[w].key = worker[w].key
        /\ Obj(w)' = Absent
    BY <1>2, <2>1, AfterGoto DEF AccountInv, DynInv, Obj
  <2>3. ProvOK(w, t)'
    BY <1>1, <1>3, <2>2 DEF ProvOK, ProvPCs, Owned, Absent
  <2>4. \A s \in Tasks : /\ OnUser(w, s)' => UserOK(w, s)'
                         /\ OnProv(w, s)' => ProvOK(w, s)'
    BY <1>2, <2>2, <2>3 DEF OnUser, OnProv
  <2>5. QED
    BY <1>1, <1>2, <1>3, <1>4, <2>1, <2>2, <2>4, UpdateMoves
    DEF At, HandPCs, Remembers
<1>5. CASE ~Exists(tr[t])
  <2>1. Return(w) /\ UNCHANGED storeVars
    BY <1>2, <1>5 DEF UnassignFailed, Requeue
  <2>2. Undisturbed
    BY <1>1, <2>1, Calmly DEF storeVars, cloudVars
  <2>3. QED
    BY <1>1, <2>1, <2>2, ReturnMoves DEF At, HandPCs
<1>6. QED
  BY <1>4, <1>5

\* The finalizer is stored before an error secret: the TaskRun is the one that
\* was read, so nothing else changes but the waiting label.
LEMMA ErrorFinalizerMoves ==
    ASSUME AccountInv, DynInv', NEW w \in Workers, AddErrorFinalizer(w)
    PROVE  AccountInv'
<1>1. At(w, "fail") /\ UNCHANGED <<cache, secret, prov, cloud, owner, lost>>
  BY DEF AddErrorFinalizer, cloudVars, faultVars
<1>2. Working(w)
  BY <1>1 DEF Working, At
<1>3. PICK t \in Tasks : OnUser(w, t) \/ OnProv(w, t)
  BY <1>2, Reconciling DEF AccountInv, DynInv
<1>4. /\ t = TaskOf(w) /\ Obj(w) \in TaskRun /\ tr[t] \in TaskRun
      /\ \A s \in Tasks : OnUser(w, s) \/ OnProv(w, s) => s = t
  BY <1>2, <1>3, BusyWorker
  DEF OnUser, OnProv, TaskOf, AccountInv, DynInv, StoreOK, Working
<1>5. /\ Owned(t, Obj(w)) /\ Alike(Obj(w), worker[w].seen) /\ TaskOK(t)
      /\ OnProv(w, t) => prov[t] # "none"
      /\ tr[t].phase # "absent"
  BY <1>1, <1>3 DEF AccountInv, ReconcilesOK, UserOK, ProvOK, At, TasksOK, TaskOK
<1>6. CASE tr[t] = worker[w].seen
  <2>1. PICK n : n = [Obj(w) EXCEPT !.finalizer = TRUE]
    OBVIOUS
  <2>2. /\ n \in TaskRun /\ n.finalizer /\ n.instance = Obj(w).instance
        /\ Alike(n, tr[t])
    BY <1>4, <1>5, <1>6, <2>1 DEF TaskRun, Alike
  <2>3. Put(t, n, "events") /\ Goto(w, "errorSecret", Absent)
    BY <1>4, <1>6, <2>1 DEF AddErrorFinalizer
  <2>4. /\ tr'[t] = n
        /\ \A s \in Tasks \ {t} : tr'[s] = tr[s] /\ pending'[s] = pending[s]
        /\ pending[t] = "assignment" => pending'[t] = "assignment"
    BY <2>2, <2>3, PutStores DEF Settled, AccountInv, DynInv
  <2>5. /\ \A v \in Workers \ {w} : worker'[v] = worker[v]
        /\ worker'[w].pc = "errorSecret" /\ worker'[w].key = worker[w].key
        /\ Obj(w)' = Absent
    BY <1>2, <2>3, AfterGoto DEF AccountInv, DynInv, Obj
  <2>6. tr'[t].phase # "absent" /\ (Over(t)' <=> Over(t))
    BY <1>5, <2>2, <2>4 DEF Over, Done, Alike
  <2>7. ASSUME OnUser(w, t) PROVE UserOK(w, t)'
    BY <2>5, <2>6
    DEF UserOK, AllocationKnows, AllocatePCs, NewPCs, HandPCs, HavePCs,
        UserPCs, Owned, Absent
  <2>8. ASSUME OnProv(w, t) PROVE ProvOK(w, t)'
    BY <1>1, <1>5, <2>5, <2>8 DEF ProvOK, ProvPCs, Owned, Absent
  <2>9. \A s \in Tasks : /\ OnUser(w, s)' => UserOK(w, s)'
                         /\ OnProv(w, s)' => ProvOK(w, s)'
    BY <1>2, <1>4, <2>5, <2>7, <2>8 DEF OnUser, OnProv
  <2>10. Owned(t, tr'[t])
    BY <1>5, <2>2, <2>4 DEF Owned
  <2>11. prov[t] # "none" => tr'[t].assigned \/ tr'[t].failed \/ Over(t)'
    BY <1>5, <2>2, <2>4, <2>6 DEF TaskOK, Alike
  <2>12. \A i \in Mine(t) : Recorded(i) => tr'[t].instance = i
    BY <2>2, <2>4 DEF Recorded, Mine, Alike
  <2>13. QED
    BY <1>1, <1>3, <2>2, <2>4, <2>5, <2>6, <2>9, <2>10, <2>11, <2>12,
       StoresTask
    DEF At, HandPCs
<1>7. CASE tr[t] # worker[w].seen
  <2>1. Return(w) /\ UNCHANGED storeVars
    BY <1>4, <1>7 DEF AddErrorFinalizer, Requeue
  <2>2. Undisturbed
    BY <1>1, <2>1, Calmly DEF storeVars, cloudVars
  <2>3. QED
    BY <1>1, <2>1, <2>2, ReturnMoves DEF At, HandPCs
<1>8. QED
  BY <1>6, <1>7

(***************************************************************************)
(* The launch of an instance and of a provision TaskRun.                   *)
(***************************************************************************)

\* The provision TaskRun is created: from now on every copy that may be stored
\* remembers the instance.
LEMMA ProvisionMoves ==
    ASSUME AccountInv, DynInv', NEW w \in Workers, LaunchProvision(w)
    PROVE  AccountInv'
<1>1. /\ At(w, "provision") /\ Return(w)
      /\ UNCHANGED <<tr, pending, cache, secret, cloud, owner, lost>>
  BY DEF LaunchProvision, cloudVars, faultVars
<1>2. PICK t \in Tasks :
      /\ t = TaskOf(w) /\ Working(w) /\ Obj(w) \in TaskRun
      /\ OnUser(w, t) /\ UserOK(w, t) /\ TaskOK(t)
  BY <1>1, UserKnown DEF At, UserPCs, ProvPCs, AllocatePCs, HavePCs
<1>3. /\ tr[t].finalizer /\ tr[t].instance = Obj(w).instance
      /\ tr[t].assigned /\ prov[t] = "none" /\ tr[t].phase # "absent"
      /\ \/ pending[t] = "assignment"
         \/ cache[t].instance = Obj(w).instance /\ cache[t].finalizer
  BY <1>1, <1>2 DEF UserOK, AllocationKnows, At, AllocatePCs, HavePCs
<1>4. prov'[t] = "running" /\ \A s \in Tasks \ {t} : prov'[s] = prov[s]
  BY <1>2 DEF LaunchProvision, AccountInv, DynInv, JobsOK
<1>5. /\ \A v \in Workers \ {w} : worker'[v] = worker[v]
      /\ worker'[w].pc = "idle" /\ ~Working(w)'
  BY <1>1, AfterReturn DEF AccountInv, DynInv, Working
<1>6. KeysApart'
  BY <1>5, KeysKept DEF AccountInv
<1>7. \A i \in Mine(t) : Recorded(i) /\ Obj(w).instance = i
  <2> SUFFICES ASSUME NEW i \in Mine(t) PROVE Recorded(i)
    BY <1>3 DEF Recorded, Mine
  <2>1. CASE InHand(i)
    <3>1. PICK v \in Workers : /\ worker[v].key = <<t, "user">>
                               /\ worker[v].pc \in HandPCs
      BY <2>1 DEF InHand, Mine
    <3>2. v = w
      BY <1>2, <3>1 DEF AccountInv, KeysApart, OnUser, Working, HandPCs
    <3>3. QED
      BY <1>1, <3>1, <3>2 DEF At, HandPCs
  <2>2. QED
    BY <2>1 DEF AccountInv, Tied
<1>8. /\ Live' = Live
      /\ \A s \in Tasks : /\ Mine(s)' = Mine(s)
                          /\ Over(s)' <=> Over(s)
                          /\ HostUp(s)' <=> HostUp(s)
  BY <1>1 DEF Mine, Live, Over, HostUp
<1>9. \A s \in Tasks, c \in TaskRun :
          /\ Owned(s, c) => Owned(s, c)'
          /\ Finalized(s, c) => Finalized(s, c)'
          /\ Remembers(s, c) => Remembers(s, c)'
  BY <1>1, <1>8 DEF Owned, Finalized, Remembers
<1>10. \A s \in Tasks : tr[s] \in TaskRun /\ cache[s] \in TaskRun
  BY DEF AccountInv, DynInv, StoreOK
<1>11. TasksOK'
  <2> SUFFICES ASSUME NEW s \in Tasks PROVE TaskOK(s)'
    BY DEF TasksOK
  <2>1. TaskOK(s)
    BY DEF AccountInv, TasksOK
  <2>2. /\ Owned(s, tr[s])' /\ Owned(s, cache[s])'
        /\ Finalized(s, tr[s])' /\ Finalized(s, cache[s])'
        /\ Remembers(s, tr[s]) => Remembers(s, tr[s])'
        /\ Remembers(s, cache[s]) => Remembers(s, cache[s])'
    BY <1>1, <1>9, <1>10, <2>1 DEF TaskOK
  <2>3. CASE s = t
    <3>1. /\ Remembers(t, tr[t])
          /\ pending[t] # "assignment" => Remembers(t, cache[t])
      BY <1>3, <1>7 DEF Remembers
    <3>2. QED
      BY <1>1, <1>3, <1>4, <1>8, <2>1, <2>2, <2>3, <3>1 DEF TaskOK
  <2>4. CASE s # t
    <3>1. prov'[s] = prov[s]
      BY <1>4, <2>4
    <3>2. QED
      BY <1>1, <1>8, <2>1, <2>2, <3>1 DEF TaskOK
  <2>5. QED
    BY <2>3, <2>4
<1>12. ReconcilesOK'
  <2> SUFFICES ASSUME NEW v \in Workers, NEW s \in Tasks
               PROVE  /\ OnUser(v, s)' => UserOK(v, s)'
                      /\ OnProv(v, s)' => ProvOK(v, s)'
    BY DEF ReconcilesOK
  <2>1. CASE v = w
    BY <1>5, <2>1 DEF OnUser, OnProv
  <2>2. CASE v # w
    <3>1. worker'[v] = worker[v]
      BY <1>5, <2>2
    <3>2. ASSUME OnUser(v, s)' PROVE UserOK(v, s)'
      <4>1. OnUser(v, s) /\ UserOK(v, s) /\ Obj(v) \in TaskRun
        BY <3>1, <3>2, BusyWorker
        DEF OnUser, Working, AccountInv, ReconcilesOK, DynInv
      <4>2. s # t
        BY <1>2, <2>2, <4>1 DEF AccountInv, KeysApart, OnUser
      <4>3. Owned(s, Obj(v))' /\ Obj(v)' = Obj(v) /\ prov'[s] = prov[s]
        BY <1>4, <1>9, <3>1, <4>1, <4>2 DEF UserOK, Obj
      <4>4. AllocationKnows(v, s)'
        BY <1>1, <1>8, <3>1, <4>1, <4>3 DEF UserOK, AllocationKnows
      <4>5. QED
        BY <1>1, <1>8, <3>1, <4>1, <4>3, <4>4 DEF UserOK
    <3>3. ASSUME OnProv(v, s)' PROVE ProvOK(v, s)'
      <4>1. OnProv(v, s) /\ ProvOK(v, s) /\ Obj(v) \in TaskRun
        BY <3>1, <3>3, BusyWorker
        DEF OnProv, Working, AccountInv, ReconcilesOK, DynInv
      <4>2. /\ Owned(s, Obj(v))' /\ Obj(v)' = Obj(v) /\ prov'[s] # "none"
            /\ Finalized(s, Obj(v)) => Finalized(s, Obj(v))'
            /\ Remembers(s, Obj(v)) => Remembers(s, Obj(v))'
        BY <1>4, <1>9, <3>1, <4>1 DEF ProvOK, Obj
      <4>3. QED
        BY <3>1, <4>1, <4>2 DEF ProvOK
    <3>4. QED
      BY <3>2, <3>3
  <2>3. QED
    BY <2>1, <2>2
<1>13. LiveOK'
  BY <1>1 DEF LiveOK, AccountInv
<1>14. Tied'
  <2> SUFFICES ASSUME NEW s \in Tasks, NEW i \in Mine(s)
               PROVE  Recorded(i)' \/ InHand(i)'
    BY <1>8 DEF Tied
  <2>1. CASE Recorded(i)
    BY <1>1, <2>1 DEF Recorded
  <2>2. CASE InHand(i)
    <3>1. PICK v \in Workers : /\ worker[v].key = <<owner[i], "user">>
                               /\ worker[v].pc \in HandPCs
                               /\ worker[v].obj.instance = i
      BY <2>2 DEF InHand
    <3>2. v # w
      BY <1>1, <3>1 DEF At, HandPCs
    <3>3. QED
      BY <1>1, <1>5, <3>1, <3>2 DEF InHand
  <2>3. QED
    BY <2>1, <2>2 DEF AccountInv, Tied
<1>15. QED
  BY <1>6, <1>11, <1>12, <1>13, <1>14 DEF AccountInv

\* An instance is launched, and is in hand.
LEMMA LaunchMoves ==
    ASSUME AccountInv, DynInv', NEW w \in Workers, Launch(w)
    PROVE  AccountInv'
<1>1. /\ At(w, "launch")
      /\ UNCHANGED <<tr, pending, cache, secret, prov, lost>>
  BY DEF Launch, faultVars
<1>2. PICK t \in Tasks :
      /\ t = TaskOf(w) /\ Working(w) /\ Obj(w) \in TaskRun
      /\ OnUser(w, t) /\ UserOK(w, t)
      /\ \A s \in Tasks : ~OnProv(w, s) /\ (OnUser(w, s) => s = t)
  BY <1>1, UserKnown DEF At, UserPCs, ProvPCs, AllocatePCs, NewPCs
<1>3. tr[t].instance = None /\ prov[t] = "none" /\ tr[t].phase # "absent"
  BY <1>1, <1>2
  DEF UserOK, AllocationKnows, At, AllocatePCs, NewPCs, HandPCs, HavePCs
<1>4. PICK i \in Instances :
      /\ cloud[i] = "none"
      /\ cloud' = [cloud EXCEPT ![i] = "starting"]
      /\ owner' = [owner EXCEPT ![i] = t]
      /\ Goto(w, "record", [Obj(w) EXCEPT !.instance = i, !.finalizer = TRUE])
  BY <1>2 DEF Launch
<1>5. PICK o : o = [Obj(w) EXCEPT !.instance = i, !.finalizer = TRUE]
  OBVIOUS
<1>6. o.instance = i /\ o.finalizer
  BY <1>2, <1>5 DEF TaskRun
<1>7. /\ \A v \in Workers \ {w} : worker'[v] = worker[v]
      /\ worker'[w].pc = "record" /\ worker'[w].key = worker[w].key
      /\ worker'[w].obj = o
  BY <1>2, <1>4, <1>5, AfterGoto DEF AccountInv, DynInv
<1>8. KeysApart'
  BY <1>2, <1>7, KeysKept DEF AccountInv
<1>9. /\ cloud'[i] = "starting" /\ owner'[i] = t
      /\ \A j \in Instances \ {i} : cloud'[j] = cloud[j] /\ owner'[j] = owner[j]
  BY <1>4 DEF AccountInv, DynInv, CloudOK
<1>10. /\ Live' = Live \cup {i} /\ i \notin Live
       /\ \A s \in Tasks : /\ s # t => Mine(s)' = Mine(s)
                           /\ Mine(s)' \subseteq Mine(s) \cup {i}
  BY <1>1, <1>4, <1>9 DEF Live, Mine
<1>11. \A s \in Tasks : /\ Over(s)' <=> Over(s)
                        /\ HostUp(s) => HostUp(s)'
  BY <1>1, <1>4, <1>9 DEF Over, HostUp
<1>12. \A s \in Tasks, c \in TaskRun :
          /\ Owned(s, c) => Owned(s, c)' /\ c.instance # i
          /\ Finalized(s, c) => Finalized(s, c)'
          /\ s # t /\ Remembers(s, c) => Remembers(s, c)'
  <2> SUFFICES ASSUME NEW s \in Tasks, NEW c \in TaskRun
               PROVE  /\ Owned(s, c) => Owned(s, c)' /\ c.instance # i
                      /\ Finalized(s, c) => Finalized(s, c)'
                      /\ s # t /\ Remembers(s, c) => Remembers(s, c)'
    OBVIOUS
  <2>1. Owned(s, c) => Owned(s, c)' /\ c.instance # i
    BY <1>4, <1>9, DynamicAssumption DEF Owned, TaskRun
  <2>2. Finalized(s, c) => Finalized(s, c)'
    BY <1>11 DEF Finalized
  <2>3. s # t /\ Remembers(s, c) => Remembers(s, c)'
    BY <1>10 DEF Remembers
  <2>4. QED
    BY <2>1, <2>2, <2>3
<1>13. \A s \in Tasks : tr[s] \in TaskRun /\ cache[s] \in TaskRun
  BY DEF AccountInv, DynInv, StoreOK
<1>14. TasksOK'
  <2> SUFFICES ASSUME NEW s \in Tasks PROVE TaskOK(s)'
    BY DEF TasksOK
  <2>1. TaskOK(s)
    BY DEF AccountInv, TasksOK
  <2>2. /\ Owned(s, tr[s])' /\ Owned(s, cache[s])'
        /\ Finalized(s, tr[s])' /\ Finalized(s, cache[s])'
        /\ s # t /\ Remembers(s, tr[s]) => Remembers(s, tr[s])'
        /\ s # t /\ Remembers(s, cache[s]) => Remembers(s, cache[s])'
    BY <1>1, <1>12, <1>13, <2>1 DEF TaskOK
  <2>3. QED
    BY <1>1, <1>3, <1>11, <2>1, <2>2 DEF TaskOK
<1>15. UserOK(w, t)'
  BY <1>1, <1>3, <1>6, <1>7, <1>9, DynamicAssumption
  DEF UserOK, AllocationKnows, AllocatePCs, NewPCs, HandPCs, HavePCs, UserPCs,
      Owned, Obj
<1>16. ReconcilesOK'
  <2> SUFFICES ASSUME NEW v \in Workers, NEW s \in Tasks
               PROVE  /\ OnUser(v, s)' => UserOK(v, s)'
                      /\ OnProv(v, s)' => ProvOK(v, s)'
    BY DEF ReconcilesOK
  <2>1. CASE v = w
    BY <1>2, <1>7, <1>15, <2>1 DEF OnUser, OnProv
  <2>2. CASE v # w
    <3>1. worker'[v] = worker[v]
      BY <1>7, <2>2
    <3>2. ASSUME OnUser(v, s)' PROVE UserOK(v, s)'
      <4>1. OnUser(v, s) /\ UserOK(v, s) /\ Obj(v) \in TaskRun
        BY <3>1, <3>2, BusyWorker
        DEF OnUser, Working, AccountInv, ReconcilesOK, DynInv
      <4>2. s # t
        BY <1>2, <2>2, <4>1 DEF AccountInv, KeysApart, OnUser
      <4>3. Owned(s, Obj(v))' /\ Obj(v)' = Obj(v)
        BY <1>12, <3>1, <4>1 DEF UserOK, Obj
      <4>4. tr[s].instance # i
        BY <1>12, <1>13 DEF AccountInv, TasksOK, TaskOK
      <4>5. AllocationKnows(v, s)'
        BY <1>1, <1>10, <3>1, <4>1, <4>3, <4>4 DEF UserOK, AllocationKnows
      <4>6. QED
        BY <1>1, <1>10, <1>11, <3>1, <4>1, <4>2, <4>3, <4>5 DEF UserOK
    <3>3. ASSUME OnProv(v, s)' PROVE ProvOK(v, s)'
      <4>1. OnProv(v, s) /\ ProvOK(v, s) /\ Obj(v) \in TaskRun
        BY <3>1, <3>3, BusyWorker
        DEF OnProv, Working, AccountInv, ReconcilesOK, DynInv
      <4>2. s # t
        BY <1>3, <4>1 DEF ProvOK
      <4>3. /\ Owned(s, Obj(v))' /\ Obj(v)' = Obj(v)
            /\ Finalized(s, Obj(v)) => Finalized(s, Obj(v))'
            /\ Remembers(s, Obj(v)) => Remembers(s, Obj(v))'
        BY <1>12, <3>1, <4>1, <4>2 DEF ProvOK, Obj
      <4>4. QED
        BY <1>1, <3>1, <4>1, <4>3 DEF ProvOK
    <3>4. QED
      BY <3>2, <3>3
  <2>3. QED
    BY <2>1, <2>2
<1>17. LiveOK'
  BY <1>9 DEF LiveOK, AccountInv
<1>18. Tied'
  <2> SUFFICES ASSUME NEW s \in Tasks, NEW j \in Mine(s)'
               PROVE  Recorded(j)' \/ InHand(j)'
    BY DEF Tied
  <2>1. CASE j = i
    BY <1>2, <1>6, <1>7, <1>9, <2>1 DEF InHand, OnUser, HandPCs
  <2>2. CASE j # i
    <3>1. j \in Mine(s) /\ j \in Instances /\ owner'[j] = owner[j]
      BY <1>9, <1>10, <2>2 DEF Mine, Live
    <3>2. CASE Recorded(j)
      BY <1>1, <3>1, <3>2 DEF Recorded
    <3>3. CASE InHand(j)
      <4>1. PICK v \in Workers : /\ worker[v].key = <<owner[j], "user">>
                                 /\ worker[v].pc \in HandPCs
                                 /\ worker[v].obj.instance = j
        BY <3>3 DEF InHand
      <4>2. v # w
        BY <1>1, <4>1 DEF At, HandPCs
      <4>3. QED
        BY <1>7, <3>1, <4>1, <4>2 DEF InHand
    <3>4. QED
      BY <3>1, <3>2, <3>3 DEF AccountInv, Tied
  <2>3. QED
    BY <2>1, <2>2
<1>19. QED
  BY <1>8, <1>14, <1>16, <1>17, <1>18 DEF AccountInv

(***************************************************************************)
(* Reconciles start.                                                       *)
(***************************************************************************)

\* A worker takes a key that nobody has.
LEMMA BeginMoves ==
    ASSUME AccountInv, DynInv', NEW w \in Workers, NEW key,
           Available(w, key), NEW r, worker' = [worker EXCEPT ![w] = r],
           r.key = key, Undisturbed,
           \A s \in Tasks : /\ key = <<s, "user">> => UserOK(w, s)'
                            /\ key = <<s, "prov">> => ProvOK(w, s)'
    PROVE  AccountInv'
<1>1. /\ \A v \in Workers \ {w} : worker'[v] = worker[v]
      /\ worker'[w] = r
  BY DEF AccountInv, DynInv, WorkersOK
<1>2. KeysApart'
  BY <1>1, KeysKept DEF AccountInv, Available
<1>3. \A s \in Tasks : /\ OnUser(w, s)' => UserOK(w, s)'
                       /\ OnProv(w, s)' => ProvOK(w, s)'
  BY <1>1 DEF OnUser, OnProv
<1>4. worker[w].pc \notin HandPCs
  BY DEF Available, HandPCs
<1>5. QED
  <2> DEFINE W == {w}
  <2>1. W \in SUBSET Workers /\ Workers \ W = Workers \ {w}
    OBVIOUS
  <2>2. \A v \in W : v = w
    OBVIOUS
  <2> HIDE DEF W
  <2>3. QED
    BY <1>1, <1>2, <1>3, <1>4, <2>1, <2>2, Moves

\* Nobody moves.
LEMMA NobodyMoves ==
    ASSUME AccountInv, DynInv', UNCHANGED worker, Undisturbed
    PROVE  AccountInv'
<1>1. KeysApart'
  BY DEF AccountInv, KeysApart, Working
<1>2. {} \in SUBSET Workers /\ \A v \in Workers \ {} : worker'[v] = worker[v]
  OBVIOUS
<1>3. QED
  BY <1>1, <1>2, Moves

\* The reconcile of a user TaskRun: at most one instance of the TaskRun is to
\* be accounted for, the recorded one.
LEMMA ReadInstance ==
    ASSUME AccountInv, NEW w \in Workers, NEW t \in Tasks,
           Available(w, <<t, "user">>)
    PROVE  Remembers(t, tr[t])
<1> SUFFICES ASSUME NEW i \in Mine(t)
             PROVE  tr[t].instance = i /\ tr[t].finalizer
  BY DEF Remembers
<1>1. ~InHand(i)
  BY DEF InHand, Available, Mine
<1>2. QED
  BY <1>1 DEF AccountInv, Tied, Recorded, Mine

\* The error of a user TaskRun's reconcile that has just begun.
LEMMA ErrorBegins ==
    ASSUME AccountInv, DynInv', NEW w \in Workers, NEW t \in Tasks,
           Available(w, <<t, "user">>), Exists(tr[t]), Undisturbed,
           Begin(w, FailPC(tr[t]), <<t, "user">>, tr[t], tr[t])
    PROVE  AccountInv'
<1>1. PICK r : r = [pc |-> FailPC(tr[t]), key |-> <<t, "user">>,
                    obj |-> tr[t], seen |-> tr[t], after |-> "error"]
  OBVIOUS
<1>2. /\ worker' = [worker EXCEPT ![w] = r] /\ r.key = <<t, "user">>
      /\ r.obj = tr[t] /\ r.seen = tr[t] /\ r.pc \in {"fail", "errorSecret"}
  BY <1>1 DEF Begin, FailPC
<1>3. worker'[w] = r
  BY <1>2 DEF AccountInv, DynInv, WorkersOK
<1>4. Owned(t, tr[t])'
  BY Undisturbing DEF AccountInv, TasksOK, TaskOK, DynInv, StoreOK, Undisturbed
<1>5. UserOK(w, t)'
  BY <1>2, <1>3, <1>4
  DEF UserOK, AllocationKnows, AllocatePCs, NewPCs, HandPCs, HavePCs, UserPCs,
      Obj, Undisturbed, Exists, Alike
<1>6. \A s \in Tasks : <<t, "user">> # <<s, "prov">>
                       /\ (<<t, "user">> = <<s, "user">> => s = t)
  OBVIOUS
<1>7. QED
  BY <1>2, <1>5, <1>6, BeginMoves

\* Allocate begins: at pc, with a copy of the TaskRun that has its instance and
\* its finalizer.
LEMMA AllocateBegins ==
    ASSUME AccountInv, DynInv', NEW w \in Workers, NEW t \in Tasks,
           Available(w, <<t, "user">>), ~Ignored(tr[t]), ~Done(tr[t]),
           ~tr[t].failed, Undisturbed, pending' = pending,
           NEW r \in Worker, worker' = [worker EXCEPT ![w] = r],
           r.key = <<t, "user">>,
           r.obj.instance = tr[t].instance, r.obj.finalizer = tr[t].finalizer,
           \/ r.pc \in {"launch", "wait"} /\ tr[t].instance = None
           \/ r.pc \in {"assign", "terminate"} /\ tr[t].instance # None,
           r.pc = "launch" => Alike(r.obj, r.seen),
           r.pc = "assign" => r.obj.assigned
    PROVE  AccountInv'
<1>1. /\ ~tr[t].assigned /\ ~Over(t) /\ tr[t].phase # "absent"
  BY DEF Ignored, Over, Exists
<1>2. /\ prov[t] = "none" /\ Owned(t, tr[t])
      /\ tr[t].instance # None => tr[t].finalizer
  BY <1>1 DEF AccountInv, TasksOK, TaskOK, Finalized
<1>3. worker'[w] = r
  BY DEF AccountInv, DynInv, WorkersOK
<1>4. Owned(t, Obj(w))'
  <2>1. Owned(t, r.obj) /\ r.obj \in TaskRun
    BY <1>2 DEF Owned, Worker
  <2>2. QED
    BY <1>3, <2>1, Undisturbing DEF Obj
<1>5. AllocationKnows(w, t)'
  BY <1>1, <1>2, <1>3
  DEF AllocationKnows, AllocatePCs, NewPCs, HandPCs, HavePCs, Obj, Undisturbed
<1>6. UserOK(w, t)'
  BY <1>1, <1>3, <1>4, <1>5
  DEF UserOK, UserPCs, AllocatePCs, NewPCs, HavePCs, Obj, Undisturbed
<1>7. \A s \in Tasks : <<t, "user">> # <<s, "prov">>
                       /\ (<<t, "user">> = <<s, "user">> => s = t)
  OBVIOUS
<1>8. QED
  BY <1>6, <1>7, BeginMoves

\* Deallocate begins.
LEMMA DeallocateBegins ==
    ASSUME AccountInv, DynInv', NEW w \in Workers, NEW t \in Tasks,
           Available(w, <<t, "user">>), Done(tr[t]), Exists(tr[t]), Undisturbed,
           Begin(w, "deallocate", <<t, "user">>, Absent, tr[t])
    PROVE  AccountInv'
<1>1. PICK r : r = [pc |-> "deallocate", key |-> <<t, "user">>, obj |-> tr[t],
                    seen |-> Absent, after |-> "error"]
  OBVIOUS
<1>2. /\ worker' = [worker EXCEPT ![w] = r] /\ r.key = <<t, "user">>
      /\ r.obj = tr[t] /\ r.pc = "deallocate"
  BY <1>1 DEF Begin
<1>3. worker'[w] = r
  BY <1>2 DEF AccountInv, DynInv, WorkersOK
<1>4. /\ Owned(t, tr[t])' /\ Mine(t)' \subseteq Mine(t) /\ Over(t)'
      /\ Remembers(t, tr[t])
  BY Undisturbing, ReadInstance
  DEF AccountInv, TasksOK, TaskOK, DynInv, StoreOK, Undisturbed, Over
<1>5. UserOK(w, t)'
  BY <1>2, <1>3, <1>4
  DEF UserOK, AllocationKnows, AllocatePCs, NewPCs, HandPCs, HavePCs, UserPCs,
      Obj, Undisturbed, Exists, Remembers
<1>6. \A s \in Tasks : <<t, "user">> # <<s, "prov">>
                       /\ (<<t, "user">> = <<s, "user">> => s = t)
  OBVIOUS
<1>7. QED
  BY <1>2, <1>5, <1>6, BeginMoves

\* Allocate for a TaskRun that has an instance, or is to get one.
LEMMA AllocateMoves ==
    ASSUME AccountInv, DynInv', NEW w \in Workers, NEW t \in Tasks,
           Available(w, <<t, "user">>), ~Ignored(tr[t]), ~Done(tr[t]),
           Allocates(w, t, tr[t]), Undisturbed, pending' = pending
    PROVE  AccountInv'
<1>1. tr[t] \in TaskRun /\ Absent \in TaskRun /\ Exists(tr[t])
  BY Constants DEF AccountInv, DynInv, StoreOK, Ignored
<1>2. CASE UNCHANGED worker
  BY <1>2, NobodyMoves
<1>3. CASE Begin(w, FailPC(tr[t]), <<t, "user">>, tr[t], tr[t])
  BY <1>1, <1>3, ErrorBegins
<1>4. ASSUME NEW pc \in {"launch", "wait", "assign", "terminate"},
             NEW s \in TaskRun, NEW o \in TaskRun,
             NEW after \in {"error", "retry"},
             worker' = [worker EXCEPT ![w] =
                 [pc |-> pc, key |-> <<t, "user">>, obj |-> o, seen |-> s,
                  after |-> after]],
             ~tr[t].failed,
             o.instance = tr[t].instance, o.finalizer = tr[t].finalizer,
             \/ pc \in {"launch", "wait"} /\ tr[t].instance = None
             \/ pc \in {"assign", "terminate"} /\ tr[t].instance # None,
             pc = "launch" => Alike(o, s), pc = "assign" => o.assigned
      PROVE  AccountInv'
  <2>1. PICK r : r = [pc |-> pc, key |-> <<t, "user">>, obj |-> o, seen |-> s,
                      after |-> after]
    OBVIOUS
  <2>2. /\ r \in Worker /\ r.key = <<t, "user">> /\ r.obj = o /\ r.seen = s
        /\ r.pc = pc /\ worker' = [worker EXCEPT ![w] = r]
    BY <1>4, <2>1 DEF Worker, PCs, Key
  <2>3. /\ \/ r.pc \in {"launch", "wait"} /\ tr[t].instance = None
           \/ r.pc \in {"assign", "terminate"} /\ tr[t].instance # None
        /\ r.pc = "launch" => Alike(r.obj, r.seen)
        /\ r.pc = "assign" => r.obj.assigned
        /\ r.obj.instance = tr[t].instance
        /\ r.obj.finalizer = tr[t].finalizer
        /\ ~tr[t].failed
    BY <1>4, <2>2
  <2>4. QED
    BY <2>2, <2>3, AllocateBegins
<1>5. CASE WantsInstance(w, t, tr[t]) /\ ~tr[t].failed /\ tr[t].instance = None
  <2>1. PICK o : o = [tr[t] EXCEPT !.waiting = FALSE]
    OBVIOUS
  <2>2. PICK p : p = [tr[t] EXCEPT !.waiting = TRUE]
    OBVIOUS
  <2>3. /\ o \in TaskRun /\ o.instance = tr[t].instance
        /\ o.finalizer = tr[t].finalizer /\ Alike(o, tr[t])
    BY <1>1, <2>1 DEF TaskRun, Alike
  <2>4. /\ p \in TaskRun /\ p.instance = tr[t].instance
        /\ p.finalizer = tr[t].finalizer
    BY <1>1, <2>2 DEF TaskRun
  <2>5. CASE Begin(w, "launch", <<t, "user">>, tr[t], o)
    BY <1>1, <1>4, <1>5, <2>3, <2>5 DEF Begin
  <2>6. CASE Begin(w, "wait", <<t, "user">>, Absent, p)
    BY <1>1, <1>4, <1>5, <2>4, <2>6 DEF Begin
  <2>7. QED
    BY <1>2, <1>5, <2>1, <2>2, <2>5, <2>6 DEF WantsInstance
<1>6. CASE AwaitsAddress(w, t, tr[t]) /\ ~tr[t].failed /\ tr[t].instance # None
  <2>1. PICK o : o = [tr[t] EXCEPT !.assigned = TRUE]
    OBVIOUS
  <2>2. /\ o \in TaskRun /\ o.instance = tr[t].instance
        /\ o.finalizer = tr[t].finalizer /\ o.assigned
    BY <1>1, <2>1 DEF TaskRun
  <2>3. CASE Begin(w, "assign", <<t, "user">>, Absent, o)
    BY <1>1, <1>4, <1>6, <2>2, <2>3 DEF Begin
  <2>4. ASSUME NEW after \in {"error", "retry"},
               worker' = [worker EXCEPT ![w] =
                  [pc |-> "terminate", key |-> <<t, "user">>, obj |-> tr[t],
                   seen |-> Absent, after |-> after]]
        PROVE  AccountInv'
    BY <1>1, <1>4, <1>6, <2>4
  <2>5. QED
    BY <1>2, <1>6, <2>1, <2>3, <2>4 DEF AwaitsAddress, Begin
<1>7. QED
  BY <1>2, <1>3, <1>5, <1>6 DEF Allocates

\* The reconcile of a user TaskRun starts.
LEMMA ReconcileUserMoves ==
    ASSUME AccountInv, DynInv', NEW w \in Workers, NEW t \in Tasks,
           ReconcileUser(w, t) \/ UserReadFails(w, t)
    PROVE  AccountInv'
<1>1. /\ Available(w, <<t, "user">>)
      /\ UNCHANGED <<tr, pending, cache, secret, prov, cloudVars, lost>>
  BY DEF ReconcileUser, UserReadFails, faultVars
<1>2. Undisturbed
  BY <1>1, Calmly
<1>3. CASE ReconcileUser(w, t)
  <2>1. CASE UNCHANGED worker
    BY <1>2, <2>1, NobodyMoves
  <2>2. CASE /\ ~Ignored(tr[t]) /\ Done(tr[t])
             /\ Begin(w, "deallocate", <<t, "user">>, Absent, tr[t])
    BY <1>1, <1>2, <2>2, DeallocateBegins DEF Ignored
  <2>3. CASE ~Ignored(tr[t]) /\ ~Done(tr[t]) /\ Allocates(w, t, tr[t])
    BY <1>1, <1>2, <2>3, AllocateMoves
  <2>4. QED
    BY <1>3, <2>1, <2>2, <2>3 DEF ReconcileUser
<1>4. CASE UserReadFails(w, t)
  <2>1. CASE UNCHANGED worker
    BY <1>2, <2>1, NobodyMoves
  <2>2. CASE ~Ignored(tr[t]) /\ Begin(w, FailPC(tr[t]), <<t, "user">>, tr[t], tr[t])
    BY <1>1, <1>2, <2>2, ErrorBegins DEF Ignored
  <2>3. CASE /\ ~Ignored(tr[t]) /\ ~Done(tr[t]) /\ ~tr[t].failed
             /\ tr[t].instance # None
             /\ Begin(w, "terminate", <<t, "user">>, Absent, tr[t])
    <3>1. PICK r : r = [pc |-> "terminate", key |-> <<t, "user">>,
                        obj |-> tr[t], seen |-> Absent, after |-> "error"]
      OBVIOUS
    <3>2. tr[t] \in TaskRun /\ Absent \in TaskRun
      BY Constants DEF AccountInv, DynInv, StoreOK
    <3>3. /\ r \in Worker /\ r.key = <<t, "user">> /\ r.obj = tr[t]
          /\ r.pc = "terminate" /\ worker' = [worker EXCEPT ![w] = r]
      BY <2>3, <3>1, <3>2 DEF Worker, PCs, Key, Begin
    <3>4. QED
      BY <1>1, <1>2, <2>3, <3>3, AllocateBegins
  <2>4. QED
    BY <1>4, <2>1, <2>2, <2>3 DEF UserReadFails
<1>5. QED
  BY <1>3, <1>4

\* The reconcile of a provision TaskRun starts: the assignment has been
\* delivered, so the cached copy remembers the instance.
LEMMA ReconcileProvisionMoves ==
    ASSUME AccountInv, DynInv', NEW w \in Workers, NEW t \in Tasks,
           ReconcileProvision(w, t)
    PROVE  AccountInv'
<1>1. /\ Available(w, <<t, "prov">>) /\ prov[t] # "none"
      /\ pending[t] # "assignment"
      /\ UNCHANGED <<tr, pending, cache, secret, prov, cloudVars, lost>>
  BY DEF ReconcileProvision, faultVars
<1>2. Undisturbed
  BY <1>1, Calmly
<1>3. /\ cache[t] \in TaskRun /\ Owned(t, cache[t]) /\ Finalized(t, cache[t])
      /\ Remembers(t, cache[t])
  BY <1>1 DEF AccountInv, TasksOK, TaskOK, DynInv, StoreOK
<1>4. \A s \in Tasks : <<t, "prov">> # <<s, "user">>
                       /\ (<<t, "prov">> = <<s, "prov">> => s = t)
  OBVIOUS
<1>5. ASSUME NEW pc \in ProvPCs, NEW s, NEW o \in TaskRun,
             Begin(w, pc, <<t, "prov">>, s, o), Owned(t, o),
             pc = "unassignFailed" =>
                o.failed /\ Finalized(t, o) /\ Remembers(t, o),
             pc = "fail" => Alike(o, s)
      PROVE  AccountInv'
  <2>1. PICK r : r = [pc |-> pc, key |-> <<t, "prov">>, obj |-> o, seen |-> s,
                      after |-> "error"]
    OBVIOUS
  <2>2. /\ worker' = [worker EXCEPT ![w] = r] /\ r.key = <<t, "prov">>
        /\ r.pc = pc /\ r.obj = o /\ r.seen = s
    BY <1>5, <2>1 DEF Begin
  <2>3. worker'[w] = r
    BY <2>2 DEF AccountInv, DynInv, WorkersOK
  <2>4. /\ Owned(t, o)' /\ (Finalized(t, o) => Finalized(t, o)')
        /\ (Remembers(t, o) => Remembers(t, o)')
    BY <1>2, <1>5, Undisturbing
  <2>5. ProvOK(w, t)'
    BY <1>1, <1>5, <2>2, <2>3, <2>4 DEF ProvOK, Obj
  <2>6. QED
    BY <1>1, <1>2, <1>4, <2>2, <2>5, BeginMoves, ZenonT(40)
<1>6. CASE Begin(w, "unassignFailed", <<t, "prov">>, Absent,
                 [cache[t] EXCEPT !.failed = TRUE, !.assigned = FALSE])
  <2>1. PICK o : o = [cache[t] EXCEPT !.failed = TRUE, !.assigned = FALSE]
    OBVIOUS
  <2>2. /\ o \in TaskRun /\ o.failed /\ o.instance = cache[t].instance
        /\ o.finalizer = cache[t].finalizer
    BY <1>3, <2>1 DEF TaskRun
  <2>3. Owned(t, o) /\ Finalized(t, o) /\ Remembers(t, o)
    BY <1>3, <2>2 DEF Owned, Finalized, Remembers
  <2>4. QED
    BY <1>5, <1>6, <2>1, <2>2, <2>3 DEF ProvPCs
<1>7. CASE Begin(w, FailPC(cache[t]), <<t, "prov">>, cache[t], cache[t])
  BY <1>3, <1>5, <1>7 DEF FailPC, ProvPCs, Alike
<1>8. CASE Begin(w, "mark", <<t, "prov">>, Absent, Absent)
  <2>1. Owned(t, Absent)
    BY DEF Owned, Absent
  <2>2. QED
    BY <1>5, <1>8, <2>1, Constants DEF ProvPCs
<1>9. QED
  BY <1>6, <1>7, <1>8 DEF ReconcileProvision

(***************************************************************************)
(* The cache, users, Tekton and the cloud; restarts.                       *)
(***************************************************************************)

\* The cache catches up with a TaskRun: it shows the recorded instance.
LEMMA DeliverMoves ==
    ASSUME AccountInv, DynInv', NEW t \in Tasks, Deliver(t)
    PROVE  AccountInv'
<1>1. UNCHANGED <<tr, secret, prov, cloud, owner, worker, lost>>
  BY DEF Deliver, cloudVars, faultVars
<1>2. /\ pending'[t] = "none" /\ cache'[t] = tr[t]
      /\ \A s \in Tasks \ {t} : /\ pending'[s] = pending[s]
                                /\ cache'[s] = cache[s]
  BY DEF Deliver, AccountInv, DynInv, StoreOK
<1>3. /\ Live' = Live
      /\ \A s \in Tasks : /\ Mine(s)' = Mine(s)
                          /\ Over(s)' <=> Over(s)
                          /\ HostUp(s)' <=> HostUp(s)
  BY <1>1 DEF Mine, Live, Over, HostUp
<1>4. \A s \in Tasks, c \in TaskRun :
          /\ Owned(s, c) => Owned(s, c)'
          /\ Finalized(s, c) => Finalized(s, c)'
          /\ Remembers(s, c) => Remembers(s, c)'
  BY <1>1, <1>3 DEF Owned, Finalized, Remembers
<1>5. \A s \in Tasks : tr[s] \in TaskRun /\ cache[s] \in TaskRun
  BY DEF AccountInv, DynInv, StoreOK
<1>6. TasksOK'
  <2> SUFFICES ASSUME NEW s \in Tasks PROVE TaskOK(s)'
    BY DEF TasksOK
  <2>1. TaskOK(s)
    BY DEF AccountInv, TasksOK
  <2>2. /\ Owned(s, tr[s])' /\ Finalized(s, tr[s])'
        /\ Remembers(s, tr[s]) => Remembers(s, tr[s])'
    BY <1>1, <1>4, <1>5, <2>1 DEF TaskOK
  <2>3. CASE s = t
    BY <1>1, <1>2, <1>3, <2>1, <2>2, <2>3
    DEF TaskOK, Owned, Finalized, Remembers
  <2>4. CASE s # t
    <3>1. pending'[s] = pending[s] /\ cache'[s] = cache[s]
      BY <1>2, <2>4
    <3>2. /\ Owned(s, cache[s])' /\ Finalized(s, cache[s])'
          /\ Remembers(s, cache[s]) => Remembers(s, cache[s])'
      BY <1>4, <1>5, <2>1, <3>1 DEF TaskOK
    <3>3. QED
      BY <1>1, <1>3, <2>1, <2>2, <3>1, <3>2 DEF TaskOK
  <2>5. QED
    BY <2>3, <2>4
<1>7. ReconcilesOK'
  <2> SUFFICES ASSUME NEW v \in Workers, NEW s \in Tasks
               PROVE  /\ OnUser(v, s)' => UserOK(v, s)'
                      /\ OnProv(v, s)' => ProvOK(v, s)'
    BY DEF ReconcilesOK
  <2>1. worker'[v] = worker[v]
    BY <1>1
  <2>2. ASSUME OnUser(v, s)' PROVE UserOK(v, s)'
    <3>1. OnUser(v, s) /\ UserOK(v, s) /\ Obj(v) \in TaskRun
      BY <2>1, <2>2, BusyWorker
      DEF OnUser, Working, AccountInv, ReconcilesOK, DynInv
    <3>2. Owned(s, Obj(v))' /\ Obj(v)' = Obj(v)
      BY <1>4, <2>1, <3>1 DEF UserOK, Obj
    <3>3. CASE s = t
      <4>1. AllocationKnows(v, s)'
        BY <1>1, <1>2, <1>3, <2>1, <3>1, <3>2, <3>3
        DEF UserOK, AllocationKnows, HavePCs
      <4>2. QED
        BY <1>1, <1>3, <2>1, <3>1, <3>2, <4>1 DEF UserOK
    <3>4. CASE s # t
      <4>1. AllocationKnows(v, s)'
        BY <1>1, <1>2, <1>3, <2>1, <3>1, <3>2, <3>4 DEF UserOK, AllocationKnows
      <4>2. QED
        BY <1>1, <1>3, <2>1, <3>1, <3>2, <4>1 DEF UserOK
    <3>5. QED
      BY <3>3, <3>4
  <2>3. ASSUME OnProv(v, s)' PROVE ProvOK(v, s)'
    <3>1. OnProv(v, s) /\ ProvOK(v, s) /\ Obj(v) \in TaskRun
      BY <2>1, <2>3, BusyWorker
      DEF OnProv, Working, AccountInv, ReconcilesOK, DynInv
    <3>2. /\ Owned(s, Obj(v))' /\ Obj(v)' = Obj(v)
          /\ Finalized(s, Obj(v)) => Finalized(s, Obj(v))'
          /\ Remembers(s, Obj(v)) => Remembers(s, Obj(v))'
      BY <1>4, <2>1, <3>1 DEF ProvOK, Obj
    <3>3. QED
      BY <1>1, <2>1, <3>1, <3>2 DEF ProvOK
  <2>4. QED
    BY <2>2, <2>3
<1>8. LiveOK' /\ KeysApart'
  BY <1>1 DEF LiveOK, AccountInv, KeysApart, Working
<1>9. Tied'
  <2> SUFFICES ASSUME NEW s \in Tasks, NEW i \in Mine(s)
               PROVE  Recorded(i)' \/ InHand(i)'
    BY <1>3 DEF Tied
  <2>1. QED
    BY <1>1 DEF AccountInv, Tied, Recorded, InHand
<1>10. QED
  BY <1>6, <1>7, <1>8, <1>9 DEF AccountInv

\* A restart: what was in hand is lost, and the cache is the store.
LEMMA RestartMoves ==
    ASSUME AccountInv, DynInv', Restart
    PROVE  AccountInv'
<1>1. /\ UNCHANGED <<tr, secret, prov, cloud, owner>>
      /\ worker' = [w \in Workers |-> Idle]
      /\ pending' = [t \in Tasks |-> "none"] /\ cache' = tr
      /\ lost' = lost \cup {i \in Live : ~Recorded(i)}
  BY DEF Restart, cloudVars
<1>2. \A w \in Workers : worker'[w].pc = "idle"
  BY <1>1 DEF Idle
<1>3. \A t \in Tasks : Over(t)' <=> Over(t)
  BY <1>1 DEF Over
<1>4. /\ Live' = Live /\ lost \subseteq lost'
      /\ \A t \in Tasks : HostUp(t)' <=> HostUp(t)
  BY <1>1 DEF Live, HostUp
<1>5. \A t \in Tasks :
         /\ Mine(t)' \subseteq Mine(t)
         /\ \A c \in TaskRun : /\ Owned(t, c) => Owned(t, c)'
                               /\ Finalized(t, c) => Finalized(t, c)'
                               /\ Remembers(t, c) => Remembers(t, c)'
  BY <1>1, <1>3, <1>4, CopiesKept
<1>6. TasksOK'
  <2> SUFFICES ASSUME NEW t \in Tasks PROVE TaskOK(t)'
    BY DEF TasksOK
  <2>1. TaskOK(t) /\ tr[t] \in TaskRun /\ cache'[t] = tr[t]
    BY <1>1 DEF AccountInv, TasksOK, DynInv, StoreOK
  <2>2. /\ Owned(t, tr[t])' /\ Finalized(t, tr[t])'
        /\ Remembers(t, tr[t]) => Remembers(t, tr[t])'
    BY <1>1, <1>5, <2>1 DEF TaskOK
  <2>3. /\ Owned(t, cache[t])' /\ Finalized(t, cache[t])'
        /\ Remembers(t, tr[t]) => Remembers(t, cache[t])'
    BY <1>1, <2>1, <2>2 DEF Owned, Finalized, Remembers
  <2>4. QED
    BY <1>1, <1>3, <1>4, <2>1, <2>2, <2>3 DEF TaskOK
<1>7. ReconcilesOK' /\ KeysApart'
  BY <1>2 DEF ReconcilesOK, KeysApart, OnUser, OnProv, Working
<1>8. LiveOK'
  BY <1>1 DEF LiveOK, AccountInv
<1>9. Tied'
  <2> SUFFICES ASSUME NEW t \in Tasks, NEW i \in Mine(t)'
               PROVE  Recorded(i)'
    BY DEF Tied
  <2>1. i \in Live /\ i \notin lost'
    BY <1>4 DEF Mine
  <2>2. Recorded(i)
    BY <1>1, <2>1
  <2>3. QED
    BY <1>1, <2>2 DEF Recorded
<1>10. QED
  BY <1>6, <1>7, <1>8, <1>9 DEF AccountInv

\* A user TaskRun is created, ends or is deleted, under whatever reconciles.
LEMMA UserMoves ==
    ASSUME AccountInv, DynInv', NEW t \in Tasks, User(t)
    PROVE  AccountInv'
<1>1. UNCHANGED <<cache, secret, prov, cloud, owner, worker, lost>>
  BY DEF User, CreateTask, TaskCompletes, TaskCancelled, DeleteTask, Stores,
         cloudVars, faultVars
<1>2. tr[t] \in TaskRun /\ TaskOK(t) /\ StoreOK
  BY DEF AccountInv, TasksOK, DynInv, StoreOK
<1>3. KeysApart'
  BY <1>1 DEF AccountInv, KeysApart, Working
<1>4. {} \in SUBSET Workers /\ \A v \in Workers \ {} : worker'[v] = worker[v]
  BY <1>1
<1>5. \A v \in Workers : OnUser(v, t) => UserOK(v, t)
  BY DEF AccountInv, ReconcilesOK
<1>6. CASE CreateTask(t)
  <2>1. PICK n : n = [Absent EXCEPT !.phase = "running"]
    OBVIOUS
  <2>2. /\ n \in TaskRun /\ n.phase = "running" /\ ~n.deleting
        /\ n.instance = None
    BY <2>1, Constants DEF Absent, TaskRun
  <2>3. tr[t].phase = "absent" /\ Put(t, n, "events")
    BY <1>6, <2>1 DEF CreateTask, Stores
  <2>4. /\ tr'[t] = n
        /\ \A s \in Tasks \ {t} : tr'[s] = tr[s] /\ pending'[s] = pending[s]
        /\ pending[t] = "assignment" => pending'[t] = "assignment"
    BY <1>2, <2>2, <2>3, PutStores DEF Settled
  <2>5. ~Over(t) /\ prov[t] = "none" /\ tr[t].instance = None
    BY <1>2, <2>3 DEF TaskOK, Over, Done
  <2>6. \A v \in Workers : ~OnUser(v, t)
    BY <1>5, <2>3 DEF UserOK
  <2>7. Owned(t, tr'[t]) /\ \A i \in Mine(t) : ~Recorded(i)
    BY <2>2, <2>4, <2>5, DynamicAssumption DEF Owned, Recorded, Mine, Live
  <2>8. QED
    BY <1>1, <1>3, <1>4, <2>2, <2>4, <2>5, <2>6, <2>7, StoreMoves
<1>7. ASSUME NEW n \in TaskRun, Put(t, n, "events"), Exists(tr[t]),
             n.phase \in {tr[t].phase, "completed"}, tr[t].deleting => n.deleting,
             n.assigned = tr[t].assigned, n.failed = tr[t].failed,
             n.instance = tr[t].instance, n.finalizer = tr[t].finalizer
      PROVE  AccountInv'
  <2>1. /\ tr'[t] = Settled(n)
        /\ \A s \in Tasks \ {t} : tr'[s] = tr[s] /\ pending'[s] = pending[s]
        /\ pending[t] = "assignment" => pending'[t] = "assignment"
    BY <1>2, <1>7, PutStores
  <2>2. \/ /\ n.deleting /\ ~n.finalizer /\ tr'[t].phase = "gone"
           /\ tr'[t].instance = None /\ ~tr'[t].finalizer
           /\ ~tr'[t].assigned /\ ~tr'[t].failed
        \/ tr'[t] = n
    BY <2>1 DEF Settled, Gone, Absent
  <2>3. tr'[t].phase # "absent" /\ (Over(t) => Over(t)')
    BY <1>7, <2>2 DEF Over, Done, Exists
  <2>4. Owned(t, tr'[t])
    BY <1>2, <1>7, <2>2 DEF TaskOK, Owned
  <2>5. tr'[t].instance # None /\ ~tr'[t].finalizer => Over(t)'
    BY <1>2, <1>7, <2>2, <2>3 DEF TaskOK, Finalized
  <2>6. prov[t] # "none" => tr'[t].assigned \/ tr'[t].failed \/ Over(t)'
    BY <1>2, <1>7, <2>2, <2>3 DEF TaskOK, Over
  <2>7. \A i \in Mine(t) : Recorded(i) => tr'[t].instance = i /\ tr'[t].finalizer
    BY <1>7, <2>2 DEF Recorded, Mine
  <2>8. Live' = Live
    BY <1>1 DEF Live
  <2>9. ASSUME NEW v \in Workers, OnUser(v, t) PROVE AllocationKnows(v, t)'
    <3>1. AllocationKnows(v, t) /\ Obj(v)' = Obj(v)
      BY <1>1, <1>5, <2>9 DEF UserOK, Obj
    <3>2. CASE tr'[t] = n
      <4>1. pending'[t] = "assignment" \/ pending[t] # "assignment"
        BY <2>1
      <4>2. QED
        BY <1>1, <1>7, <2>8, <3>1, <3>2, <4>1 DEF AllocationKnows
    <3>3. CASE tr'[t] # n
      <4>1. ~tr[t].finalizer /\ tr'[t].instance = None
        BY <1>7, <2>2, <3>3
      <4>2. worker[v].pc \notin HavePCs \cup {"remove"}
        BY <3>1, <4>1 DEF AllocationKnows
      <4>3. QED
        BY <1>1, <3>1, <4>1, <4>2 DEF AllocationKnows, HavePCs
    <3>4. QED
      BY <3>2, <3>3
  <2>10. QED
    BY <1>1, <1>3, <1>4, <2>1, <2>3, <2>4, <2>5, <2>6, <2>7, <2>9, StoreMoves
<1>8. CASE TaskCompletes(t) \/ TaskCancelled(t)
  <2>1. PICK n : n = [tr[t] EXCEPT !.phase = "completed"]
    OBVIOUS
  <2>2. /\ n \in TaskRun /\ n.phase = "completed"
        /\ n.deleting = tr[t].deleting
        /\ n.assigned = tr[t].assigned /\ n.failed = tr[t].failed
        /\ n.instance = tr[t].instance /\ n.finalizer = tr[t].finalizer
    BY <1>2, <2>1 DEF TaskRun
  <2>3. Put(t, n, "events") /\ Exists(tr[t])
    BY <1>8, <2>1 DEF TaskCompletes, TaskCancelled, Stores, Exists
  <2>4. QED
    BY <1>7, <2>2, <2>3
<1>9. CASE DeleteTask(t)
  <2>1. PICK n : n = [tr[t] EXCEPT !.deleting = TRUE]
    OBVIOUS
  <2>2. /\ n \in TaskRun /\ n.phase = tr[t].phase /\ n.deleting
        /\ n.assigned = tr[t].assigned /\ n.failed = tr[t].failed
        /\ n.instance = tr[t].instance /\ n.finalizer = tr[t].finalizer
    BY <1>2, <2>1 DEF TaskRun
  <2>3. Put(t, n, "events") /\ Exists(tr[t])
    BY <1>9, <2>1 DEF DeleteTask, Stores
  <2>4. QED
    BY <1>7, <2>2, <2>3
<1>10. QED
  BY <1>6, <1>8, <1>9 DEF User

\* Timers, instances that start and provision TaskRuns that end.
LEMMA OutsideMoves ==
    ASSUME AccountInv, DynInv',
           \/ \E t \in Tasks : TimerFires(t) \/ TimePasses(t) \/ ProvisionEnds(t)
           \/ \E i \in Instances : InstanceStarts(i)
    PROVE  AccountInv'
<1>1. ASSUME NEW t \in Tasks, TimerFires(t) \/ TimePasses(t)
      PROVE  AccountInv'
  <2>1. Undisturbed /\ UNCHANGED worker
    BY <1>1, Calmly DEF TimerFires, TimePasses, faultVars
  <2>2. QED
    BY <2>1, NobodyMoves
<1>2. ASSUME NEW t \in Tasks, ProvisionEnds(t)
      PROVE  AccountInv'
  <2>1. UNCHANGED <<tr, pending, cache, cloud, owner, worker, lost>>
    BY <1>2 DEF ProvisionEnds, cloudVars, faultVars
  <2>2. \A s \in Tasks : prov'[s] = "none" <=> prov[s] = "none"
    BY <1>2 DEF ProvisionEnds, AccountInv, DynInv, JobsOK
  <2>3. ASSUME NEW s \in Tasks, secret'[s] = "ssh"
        PROVE  prov[s] # "none" /\ (HostUp(s)' \/ Over(s))
    <3>1. secret[s] = "ssh" \/ (prov[s] # "none" /\ HostUp(s))
      BY <1>2, <2>3 DEF ProvisionEnds, AccountInv, DynInv, JobsOK
    <3>2. prov[s] # "none" /\ (HostUp(s) \/ Over(s))
      BY <3>1 DEF AccountInv, TasksOK, TaskOK
    <3>3. HostUp(s)' <=> HostUp(s)
      BY <2>1 DEF HostUp
    <3>4. QED
      BY <3>2, <3>3
  <2>4. Undisturbed
    BY <2>1, <2>2, <2>3 DEF Undisturbed, Live
  <2>5. QED
    BY <2>1, <2>4, NobodyMoves
<1>3. ASSUME NEW i \in Instances, InstanceStarts(i)
      PROVE  AccountInv'
  <2>1. UNCHANGED <<tr, pending, cache, secret, prov, owner, worker, lost>>
    BY <1>3 DEF InstanceStarts, faultVars
  <2>2. /\ cloud[i] = "starting" /\ cloud'[i] \in {"up", "broken"}
        /\ \A j \in Instances \ {i} : cloud'[j] = cloud[j]
    BY <1>3 DEF InstanceStarts, AccountInv, DynInv, CloudOK
  <2>3. \A s \in Tasks : HostUp(s) => HostUp(s)'
    BY <2>1, <2>2 DEF HostUp
  <2>4. \A s \in Tasks : secret[s] = "ssh" =>
           prov[s] # "none" /\ (HostUp(s)' \/ Over(s))
    BY <2>3 DEF AccountInv, TasksOK, TaskOK
  <2>5. Live' \subseteq Live
    BY <2>2 DEF Live
  <2>6. Undisturbed
    BY <2>1, <2>2, <2>4, <2>5 DEF Undisturbed
  <2>7. QED
    BY <2>1, <2>6, NobodyMoves
<1>4. QED
  BY <1>1, <1>2, <1>3

(***************************************************************************)
(* The theorems.                                                           *)
(***************************************************************************)

\* The invariant holds at the start, and every step keeps it.
LEMMA AccountInit == Init => AccountInv
<1> SUFFICES ASSUME Init PROVE AccountInv
  OBVIOUS
<1>1. DynInv
  BY InitOK
<1>2. \A w \in Workers : ~Working(w)
  BY DEF Init, Working, Idle
<1>3. KeysApart /\ ReconcilesOK
  BY <1>2 DEF KeysApart, ReconcilesOK, OnUser, OnProv
<1>4. Live = {}
  BY DEF Init, Live
<1>5. LiveOK /\ Tied
  BY <1>4 DEF LiveOK, Tied, Mine, Init
<1>6. TasksOK
  <2> SUFFICES ASSUME NEW t \in Tasks PROVE TaskOK(t)
    BY DEF TasksOK
  <2>1. /\ tr[t] = Absent /\ cache[t] = Absent /\ secret[t] = "none"
        /\ prov[t] = "none" /\ Absent.instance = None /\ ~Absent.deleting
    BY DEF Init, Absent
  <2>2. QED
    BY <2>1 DEF TaskOK, Owned, Finalized
<1>7. QED
  BY <1>1, <1>3, <1>5, <1>6 DEF AccountInv

LEMMA AccountNext ==
    AccountInv /\ DynInv' /\ [Next]_vars => AccountInv'
<1> SUFFICES ASSUME AccountInv, DynInv', [Next]_vars PROVE AccountInv'
  OBVIOUS
<1>1. CASE UNCHANGED vars
  <2>1. Undisturbed /\ UNCHANGED worker
    BY <1>1, Calmly DEF vars, cloudVars
  <2>2. QED
    BY <2>1, NobodyMoves
<1>2. ASSUME NEW w \in Workers, WorkerStep(w) PROVE AccountInv'
  <2>1. CASE WaitForRoom(w) \/ CountFailure(w)
    BY <2>1, CountedMoves
  <2>2. CASE Launch(w) \/ LaunchProvision(w)
    BY <2>2, LaunchMoves, ProvisionMoves
  <2>3. CASE RecordInstance(w) \/ AssignInstance(w) \/ RemoveInstance(w)
    BY <2>3, RecordMoves, AssignMoves, RemoveMoves
  <2>4. CASE AbandonInstance(w) \/ TerminateInstance(w) \/ Deallocate(w)
    BY <2>4, AbandonedMoves, TerminatedMoves, DeallocateMoves
    DEF AbandonInstance, TerminateInstance, Deallocate
  <2>5. CASE AddErrorFinalizer(w) \/ ReleaseTask(w) \/ UnassignFailed(w)
    BY <2>5, ErrorFinalizerMoves, ReleaseMoves, UnassignMoves
  <2>6. CASE \/ QuotaReached(w) \/ CreateErrorSecret(w) \/ DeleteSecret(w)
             \/ WakeWaiting(w) \/ MarkProcessed(w)
    BY <2>6, PlainMoves
  <2>7. QED
    BY <1>2, <2>1, <2>2, <2>3, <2>4, <2>5, <2>6 DEF WorkerStep
<1>3. ASSUME NEW w \in Workers, WorkerFault(w) PROVE AccountInv'
  <2>1. CASE \/ ErrorRequeues(w) \/ UpdateLost(w) \/ LaunchFails(w)
             \/ RecordFails(w) \/ AssignFails(w) \/ SecretDeleteFails(w)
    BY <2>1, PlainMoves
  <2>2. CASE LosesCount(w) \/ ProvisionLaunchFails(w)
    BY <2>2, CountedMoves, ProvisionFailsMoves
  <2>3. CASE TerminateFails(w)
    <3>1. At(w, "abandon") \/ At(w, "terminate") \/ At(w, "deallocate")
      BY <2>3 DEF TerminateFails
    <3>2. QED
      BY <2>3, <3>1, AbandonedMoves, TerminatedMoves, DeallocateMoves
  <2>4. CASE \E t \in Tasks : UserReadFails(w, t)
    BY <2>4, ReconcileUserMoves
  <2>5. QED
    BY <1>3, <2>1, <2>2, <2>3, <2>4 DEF WorkerFault
<1>4. ASSUME NEW w \in Workers, NEW t \in Tasks,
             ReconcileUser(w, t) \/ ReconcileProvision(w, t)
      PROVE  AccountInv'
  BY <1>4, ReconcileUserMoves, ReconcileProvisionMoves
<1>5. CASE Restart
  BY <1>5, RestartMoves
<1>6. ASSUME NEW t \in Tasks,
             \/ Deliver(t) \/ TimerFires(t) \/ TimePasses(t)
             \/ User(t) \/ ProvisionEnds(t)
      PROVE  AccountInv'
  BY <1>6, DeliverMoves, UserMoves, OutsideMoves
<1>7. ASSUME NEW i \in Instances, InstanceStarts(i) PROVE AccountInv'
  BY <1>7, OutsideMoves
<1>8. QED
  BY <1>1, <1>2, <1>3, <1>4, <1>5, <1>6, <1>7 DEF Next

\* The inductive invariant of the allocation of instances.
THEOREM Accounting == Spec => []AccountInv
<1>1. Spec => [](DynInv /\ InstanceBound)
  BY InitOK, NextOK, PTL DEF Spec
<1>2. QED
  BY <1>1, AccountInit, AccountNext, PTL DEF Spec

\* Whatever is cancelled, deleted, fails or restarts: an instance that runs is
\* recorded on its TaskRun, which then has the finalizer, or in the hand of the
\* reconcile that launched it, unless it was lost by a restart or by the error
\* of its termination.
THEOREM InstancesAccounted == Spec => []InstanceAccounted
<1>1. AccountInv => InstanceAccounted
  <2> SUFFICES ASSUME AccountInv, NEW i \in Live \ lost
               PROVE  Recorded(i) \/ Held(i)
    BY DEF InstanceAccounted
  <2>1. owner[i] \in Tasks
    BY DEF AccountInv, LiveOK, Live
  <2>2. i \in Mine(owner[i])
    BY DEF Mine
  <2>3. Recorded(i) \/ InHand(i)
    BY <2>1, <2>2 DEF AccountInv, Tied
  <2>4. QED
    BY <2>3 DEF InHand, Held
<1>2. QED
  BY <1>1, Accounting, PTL

\* A TaskRun has at most one instance that runs and is not lost: no reconcile
\* launches a second one, however copies of the TaskRun are overwritten.
THEOREM OneInstance == Spec => []OneInstancePerTask
<1>1. AccountInv => OneInstancePerTask
  <2> SUFFICES ASSUME AccountInv, NEW i \in Live \ lost, NEW j \in Live \ lost,
                      owner[i] = owner[j]
               PROVE  i = j
    BY DEF OneInstancePerTask
  <2>1. PICK t \in Tasks : t = owner[i]
    BY DEF AccountInv, LiveOK, Live
  <2>2. i \in Mine(t) /\ j \in Mine(t)
    BY <2>1 DEF Mine
  <2>3. ASSUME NEW k \in Mine(t), InHand(k)
        PROVE  /\ tr[t].instance = None
               /\ \E w \in Workers : OnUser(w, t) /\ worker[w].obj.instance = k
    <3>1. PICK w \in Workers : /\ worker[w].key = <<t, "user">>
                               /\ worker[w].pc \in HandPCs
                               /\ worker[w].obj.instance = k
      BY <2>3 DEF InHand, Mine
    <3>2. OnUser(w, t)
      BY <3>1 DEF OnUser, Working, HandPCs
    <3>3. QED
      BY <3>1, <3>2 DEF AccountInv, ReconcilesOK, UserOK, AllocationKnows
  <2>4. CASE Recorded(i) /\ Recorded(j)
    BY <2>4 DEF Recorded
  <2>5. CASE InHand(i) /\ InHand(j)
    BY <2>2, <2>3, <2>5 DEF AccountInv, KeysApart, OnUser
  <2>6. CASE \/ InHand(i) /\ Recorded(j)
             \/ InHand(j) /\ Recorded(i)
    <3>1. tr[t].instance = None
      BY <2>2, <2>3, <2>6
    <3>2. QED
      BY <2>1, <2>6, <3>1, DynamicAssumption DEF Recorded, Live
  <2>7. QED
    BY <2>2, <2>4, <2>5, <2>6 DEF AccountInv, Tied
<1>2. QED
  BY <1>1, Accounting, PTL

\* No timeout, retry or late outcome of a provision TaskRun terminates the host
\* behind an SSH secret while its TaskRun runs.
THEOREM SecretHostStaysUp == Spec => []HostStaysUp
<1>1. AccountInv => HostStaysUp
  BY DEF AccountInv, TasksOK, TaskOK, HostStaysUp, Over, Done
<1>2. QED
  BY <1>1, Accounting, PTL
=============================================================================
