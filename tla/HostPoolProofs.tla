--------------------------- MODULE HostPoolProofs ---------------------------
(***************************************************************************)
(* Proofs about HostPool, for every number of TaskRuns, hosts and workers, *)
(* every concurrency limit and any failing calls and restarts.             *)
(***************************************************************************)
EXTENDS HostPool, SequenceTheorems, TLAPS

(***************************************************************************)
(* Copies of a TaskRun: what the operators that make one preserve.         *)
(***************************************************************************)

\* The records the model starts from are consistent copies.
LEMMA ConstantCopies ==
    /\ Absent \in Copy /\ Gone \in Copy
    /\ \A valid \in BOOLEAN : /\ Created(valid) \in Copy
                               /\ [Absent EXCEPT !.valid = valid] \in Copy
BY ConstantsAssumption DEF Absent, Created, Gone, Copy, TaskRun

\* A consistent copy is a TaskRun record.
LEMMA CopyIsTaskRun == ASSUME NEW o \in Copy PROVE o \in TaskRun
BY DEF Copy

\* Taking the managed fields of one consistent copy into another
\* (mergeKeysInMaps, ensureFinalizerIsUpdated) gives a consistent copy.
LEMMA MergedCopy ==
    ASSUME NEW a \in Copy, NEW b \in Copy PROVE Merged(a, b) \in Copy
BY DEF Merged, Copy, TaskRun

\* So do the finalizer's removal together with the assignment's, the end of
\* an object, and the updates of single fields.
LEMMA UpdatedCopies ==
    ASSUME NEW o \in Copy
    PROVE  /\ Released(o) \in Copy
           /\ Settled(o) \in Copy
           /\ [o EXCEPT !.finalizer = TRUE] \in Copy
           /\ [o EXCEPT !.waiting = TRUE] \in Copy
           /\ [o EXCEPT !.woken = TRUE] \in Copy
           /\ [o EXCEPT !.phase = "completed"] \in Copy
           /\ [o EXCEPT !.deleting = TRUE] \in Copy
<1>1. Released(o) \in Copy
  BY ConstantsAssumption DEF Released, Copy, TaskRun
<1>2. Settled(o) \in Copy
  BY ConstantCopies DEF Settled
<1>3. [o EXCEPT !.finalizer = TRUE] \in Copy
  BY DEF Copy, TaskRun
<1>4. [o EXCEPT !.waiting = TRUE] \in Copy
  BY DEF Copy, TaskRun
<1>5. [o EXCEPT !.woken = TRUE] \in Copy
  BY DEF Copy, TaskRun
<1>6. [o EXCEPT !.phase = "completed"] \in Copy
  BY DEF Copy, TaskRun
<1>7. [o EXCEPT !.deleting = TRUE] \in Copy
  BY DEF Copy, TaskRun
<1>8. QED
  BY <1>1, <1>2, <1>3, <1>4, <1>5, <1>6, <1>7

\* The copies Allocate and handleProvisionTask make.
LEMMA AssignedCopy ==
    ASSUME NEW o \in Copy, NEW h \in Hosts \ o.failed
    PROVE  [o EXCEPT !.assigned = h, !.waiting = FALSE, !.finalizer = TRUE]
               \in Copy
BY DEF Copy, TaskRun

\* The failed host is added and the assignment removed together.
LEMMA FailedCopy ==
    ASSUME NEW o \in Copy, NEW h \in Hosts
    PROVE  [o EXCEPT !.failed = @ \cup {h}, !.assigned = None] \in Copy
BY ConstantsAssumption DEF Copy, TaskRun

(***************************************************************************)
(* The steps actions are made of: storing a copy, moving a worker.         *)
(***************************************************************************)

\* Storing a consistent copy keeps the stored objects and the watch events
\* consistent.
LEMMA PutOK ==
    ASSUME StoreOK, NEW t \in Tasks, NEW o \in Copy, Put(t, o)
    PROVE  /\ tr' \in [Tasks -> Copy]
           /\ watch' \in Seq([task : Tasks, obj : Copy])
<1>1. Settled(o) \in Copy
  BY UpdatedCopies
<1>2. CASE Settled(o) = tr[t]
  BY <1>2 DEF Put, StoreOK, storeVars
<1>3. CASE Settled(o) # tr[t]
  <2> DEFINE e == [task |-> t, obj |-> Settled(o)]
  <2>1. e \in [task : Tasks, obj : Copy]
    BY <1>1
  <2>2. tr' = [tr EXCEPT ![t] = Settled(o)] /\ watch' = Append(watch, e)
    BY <1>3 DEF Put
  <2> HIDE DEF e
  <2>3. QED
    BY <1>1, <2>1, <2>2 DEF StoreOK
<1>4. QED
  BY <1>2, <1>3

\* UpdateTaskRunWithRetry with a consistent copy.
LEMMA UpdateOK ==
    ASSUME StoreOK, NEW t \in Tasks, NEW o \in Copy,
           UpdateTaskRunWithRetry(t, o)
    PROVE  /\ tr' \in [Tasks -> Copy]
           /\ watch' \in Seq([task : Tasks, obj : Copy])
<1>1. Merged(tr[t], o) \in Copy
  BY MergedCopy DEF StoreOK
<1>2. Put(t, Merged(tr[t], o))
  BY DEF UpdateTaskRunWithRetry
<1>3. QED
  BY <1>1, <1>2, PutOK

\* What a busy worker holds.
LEMMA BusyWorker ==
    ASSUME WorkersOK, NEW w \in Workers, worker[w].pc # "idle"
    PROVE  /\ worker[w] \in Busy
           /\ worker[w].key \in Keys /\ TaskOf(w) \in Tasks
           /\ worker[w].obj \in Copy /\ Released(worker[w].obj) \in Copy
           /\ worker[w].seen \in TaskRun
           /\ worker[w].host \in Hosts \cup {None}
<1>1. worker[w] \in Busy
  BY DEF WorkersOK, Idle
<1>2. worker[w].key \in Keys /\ TaskOf(w) \in Tasks
  BY <1>1 DEF Busy, Keys, TaskOf
<1>3. worker[w].obj \in Copy /\ Released(worker[w].obj) \in Copy
  BY <1>1, UpdatedCopies DEF Busy
<1>4. worker[w].seen \in TaskRun /\ worker[w].host \in Hosts \cup {None}
  BY <1>1 DEF Busy, Worker
<1>5. QED
  BY <1>1, <1>2, <1>3, <1>4

\* A reconcile that ends leaves an idle worker.
LEMMA ReturnOK ==
    ASSUME WorkersOK, NEW w \in Workers, Return(w)
    PROVE  WorkersOK'
BY DEF WorkersOK, Return

\* A reconcile that ends with an error, or with RequeueAfter.
LEMMA RequeueOK ==
    ASSUME WorkersOK, NEW w \in Workers, worker[w].pc # "idle",
           timers \subseteq Tasks, Requeue(w)
    PROVE  WorkersOK' /\ timers' \subseteq Tasks
<1>1. WorkersOK'
  BY ReturnOK DEF Requeue
<1>2. worker[w].key[1] \in Tasks
  BY BusyWorker DEF TaskOf
<1>3. QED
  BY <1>1, <1>2 DEF Requeue

\* A reconcile that ends without having served its TaskRun.
LEMMA NotServedOK ==
    ASSUME WorkersOK, NEW w \in Workers, worker[w].pc # "idle",
           timers \subseteq Tasks, NotServed(w)
    PROVE  WorkersOK' /\ timers' \subseteq Tasks
<1>1. CASE Requeue(w)
  BY <1>1, RequeueOK
<1>2. CASE Return(w) /\ UNCHANGED timers
  BY <1>2, ReturnOK
<1>3. QED
  BY <1>1, <1>2 DEF NotServed

\* A reconcile may start at any pc that is not for a provision TaskRun's
\* outcome, or at any pc with the key of one.
LEMMA BeginOK ==
    ASSUME WorkersOK, NEW w \in Workers,
           NEW pc \in PCs \ {"idle"}, NEW key \in Keys,
           pc \in {"unassignFailed", "mark"} => key \in Leases,
           NEW seen \in TaskRun, NEW o \in Copy,
           NEW h \in Hosts \cup {None},
           Begin(w, pc, key, seen, o, h)
    PROVE  WorkersOK'
<1> DEFINE r == [pc |-> pc, key |-> key, obj |-> o, seen |-> seen,
                 host |-> h]
<1>1. r \in Busy
  BY CopyIsTaskRun DEF Busy, Worker
<1>2. worker' = [worker EXCEPT ![w] = r]
  BY DEF Begin
<1> HIDE DEF r
<1>3. QED
  BY <1>1, <1>2 DEF WorkersOK

\* A reconcile that goes on without its copy.
LEMMA GotoOK ==
    ASSUME WorkersOK, NEW w \in Workers, worker[w].pc # "idle",
           NEW pc \in PCs \ {"idle"},
           pc \in {"unassignFailed", "mark"} => worker[w].key \in Leases,
           Goto(w, pc)
    PROVE  WorkersOK'
<1> DEFINE o == [Absent EXCEPT !.valid = worker[w].obj.valid]
           r == [worker[w] EXCEPT !.pc = pc, !.seen = Absent, !.obj = o]
<1>1. worker[w] \in Busy /\ worker[w].obj.valid \in BOOLEAN
  BY BusyWorker DEF Copy, TaskRun
<1>2. worker' = [worker EXCEPT ![w] = r]
  BY <1>1 DEF Goto, WorkersOK
<1>3. o \in Copy
  BY <1>1, ConstantCopies
<1> HIDE DEF o
<1>4. r \in Busy
  BY <1>1, <1>3, ConstantCopies, CopyIsTaskRun DEF Busy, Worker
<1> HIDE DEF r
<1>5. QED
  BY <1>2, <1>4 DEF WorkersOK

\* A reconcile that goes on with its copy.
LEMMA KeepOK ==
    ASSUME WorkersOK, NEW w \in Workers, worker[w].pc # "idle",
           NEW pc \in PCs \ {"idle", "unassignFailed", "mark"},
           NEW o \in Copy, tr' \in [Tasks -> Copy],
           Keep(w, pc, o)
    PROVE  WorkersOK'
<1> DEFINE s == IF worker[w].seen = tr[worker[w].key[1]]
                THEN tr'[worker[w].key[1]] ELSE worker[w].seen
           r == [worker[w] EXCEPT !.pc = pc, !.obj = o, !.seen = s]
<1>1. worker[w] \in Busy /\ worker[w].key[1] \in Tasks
  BY BusyWorker DEF TaskOf
<1>2. s \in TaskRun
  BY <1>1, BusyWorker, CopyIsTaskRun
<1>3. worker' = [worker EXCEPT ![w] = r]
  BY <1>1 DEF Keep, WorkersOK
<1> HIDE DEF s
<1>4. r \in Busy
  BY <1>1, <1>2, CopyIsTaskRun DEF Busy, Worker
<1> HIDE DEF r
<1>5. QED
  BY <1>3, <1>4 DEF WorkersOK

(***************************************************************************)
(* The invariant.                                                          *)
(***************************************************************************)

\* The invariant holds at the start.
LEMMA InitOK == Init => CopiesConsistent
<1> SUFFICES ASSUME Init PROVE CopiesConsistent
  OBVIOUS
<1>1. StoreOK
  BY ConstantCopies DEF Init, StoreOK
<1>2. WorkersOK
  BY DEF Init, WorkersOK
<1>3. RestOK
  BY ConstantsAssumption DEF Init, RestOK, JobState
<1>4. QED
  BY <1>1, <1>2, <1>3 DEF CopiesConsistent

\* Allocate's decision is a consistent copy: the host it assigns is not on
\* the FailedHosts list it read.
LEMMA AllocatesOK ==
    ASSUME CopiesConsistent, NEW w \in Workers, NEW t \in Tasks,
           Allocates(w, t, tr[t])
    PROVE  WorkersOK'
<1> DEFINE o == tr[t]
           open == Hosts \ o.failed
<1>1. o \in Copy /\ o \in TaskRun /\ UserKey(t) \in Keys
  BY CopyIsTaskRun DEF CopiesConsistent, StoreOK, UserKey, Keys
<1>2. CASE UNCHANGED worker
  BY <1>2 DEF CopiesConsistent, WorkersOK
<1>3. CASE Begin(w, FailPC(o), UserKey(t), o, o, None)
  BY <1>1, <1>3, BeginOK DEF CopiesConsistent, FailPC, PCs
<1>4. CASE Begin(w, "wait", UserKey(t), o, [o EXCEPT !.waiting = TRUE], None)
  BY <1>1, <1>4, BeginOK, UpdatedCopies DEF CopiesConsistent, PCs
<1>5. ASSUME NEW h \in MostFree(open),
             Begin(w, "assign", UserKey(t), o,
                   [o EXCEPT !.assigned = h, !.waiting = FALSE,
                             !.finalizer = TRUE], h)
      PROVE  WorkersOK'
  <2>1. h \in Hosts \ o.failed
    BY DEF MostFree
  <2>2. QED
    BY <1>1, <1>5, <2>1, BeginOK, AssignedCopy DEF CopiesConsistent, PCs
<1>6. QED
  BY <1>2, <1>3, <1>4, <1>5 DEF Allocates

\* A reconcile of a user TaskRun.
LEMMA ReconcileUserOK ==
    ASSUME CopiesConsistent, NEW w \in Workers, NEW t \in Tasks,
           ReconcileUser(w, t) \/ UserReadFails(w, t)
    PROVE  CopiesConsistent'
<1> USE DEF CopiesConsistent
<1>1. tr[t] \in Copy /\ tr[t] \in TaskRun /\ UserKey(t) \in Keys
  BY CopyIsTaskRun DEF StoreOK, UserKey, Keys
<1>2. UNCHANGED worker => WorkersOK'
  BY DEF WorkersOK
<1>3. CASE ReconcileUser(w, t)
  <2>1. StoreOK' /\ RestOK'
    BY <1>3 DEF ReconcileUser, StoreOK, RestOK, jobVars
  <2>2. tr[t].assigned \in Hosts \cup {None}
    BY <1>1 DEF TaskRun
  <2>3. CASE Begin(w, "deallocate", UserKey(t), tr[t], tr[t], tr[t].assigned)
    BY <1>1, <2>1, <2>2, <2>3, BeginOK DEF PCs
  <2>4. CASE Allocates(w, t, tr[t])
    BY <2>1, <2>4, AllocatesOK
  <2>5. CASE Begin(w, FailPC(tr[t]), UserKey(t), tr[t], tr[t], None)
    BY <1>1, <2>1, <2>5, BeginOK DEF FailPC, PCs
  <2>6. QED
    BY <1>2, <1>3, <2>1, <2>3, <2>4, <2>5 DEF ReconcileUser
<1>4. CASE UserReadFails(w, t)
  <2>1. StoreOK' /\ RestOK'
    BY <1>4, ConstantsAssumption
    DEF UserReadFails, StoreOK, RestOK, jobVars, Fault
  <2>2. ASSUME NEW pc \in {FailPC(tr[t]), ConfigPC(tr[t])},
               Begin(w, pc, UserKey(t), tr[t], tr[t], None)
        PROVE  WorkersOK'
    <3>1. pc \in PCs \ {"idle", "unassignFailed", "mark"}
      BY DEF FailPC, ConfigPC, PCs
    <3>2. QED
      BY <1>1, <2>2, <3>1, BeginOK
  <2>3. QED
    BY <1>2, <1>4, <2>1, <2>2 DEF UserReadFails
<1>5. QED
  BY <1>3, <1>4

\* A write of a reconcile in progress, one step per action.
LEMMA WorkerStepOK ==
    ASSUME CopiesConsistent, NEW w \in Workers, WorkerStep(w)
    PROVE  CopiesConsistent'
<1> USE DEF CopiesConsistent
<1> DEFINE t == TaskOf(w)
           o == worker[w].obj
<1>1. worker[w].pc # "idle"
  BY DEF WorkerStep, WaitForHost, AssignHost, LaunchProvision, UnassignHost,
         AddErrorFinalizer, CreateErrorSecret, Deallocate, ReleaseHost,
         DeleteSecret, WakeOldest, UnassignFailedHost, MarkProcessed, At
<1>2. /\ worker[w] \in Busy /\ worker[w].key \in Keys /\ t \in Tasks
      /\ o \in Copy /\ Released(o) \in Copy
  BY <1>1, BusyWorker
<1>3. tr \in [Tasks -> Copy] /\ timers \subseteq Tasks
  BY DEF StoreOK, RestOK
<1>4. FailPC(o) \in PCs \ {"idle", "unassignFailed", "mark"}
  BY DEF FailPC, PCs
<1>5. CASE WaitForHost(w)
  <2>1. StoreOK'
    BY <1>2, <1>5, UpdateOK DEF WaitForHost, StoreOK
  <2>2. WorkersOK' /\ timers' \subseteq Tasks
    <3>1. CASE Exists(tr[t])
      BY <1>1, <1>3, <1>5, <3>1, RequeueOK DEF WaitForHost
    <3>2. CASE ~Exists(tr[t])
      BY <1>1, <1>2, <1>3, <1>4, <1>5, <3>2, KeepOK DEF WaitForHost
    <3>3. QED
      BY <3>1, <3>2
  <2>3. RestOK'
    BY <1>5, <2>2 DEF WaitForHost, RestOK, jobVars
  <2>4. QED
    BY <2>1, <2>2, <2>3
<1>6. CASE AssignHost(w)
  <2>1. StoreOK'
    BY <1>2, <1>6, UpdateOK DEF AssignHost, StoreOK, storeVars
  <2>2. WorkersOK'
    <3>1. CASE Exists(tr[t])
      <4>1. Keep(w, "launch", o) /\ tr' \in [Tasks -> Copy]
        BY <1>6, <2>1, <3>1 DEF AssignHost, StoreOK
      <4>2. QED
        BY <1>1, <1>2, <4>1, KeepOK DEF PCs
    <3>2. CASE ~Exists(tr[t])
      BY <1>1, <1>6, <3>2, GotoOK DEF AssignHost, PCs
    <3>3. QED
      BY <3>1, <3>2
  <2>3. RestOK'
    BY <1>6 DEF AssignHost, RestOK, jobVars
  <2>4. QED
    BY <2>1, <2>2, <2>3
<1>7. CASE LaunchProvision(w)
  <2>1. StoreOK' /\ WorkersOK'
    BY <1>7, ReturnOK DEF LaunchProvision, StoreOK
  <2>2. secret' \in [Tasks -> {"none", "ssh", "error"}]
    BY <1>7 DEF LaunchProvision, ErrorSecret, RestOK
  <2>3. prov' \in [Leases -> JobState]
    BY <1>7 DEF LaunchProvision, RestOK, JobState
  <2>4. RestOK'
    BY <1>7, <2>2, <2>3 DEF LaunchProvision, RestOK
  <2>5. QED
    BY <2>1, <2>4
<1>8. CASE UnassignHost(w)
  <2>1. StoreOK'
    BY <1>2, <1>8, UpdateOK DEF UnassignHost, StoreOK, storeVars
  <2>2. Keep(w, "fail", o) /\ tr' \in [Tasks -> Copy]
    BY <1>8, <2>1 DEF UnassignHost, StoreOK
  <2>3. WorkersOK'
    BY <1>1, <1>2, <2>2, KeepOK DEF PCs
  <2>4. RestOK'
    BY <1>8 DEF UnassignHost, RestOK, jobVars
  <2>5. QED
    BY <2>1, <2>3, <2>4
<1>9. CASE AddErrorFinalizer(w)
  <2>1. [o EXCEPT !.finalizer = TRUE] \in Copy
    BY <1>2, UpdatedCopies
  <2>2. StoreOK'
    BY <1>2, <1>9, <2>1, PutOK DEF AddErrorFinalizer, StoreOK, storeVars
  <2>3. WorkersOK' /\ timers' \subseteq Tasks
    <3>1. CASE /\ Goto(w, IF At(w, "fail") THEN "errorSecret"
                                           ELSE "configSecret")
               /\ UNCHANGED timers
      BY <1>1, <1>3, <3>1, GotoOK DEF PCs
    <3>2. CASE NotServed(w)
      BY <1>1, <1>3, <3>2, NotServedOK
    <3>3. QED
      BY <1>9, <3>1, <3>2 DEF AddErrorFinalizer
  <2>4. RestOK'
    BY <1>9, <2>3 DEF AddErrorFinalizer, RestOK, jobVars
  <2>5. QED
    BY <2>2, <2>3, <2>4
<1>10. CASE CreateErrorSecret(w)
  <2>1. WorkersOK' /\ timers' \subseteq Tasks
    <3>1. CASE NotServed(w)
      BY <1>1, <1>3, <3>1, NotServedOK
    <3>2. CASE Return(w) /\ UNCHANGED timers
      BY <1>3, <3>2, ReturnOK
    <3>3. CASE Reconciles(w, "provision") /\ Goto(w, "mark") /\ UNCHANGED timers
      <4>1. worker[w].key \in Leases
        BY <1>2, <3>3 DEF Reconciles, Keys, Leases
      <4>2. QED
        BY <1>1, <1>3, <3>3, <4>1, GotoOK DEF PCs
    <3>4. QED
      BY <1>10, <3>1, <3>2, <3>3 DEF CreateErrorSecret
  <2>2. secret' \in [Tasks -> {"none", "ssh", "error"}]
    BY <1>10 DEF CreateErrorSecret, ErrorSecret, RestOK
  <2>3. StoreOK' /\ RestOK'
    BY <1>10, <2>1, <2>2 DEF CreateErrorSecret, StoreOK, RestOK, jobVars
  <2>4. QED
    BY <2>1, <2>3
<1>11. CASE Deallocate(w)
  <2>1. StoreOK' /\ tr' \in [Tasks -> Copy]
    BY <1>11 DEF Deallocate, StoreOK
  <2>2. WorkersOK'
    BY <1>1, <1>2, <1>11, <2>1, KeepOK DEF Deallocate, PCs
  <2>3. clean' \in [Leases -> JobState]
    BY <1>11 DEF Deallocate, RestOK, JobState
  <2>4. RestOK'
    BY <1>11, <2>3 DEF Deallocate, RestOK
  <2>5. QED
    BY <2>1, <2>2, <2>4
<1>12. CASE ReleaseHost(w)
  <2>1. StoreOK'
    BY <1>2, <1>12, UpdateOK DEF ReleaseHost, StoreOK, storeVars
  <2>2. WorkersOK' /\ timers' \subseteq Tasks
    <3>1. CASE Exists(tr[t])
      BY <1>1, <1>3, <1>12, <3>1, GotoOK DEF ReleaseHost, PCs
    <3>2. CASE ~Exists(tr[t])
      BY <1>1, <1>3, <1>12, <3>2, RequeueOK DEF ReleaseHost
    <3>3. QED
      BY <3>1, <3>2
  <2>3. RestOK'
    BY <1>12, <2>2 DEF ReleaseHost, RestOK, jobVars
  <2>4. QED
    BY <2>1, <2>2, <2>3
<1>13. CASE DeleteSecret(w)
  <2>1. StoreOK' /\ RestOK'
    BY <1>13 DEF DeleteSecret, StoreOK, RestOK, jobVars
  <2>2. WorkersOK'
    BY <1>1, <1>13, GotoOK DEF DeleteSecret, PCs
  <2>3. QED
    BY <2>1, <2>2
<1>14. CASE WakeOldest(w)
  <2>1. ASSUME NEW u \in Tasks, Put(u, [tr[u] EXCEPT !.woken = TRUE])
        PROVE  /\ tr' \in [Tasks -> Copy]
               /\ watch' \in Seq([task : Tasks, obj : Copy])
    BY <1>3, <2>1, UpdatedCopies, PutOK
  <2>2. StoreOK'
    BY <1>14, <2>1 DEF WakeOldest, StoreOK, storeVars
  <2>3. WorkersOK' /\ RestOK'
    BY <1>14, ReturnOK DEF WakeOldest, RestOK, jobVars
  <2>4. QED
    BY <2>2, <2>3
<1>15. CASE UnassignFailedHost(w)
  <2>1. StoreOK'
    BY <1>2, <1>15, UpdateOK DEF UnassignFailedHost, StoreOK, storeVars
  <2>2. WorkersOK' /\ timers' \subseteq Tasks
    <3>1. CASE Exists(tr[t])
      <4>1. worker[w].key \in Leases
        BY <1>2, <1>15 DEF UnassignFailedHost, At, Busy
      <4>2. QED
        BY <1>1, <1>3, <1>15, <3>1, <4>1, GotoOK DEF UnassignFailedHost, PCs
    <3>2. CASE ~Exists(tr[t])
      BY <1>1, <1>3, <1>15, <3>2, RequeueOK DEF UnassignFailedHost
    <3>3. QED
      BY <3>1, <3>2
  <2>3. RestOK'
    BY <1>15, <2>2 DEF UnassignFailedHost, RestOK, jobVars
  <2>4. QED
    BY <2>1, <2>2, <2>3
<1>16. CASE MarkProcessed(w)
  <2>1. worker[w].key \in Leases
    BY <1>2, <1>16 DEF MarkProcessed, At, Busy
  <2>2. StoreOK' /\ WorkersOK' /\ RestOK'
    BY <1>16, <2>1, ReturnOK DEF MarkProcessed, StoreOK, RestOK
  <2>3. QED
    BY <2>2
<1>17. QED
  BY <1>5, <1>6, <1>7, <1>8, <1>9, <1>10, <1>11, <1>12, <1>13, <1>14, <1>15,
     <1>16 DEF WorkerStep

\* A failing call of a reconcile in progress.
LEMMA WorkerErrorOK ==
    ASSUME CopiesConsistent, NEW w \in Workers,
           \/ ErrorRequeues(w) \/ ErrorSecretAgain(w) \/ ErrorFailsAllocation(w)
           \/ LaunchFails(w) \/ KeyReadFails(w) \/ DeallocateFails(w)
           \/ SecretDeleteFails(w) \/ WakeFails(w)
    PROVE  CopiesConsistent'
<1> USE DEF CopiesConsistent
<1>1. worker[w].pc # "idle"
  BY DEF ErrorRequeues, ErrorSecretAgain, ErrorFailsAllocation, LaunchFails,
         KeyReadFails, DeallocateFails, SecretDeleteFails, WakeFails, At
<1>2. worker[w].obj \in Copy /\ Released(worker[w].obj) \in Copy
  BY <1>1, BusyWorker
<1>3. StoreOK' /\ tr' \in [Tasks -> Copy]
  BY DEF ErrorRequeues, ErrorSecretAgain, ErrorFailsAllocation, LaunchFails,
         KeyReadFails, DeallocateFails, SecretDeleteFails, WakeFails, StoreOK
<1>4. abandoned' \subseteq Keys
  <2>1. TaskOf(w) \in Tasks /\ UserKey(TaskOf(w)) \in Keys
    BY <1>1, BusyWorker DEF Keys, UserKey, TaskOf
  <2>2. abandoned \subseteq Keys /\ accounts \subseteq Keys
    BY DEF RestOK, Leases, Keys
  <2>3. QED
    BY <2>1, <2>2
    DEF ErrorRequeues, ErrorSecretAgain, ErrorFailsAllocation, LaunchFails,
        KeyReadFails, DeallocateFails, SecretDeleteFails, WakeFails, Abandon,
        jobVars
<1>5. timers' \subseteq Tasks => RestOK'
  BY <1>4, ConstantsAssumption
  DEF ErrorRequeues, ErrorSecretAgain, ErrorFailsAllocation, LaunchFails,
      KeyReadFails, ErrorSecret, DeallocateFails, SecretDeleteFails, WakeFails,
      RestOK, jobVars, Fault
<1>6. timers \subseteq Tasks
  BY DEF RestOK
<1>7. CASE ErrorRequeues(w)
  BY <1>1, <1>3, <1>5, <1>6, <1>7, NotServedOK DEF ErrorRequeues
<1>8. CASE ErrorFailsAllocation(w)
  <2>1. FailPC(worker[w].obj) \in PCs \ {"idle", "unassignFailed", "mark"}
    BY DEF FailPC, PCs
  <2>2. WorkersOK' /\ timers' \subseteq Tasks
    BY <1>1, <1>2, <1>3, <1>6, <1>8, <2>1, KeepOK DEF ErrorFailsAllocation
  <2>3. QED
    BY <1>3, <1>5, <2>2
<1>9. CASE LaunchFails(w)
  <2>1. WorkersOK' /\ timers' \subseteq Tasks
    BY <1>1, <1>2, <1>3, <1>6, <1>9, KeepOK DEF LaunchFails, PCs
  <2>2. QED
    BY <1>3, <1>5, <2>1
<1>10. CASE DeallocateFails(w)
  <2>1. WorkersOK' /\ timers' \subseteq Tasks
    BY <1>1, <1>2, <1>3, <1>6, <1>10, KeepOK DEF DeallocateFails, PCs
  <2>2. QED
    BY <1>3, <1>5, <2>1
<1>11. CASE SecretDeleteFails(w)
  <2>1. WorkersOK' /\ timers' \subseteq Tasks
    BY <1>1, <1>6, <1>11, GotoOK DEF SecretDeleteFails, PCs
  <2>2. QED
    BY <1>3, <1>5, <2>1
<1>12. CASE WakeFails(w)
  <2>1. WorkersOK' /\ timers' \subseteq Tasks
    BY <1>6, <1>12, ReturnOK DEF WakeFails
  <2>2. QED
    BY <1>3, <1>5, <2>1
<1>13. CASE ErrorSecretAgain(w)
  <2>1. WorkersOK' /\ timers' \subseteq Tasks
    BY <1>1, <1>6, <1>13, GotoOK DEF ErrorSecretAgain, PCs
  <2>2. QED
    BY <1>3, <1>5, <2>1
<1>14. CASE KeyReadFails(w)
  <2>1. WorkersOK' /\ timers' \subseteq Tasks
    BY <1>6, <1>14, ReturnOK DEF KeyReadFails
  <2>2. QED
    BY <1>3, <1>5, <2>1
<1>15. QED
  BY <1>7, <1>8, <1>9, <1>10, <1>11, <1>12, <1>13, <1>14

\* A reconcile of a provision TaskRun.
LEMMA ReconcileProvisionOK ==
    ASSUME CopiesConsistent, NEW w \in Workers, NEW t \in Tasks,
           NEW h \in Hosts,
           \/ ReconcileProvision(w, t, h) \/ RemoveProvision(w, t, h)
           \/ ProvisionReadFails(w, t, h)
    PROVE  CopiesConsistent'
<1> USE DEF CopiesConsistent
<1> DEFINE mine == cache[t]
<1>1. /\ mine \in Copy /\ mine \in TaskRun /\ Absent \in Copy
      /\ Absent \in TaskRun
  BY ConstantCopies, CopyIsTaskRun DEF StoreOK
<1>2. <<t, h>> \in Keys /\ <<t, h>> \in Leases
  BY DEF Keys, Leases
<1>3. StoreOK'
  BY DEF ReconcileProvision, RemoveProvision, ProvisionReadFails, StoreOK
<1>4. Begin(w, "mark", <<t, h>>, Absent, Absent, h) => WorkersOK'
  BY <1>1, <1>2, BeginOK DEF PCs
<1>5. CASE ReconcileProvision(w, t, h)
  <2>1. RestOK'
    BY <1>5 DEF ReconcileProvision, RestOK, jobVars
  <2>2. CASE Begin(w, "unassignFailed", <<t, h>>, mine,
                   [mine EXCEPT !.failed = @ \cup {h}, !.assigned = None], h)
    BY <1>1, <1>2, <2>2, FailedCopy, BeginOK, <1>3, <2>1 DEF PCs
  <2>3. CASE Begin(w, FailPC(mine), <<t, h>>, mine, mine, h)
    BY <1>1, <1>2, <2>3, BeginOK, <1>3, <2>1 DEF FailPC, PCs
  <2>4. QED
    BY <1>3, <1>4, <1>5, <2>1, <2>2, <2>3 DEF ReconcileProvision
<1>6. CASE RemoveProvision(w, t, h)
  <2>1. prov' \in [Leases -> JobState] /\ processed' \subseteq Leases
    BY <1>6 DEF RemoveProvision, RestOK, JobState
  <2>2. WorkersOK' /\ RestOK'
    BY <1>6, <2>1 DEF RemoveProvision, WorkersOK, RestOK
  <2>3. QED
    BY <1>3, <2>2
<1>7. CASE ProvisionReadFails(w, t, h)
  <2>1. RestOK'
    BY <1>7, ConstantsAssumption
    DEF ProvisionReadFails, RestOK, jobVars, Fault
  <2>2. QED
    BY <1>3, <1>4, <1>7, <2>1 DEF ProvisionReadFails
<1>8. QED
  BY <1>5, <1>6, <1>7

\* Users, Tekton's jobs and the controller's handling of cleanup TaskRuns.
LEMMA EnvironmentOK ==
    ASSUME CopiesConsistent, NEW t \in Tasks,
           User(t) \/ \E h \in Hosts : Job(t, h) \/ ReconcileClean(t, h)
    PROVE  CopiesConsistent'
<1> USE DEF CopiesConsistent
<1>1. tr[t] \in Copy /\ Created(TRUE) \in Copy /\ Created(FALSE) \in Copy
  BY ConstantCopies DEF StoreOK
<1>2. CASE User(t)
  <2>1. \E o \in Copy : Put(t, o)
    BY <1>1, <1>2, UpdatedCopies
    DEF User, CreateTask, TaskCompletes, TaskCancelled, Completes, DeleteTask
  <2>2. UNCHANGED <<cache, secret, jobVars, queue, timers, worker, faults>>
    BY <1>2
    DEF User, CreateTask, TaskCompletes, TaskCancelled, Completes, DeleteTask
  <2>3. StoreOK'
    BY <2>1, <2>2, PutOK DEF StoreOK
  <2>4. WorkersOK' /\ RestOK'
    BY <2>2 DEF WorkersOK, RestOK, jobVars
  <2>5. QED
    BY <2>3, <2>4
<1>3. ASSUME NEW h \in Hosts, Job(t, h) \/ ReconcileClean(t, h)
      PROVE  CopiesConsistent'
  <2>1. UNCHANGED <<tr, watch, cache, processed, queue, timers, worker,
                    faults>>
    BY <1>3 DEF Job, ProvisionSucceeds, ProvisionFails, CleanSucceeds,
                CleanFails, ReconcileClean
  <2>2. /\ prov' \in [Leases -> JobState] /\ clean' \in [Leases -> JobState]
        /\ accounts' \subseteq Leases /\ abandoned' \subseteq Keys
        /\ secret' \in [Tasks -> {"none", "ssh", "error"}]
    <3>1. <<t, h>> \in Leases /\ {<<t, h>>, UserKey(t)} \subseteq Keys
      BY DEF Leases, Keys, UserKey
    <3>2. CASE ProvisionSucceeds(t, h)
      BY <3>1, <3>2 DEF ProvisionSucceeds, RestOK, JobState, Abandon
    <3>3. CASE ProvisionFails(t, h)
      BY <3>1, <3>3 DEF ProvisionFails, RestOK, JobState, Abandon
    <3>4. CASE CleanSucceeds(t, h) \/ CleanFails(t, h) \/ ReconcileClean(t, h)
      BY <3>1, <3>4 DEF CleanSucceeds, CleanFails, ReconcileClean, RestOK,
                        JobState, Abandon
    <3>5. QED
      BY <1>3, <3>2, <3>3, <3>4 DEF Job
  <2>3. QED
    BY <2>1, <2>2 DEF StoreOK, WorkersOK, RestOK
<1>4. QED
  BY <1>2, <1>3

\* The informer, the timers and a restart.
LEMMA ControllerOK ==
    ASSUME CopiesConsistent,
           Deliver \/ Restart \/ \E t \in Tasks : TimerFires(t)
    PROVE  CopiesConsistent'
<1> USE DEF CopiesConsistent
<1>1. CASE Deliver
  <2>1. Head(watch) \in [task : Tasks, obj : Copy]
        /\ Tail(watch) \in Seq([task : Tasks, obj : Copy])
    BY <1>1, HeadTailProperties DEF Deliver, StoreOK
  <2>2. StoreOK' /\ queue' \subseteq Tasks
    BY <1>1, <2>1 DEF Deliver, StoreOK, RestOK
  <2>3. QED
    BY <1>1, <2>2 DEF Deliver, WorkersOK, RestOK, jobVars
<1>2. CASE Restart
  <2>1. StoreOK' /\ WorkersOK'
    BY <1>2 DEF Restart, StoreOK, WorkersOK
  <2>2. RestOK'
    BY <1>2, ConstantsAssumption DEF Restart, RestOK, jobVars, Fault
  <2>3. QED
    BY <2>1, <2>2
<1>3. CASE \E t \in Tasks : TimerFires(t)
  BY <1>3 DEF TimerFires, StoreOK, WorkersOK, RestOK, jobVars
<1>4. QED
  BY <1>1, <1>2, <1>3

\* Every step keeps it.
LEMMA NextOK == CopiesConsistent /\ [Next]_vars => CopiesConsistent'
<1> SUFFICES ASSUME CopiesConsistent, [Next]_vars
             PROVE  CopiesConsistent'
  OBVIOUS
<1>1. CASE UNCHANGED vars
  BY <1>1 DEF vars, CopiesConsistent, StoreOK, WorkersOK, RestOK
<1>2. CASE Next
  <2>1. ASSUME NEW w \in Workers, WorkerFault(w) PROVE CopiesConsistent'
    BY <2>1, WorkerErrorOK, ReconcileUserOK, ReconcileProvisionOK
    DEF WorkerFault
  <2>2. QED
    BY <1>2, <2>1, ControllerOK, WorkerStepOK, ReconcileUserOK,
       ReconcileProvisionOK, EnvironmentOK DEF Next, ReconcileProvisionKey
<1>3. QED
  BY <1>1, <1>2

\* Every reachable copy of a TaskRun is consistent: the inductive invariant.
THEOREM Consistency == Spec => []CopiesConsistent
<1>1. QED
  BY InitOK, NextOK, PTL DEF Spec

\* Type correctness of the reconciler and the static pool.
THEOREM Typing == Spec => []TypeOK
<1>1. CopiesConsistent => TypeOK
  <2> SUFFICES ASSUME CopiesConsistent PROVE TypeOK
    OBVIOUS
  <2>1. Copy \subseteq TaskRun /\ Busy \subseteq Worker
    BY DEF Copy, Busy
  <2>2. Idle \in Worker
    BY ConstantCopies, CopyIsTaskRun DEF Idle, Worker, PCs
  <2>3. worker \in [Workers -> Worker]
    BY <2>1, <2>2 DEF CopiesConsistent, WorkersOK
  <2>4. tr \in [Tasks -> TaskRun] /\ cache \in [Tasks -> TaskRun]
    BY <2>1 DEF CopiesConsistent, StoreOK
  <2>5. watch \in Seq([task : Tasks, obj : TaskRun])
    <3>1. [task : Tasks, obj : Copy] \subseteq [task : Tasks, obj : TaskRun]
      BY <2>1
    <3>2. QED
      BY <3>1, SeqMonotonic DEF CopiesConsistent, StoreOK
  <2>6. QED
    BY <2>3, <2>4, <2>5 DEF CopiesConsistent, RestOK, TypeOK
<1>2. QED
  BY <1>1, Consistency, PTL

\* A TaskRun that holds a host always has the finalizer: the host is cleaned
\* up before the TaskRun can disappear.
THEOREM FinalizerKept == Spec => []AssignedKeepsFinalizer
<1>1. CopiesConsistent => AssignedKeepsFinalizer
  BY DEF CopiesConsistent, StoreOK, Copy, AssignedKeepsFinalizer
<1>2. QED
  BY <1>1, Consistency, PTL

\* A TaskRun never holds a host on its own FailedHosts list.
THEOREM FailedHostsAvoided == Spec => []AssignedNotFailed
<1>1. CopiesConsistent => AssignedNotFailed
  BY DEF CopiesConsistent, StoreOK, Copy, AssignedNotFailed
<1>2. QED
  BY <1>1, Consistency, PTL
=============================================================================
