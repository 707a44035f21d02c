-------------------------- MODULE DynamicPoolProofs --------------------------
(***************************************************************************)
(* Proofs about DynamicPool, for every number of TaskRuns and instances,   *)
(* every limit and any faults and restarts: no host is shut down under a   *)
(* TaskRun that got it in time, how far max-instances can be exceeded, and *)
(* why a host is left without a cleanup.                                   *)
(***************************************************************************)
EXTENDS DynamicPool, FiniteSetTheorems, TLAPS

TaskRecord == [phase : Phases, assigned : Instances \cup {None},
               failedHosts : SUBSET Instances, kept : SUBSET Instances,
               excused : BOOLEAN]
Task == {k \in TaskRecord : k.phase \in {"provisioning", "running", "done"}
                            => k.assigned # None}
Instance == [state : States, old : BOOLEAN]
Call == [pc : PCs, hosts : SUBSET Instances, old : SUBSET Instances,
         unjudged : SUBSET Instances, failed : BOOLEAN]

Old(i) == inst[i].old
Down(i) == inst[i].state \in {"dying", "gone"}

\* HostStaysUp is not inductive: a host is judged by one call while another,
\* which listed it before, is about to assign it, and by labels that lag.  So a
\* call takes for old only what is old, and the cache shows every TaskRun on an
\* old host that is not excused, whoever became old or was assigned first.
Shown ==
    \A t \in Tasks : /\ task[t].assigned # None /\ ~task[t].excused
                     /\ Old(task[t].assigned)
                     => cache[t] = task[t].assigned

PoolInv ==
    /\ inst \in [Instances -> Instance]
    /\ task \in [Tasks -> Task]
    /\ call \in [Tasks -> Call]
    /\ \A i \in Instances : Down(i) => Old(i)
    /\ \A t \in Tasks : \A i \in call[t].old \cup call[t].unjudged : Old(i)
    /\ cache \in [Tasks -> Instances \cup {None}]
    /\ Shown
    /\ \A t \in Tasks : task[t].phase = "done" => cache[t] = task[t].assigned
    /\ HostStaysUp

\* The invariant holds before the first reconcile.
LEMMA InitHolds == Init => PoolInv
BY PoolAssumption DEF Init, PoolInv, Instance, Task, TaskRecord, Call, States, Phases, PCs,
      NewTask, NoCall, HostStaysUp, Shown, Down

\* An idle call, and one at another point, has no list of old hosts.
LEMMA NoCallTyped ==
    /\ NoCall \in Call /\ NoCall.old = {} /\ NoCall.unjudged = {}
    /\ NoCall.pc = "idle" /\ [NoCall EXCEPT !.pc = "release"].pc = "release"
    /\ \A pc \in PCs : /\ [NoCall EXCEPT !.pc = pc] \in Call
                       /\ [NoCall EXCEPT !.pc = pc].old = {}
                       /\ [NoCall EXCEPT !.pc = pc].unjudged = {}
BY DEF NoCall, Call, PCs

\* A call that ends, or goes on without a list of old hosts.
LEMMA CallReset ==
    ASSUME PoolInv, NEW t \in Tasks, NEW pc \in PCs, Goto(t, pc) \/ Return(t)
    PROVE  /\ call' \in [Tasks -> Call]
           /\ \A u \in Tasks : call'[u].old \cup call'[u].unjudged
                                 \subseteq call[u].old \cup call[u].unjudged
BY NoCallTyped DEF PoolInv, Goto, Return

\* A step that leaves the instances as they are, gives no TaskRun a host, hides
\* none from the cache, and ends only TaskRuns the cache shows.
LEMMA SameHosts ==
    ASSUME PoolInv, UNCHANGED inst,
           call' \in [Tasks -> Call], task' \in [Tasks -> Task],
           cache' \in [Tasks -> Instances \cup {None}],
           \A u \in Tasks : call'[u].old \cup call'[u].unjudged
                              \subseteq call[u].old \cup call[u].unjudged,
           \A u \in Tasks : \/ task'[u].assigned = None
                            \/ /\ task'[u].assigned = task[u].assigned
                               /\ task'[u].excused = task[u].excused,
           \A u \in Tasks : cache[u] = task[u].assigned /\ task'[u].assigned # None
                            => cache'[u] = task[u].assigned,
           \A u \in Tasks : task'[u].phase = "done"
                            => task[u].phase = "done" \/ cache[u] = task[u].assigned
    PROVE  PoolInv'
<1>1. \A u \in Tasks : \A i \in call'[u].old \cup call'[u].unjudged : inst[i].old
  BY DEF PoolInv, Old
<1>2. HostStaysUp'
  BY DEF PoolInv, HostStaysUp
<1>3. Shown'
  BY DEF PoolInv, Shown, Old
<1>4. \A u \in Tasks : task'[u].phase = "done" => cache'[u] = task'[u].assigned
  <2>1. \A u \in Tasks : task'[u].phase = "done" => task'[u].assigned # None
    BY DEF Task
  <2>2. QED
    BY <2>1 DEF PoolInv
<1>5. QED
  BY <1>1, <1>2, <1>3, <1>4 DEF PoolInv, Old, Down

\* An error of Allocate ends the call and takes no host.
LEMMA Erring ==
    ASSUME PoolInv, NEW t \in Tasks, AllocateError(t), UNCHANGED <<inst, cache>>
    PROVE  PoolInv'
<1>1. task' \in [Tasks -> Task]
  BY ZenonT(40) DEF AllocateError, PoolInv, Task, TaskRecord, Phases
<1>2. \A u \in Tasks : /\ task'[u].assigned = task[u].assigned
                       /\ task'[u].excused = task[u].excused
                       /\ task'[u].phase = "done" => task[u].phase = "done"
  BY DEF AllocateError, PoolInv, Task, TaskRecord
<1>3. Return(t)
  BY DEF AllocateError
<1>4. QED
  BY <1>1, <1>2, <1>3, CallReset, SameHosts DEF PCs, PoolInv

-----------------------------------------------------------------------------
(***************************************************************************)
(* Each step of a reconcile.                                               *)
(***************************************************************************)

\* buildHostPool: the list.
LEMMA ListStep ==
    ASSUME PoolInv, NEW t \in Tasks, ListInstances(t)
    PROVE  PoolInv'
<1>1. call' \in [Tasks -> Call]
  BY ZenonT(40) DEF ListInstances, PoolInv, Call, PCs
<1>2. \A u \in Tasks : \A j \in call'[u].old \cup call'[u].unjudged : inst[j].old
  BY DEF ListInstances, PoolInv, Call, Old
<1>3. QED
  BY <1>1, <1>2 DEF ListInstances, PoolInv, HostStaysUp, Shown, Old, Down

\* The verdict on an old host of the list: it is shut down if it is idle.
LEMMA JudgeSteps ==
    ASSUME PoolInv, NEW t \in Tasks, NEW i \in Instances,
           isHostBusy(t, i) \/ TerminateInstance(t, i) \/ TerminateFails(t, i)
    PROVE  PoolInv'
<1>1. ASSUME Judges(t, i)
      PROVE  /\ call' \in [Tasks -> Call] /\ UNCHANGED <<task, cache>>
             /\ Old(i)
             /\ \A u \in Tasks : call'[u].old \cup call'[u].unjudged
                                    \subseteq call[u].old \cup call[u].unjudged
  <2>1. call' = [call EXCEPT ![t].unjudged = @ \ {i}] /\ i \in call[t].unjudged
    BY <1>1 DEF Judges
  <2>2. QED
    BY <1>1, <2>1, SMTT(30) DEF Judges, PoolInv, Call
<1>2. CASE isHostBusy(t, i) \/ TerminateFails(t, i)
  BY <1>1, <1>2, SameHosts DEF isHostBusy, TerminateFails, PoolInv
<1>3. CASE TerminateInstance(t, i)
  <2>1. /\ inst' \in [Instances -> Instance]
        /\ \A j \in Instances : inst'[j].old = inst[j].old
        /\ \A j \in Instances : j # i => inst'[j] = inst[j]
    BY <1>3 DEF TerminateInstance, Terminated, PoolInv, Instance, States
  <2>2. \A u \in Tasks : task[u].assigned = i => task[u].excused
    <3>1. \A u \in Tasks : cache[u] # i
      BY <1>3 DEF TerminateInstance, Idle, Users
    <3>2. QED
      BY <1>1, <1>3, <3>1, PoolAssumption DEF TerminateInstance, PoolInv, Shown
  <2>3. \A j \in Instances : Down(j)' => Old(j)'
    BY <1>1, <1>3, <2>1 DEF TerminateInstance, PoolInv, Down, Old
  <2>4. HostStaysUp'
    BY <1>1, <1>3, <2>1, <2>2 DEF TerminateInstance, PoolInv, HostStaysUp, Task, TaskRecord
  <2>5. \A u \in Tasks : \A j \in call'[u].old \cup call'[u].unjudged : inst'[j].old
    BY <1>1, <1>3, <2>1 DEF TerminateInstance, PoolInv, Call, Old
  <2>6. Shown'
    BY <1>1, <1>3, <2>1 DEF TerminateInstance, PoolInv, Shown, Old, Task, TaskRecord
  <2>7. QED
    BY <1>1, <1>3, <2>1, <2>3, <2>4, <2>5, <2>6 DEF TerminateInstance, PoolInv, Old
<1>4. QED
  BY <1>2, <1>3

\* Assign: the host is excused when it is old, and up otherwise.
LEMMA AssignStep ==
    ASSUME PoolInv, NEW t \in Tasks, Assign(t)
    PROVE  PoolInv'
<1>1. PICK i \in Selectable(t) :
         task' = [task EXCEPT ![t] = [@ EXCEPT !.phase = "provisioning",
                                               !.assigned = i, !.excused = inst[i].old]]
  BY DEF Assign
<1>2. i \in Instances
  BY DEF Selectable, PoolInv, Call
<1>3. /\ task' \in [Tasks -> Task]
      /\ task'[t].assigned = i /\ task'[t].excused = inst[i].old
      /\ task'[t].phase = "provisioning"
      /\ \A u \in Tasks \ {t} : task'[u] = task[u]
  <2> DEFINE k == [task[t] EXCEPT !.phase = "provisioning", !.assigned = i,
                                    !.excused = inst[i].old]
  <2>2. k \in Task /\ k.assigned = i /\ k.excused = inst[i].old /\ k.phase = "provisioning"
    BY <1>2, PoolAssumption DEF PoolInv, Task, TaskRecord, Phases, Instance
  <2>3. task' = [task EXCEPT ![t] = k]
    BY <1>1
  <2>4. QED
    BY <2>2, <2>3 DEF PoolInv
<1>4. HostStaysUp'
  BY <1>2, <1>3 DEF Assign, PoolInv, HostStaysUp, Down, Old
<1>5. Return(t) /\ UNCHANGED <<inst, cache>>
  BY DEF Assign
<1>6. /\ call' \in [Tasks -> Call]
      /\ \A u \in Tasks : call'[u].old \cup call'[u].unjudged
                            \subseteq call[u].old \cup call[u].unjudged
  BY <1>5, CallReset DEF PCs
<1>7. Shown'
  BY <1>2, <1>3, <1>5 DEF PoolInv, Shown, Old
<1>8. \A u \in Tasks : task'[u].phase = "done" => cache'[u] = task'[u].assigned
  BY <1>3, <1>5 DEF PoolInv
<1>9. QED
  BY <1>3, <1>4, <1>5, <1>6, <1>7, <1>8 DEF PoolInv, Old, Down

\* The other steps of Allocate: they assign no host and shut none down.
LEMMA AllocateSteps ==
    ASSUME PoolInv, NEW t \in Tasks,
           ListFails(t) \/ NoSelection(t) \/ CountInstances(t) \/ LaunchInstance(t)
           \/ AllocateFails(t) \/ LaunchRefused(t)
    PROVE  PoolInv'
<1>1. CASE ListFails(t)
  <2>1. CASE AllocateError(t)
    BY <1>1, <2>1, Erring DEF ListFails
  <2>2. CASE Goto(t, "release") /\ UNCHANGED task
    BY <1>1, <2>2, CallReset, SameHosts DEF ListFails, PCs, PoolInv
  <2>3. QED
    BY <1>1, <2>1, <2>2 DEF ListFails
<1>2. CASE NoSelection(t)
  <2>1. /\ call' \in [Tasks -> Call]
        /\ \A u \in Tasks : call'[u].old \cup call'[u].unjudged
                              \subseteq call[u].old \cup call[u].unjudged
    BY <1>2 DEF NoSelection, PoolInv, Call, PCs, NoCall
  <2>2. QED
    BY <1>2, <2>1, SameHosts DEF NoSelection, PoolInv
<1>3. CASE CountInstances(t)
  <2>1. CASE AllocateError(t)
    BY <1>3, <2>1, Erring DEF CountInstances
  <2>2. CASE (Goto(t, "launch") \/ Return(t)) /\ UNCHANGED task
    BY <1>3, <2>2, CallReset, SameHosts DEF CountInstances, PCs, PoolInv
  <2>3. QED
    BY <1>3, <2>1, <2>2 DEF CountInstances
<1>4. CASE LaunchInstance(t)
  <2>1. PICK i \in Instances : inst[i].state = "none"
                               /\ inst' = [inst EXCEPT ![i].state = "pending"]
    BY <1>4 DEF LaunchInstance
  <2>2. /\ inst' \in [Instances -> Instance]
        /\ \A j \in Instances : inst'[j].old = inst[j].old
        /\ \A j \in Instances : Down(j)' => Down(j)
    BY <2>1 DEF PoolInv, Instance, States, Down
  <2>3. /\ call' \in [Tasks -> Call]
        /\ \A u \in Tasks : call'[u].old \cup call'[u].unjudged
                              \subseteq call[u].old \cup call[u].unjudged
    BY <1>4, CallReset DEF LaunchInstance, PCs
  <2>4. HostStaysUp'
    BY <1>4, <2>2 DEF LaunchInstance, PoolInv, HostStaysUp, Down, Task, TaskRecord
  <2>5. \A u \in Tasks : \A j \in call'[u].old \cup call'[u].unjudged : inst'[j].old
    BY <2>2, <2>3 DEF PoolInv, Call, Old
  <2>6. Shown'
    BY <1>4, <2>2 DEF LaunchInstance, PoolInv, Shown, Old, Task, TaskRecord
  <2>7. QED
    BY <1>4, <2>2, <2>3, <2>4, <2>5, <2>6 DEF LaunchInstance, PoolInv, Old
<1>5. CASE AllocateFails(t) \/ LaunchRefused(t)
  BY <1>5, Erring DEF AllocateFails, LaunchRefused
<1>6. QED
  BY <1>1, <1>2, <1>3, <1>4, <1>5

\* The host of a TaskRun that is done is not idle.
LEMMA OwnHost ==
    ASSUME PoolInv, NEW t \in Tasks, Cleanup(t)
    PROVE  ~Idle(task[t].assigned)
BY DEF Cleanup, Built, PoolInv, Idle, Users

\* Deallocate and Release.
LEMMA DeallocateSteps ==
    ASSUME PoolInv, NEW t \in Tasks, Cleanup(t) \/ CleanupFails(t) \/ Release(t)
    PROVE  PoolInv'
<1>1. CASE Cleanup(t)
  <2>1. ~Idle(task[t].assigned)
    BY <1>1, OwnHost
  <2>2. UNCHANGED <<inst, task, cache>> /\ Goto(t, "release")
    BY <1>1, <2>1 DEF Cleanup
  <2>3. QED
    BY <2>2, CallReset, SameHosts DEF PCs, PoolInv
<1>2. CASE CleanupFails(t)
  BY <1>2, CallReset, SameHosts DEF CleanupFails, PCs, PoolInv
<1>3. CASE Release(t)
  <2> DEFINE k == [task[t] EXCEPT !.phase = "released", !.assigned = None,
                                 !.failedHosts = {}, !.excused = FALSE]
  <2>1. k \in Task /\ k.assigned = None /\ k.phase = "released"
    BY DEF PoolInv, Task, TaskRecord, Phases
  <2>2. task' = [task EXCEPT ![t] = k] /\ task \in [Tasks -> Task]
    BY <1>3 DEF Release, PoolInv
  <2>3. /\ task' \in [Tasks -> Task]
        /\ task'[t].assigned = None /\ task'[t].phase = "released"
        /\ \A u \in Tasks \ {t} : task'[u] = task[u]
    BY <2>1, <2>2
  <2>4. \A u \in Tasks : /\ \/ task'[u].assigned = None
                            \/ /\ task'[u].assigned = task[u].assigned
                               /\ task'[u].excused = task[u].excused
                         /\ task'[u].phase = "done" => task[u].phase = "done"
    BY <2>3
  <2>5. Return(t) /\ UNCHANGED <<inst, cache>>
    BY <1>3 DEF Release
  <2>6. QED
    BY <2>3, <2>4, <2>5, CallReset, SameHosts DEF PCs, PoolInv
<1>4. QED
  BY <1>1, <1>2, <1>3

\* What happens to a TaskRun outside the reconciler.
LEMMA TaskSteps ==
    ASSUME PoolInv, NEW t \in Tasks,
           ProvisionSucceeds(t) \/ ProvisionFails(t) \/ DeleteProvision(t) \/ Complete(t)
    PROVE  PoolInv'
<1>1. UNCHANGED <<inst, cache, call>>
  BY DEF ProvisionSucceeds, ProvisionFails, DeleteProvision, Complete
<1>2. /\ task' \in [Tasks -> Task]
      /\ \A u \in Tasks : \/ task'[u].assigned = None
                          \/ /\ task'[u].assigned = task[u].assigned
                             /\ task'[u].excused = task[u].excused
      /\ \A u \in Tasks : task'[u].phase = "done"
                          => task[u].phase = "done" \/ cache[u] = task[u].assigned
  <2>1. CASE ProvisionSucceeds(t)
    BY <2>1 DEF ProvisionSucceeds, PoolInv, Task, TaskRecord, Phases
  <2>2. CASE ProvisionFails(t)
    <3>1. task[t].assigned \in Instances
      BY <2>2 DEF ProvisionFails, PoolInv, Task, TaskRecord
    <3> DEFINE k == [task[t] EXCEPT !.phase = "new", !.assigned = None, !.excused = FALSE,
                               !.failedHosts = task[t].failedHosts \cup {task[t].assigned},
                               !.kept = task[t].kept \cup {task[t].assigned}]
    <3>3. k \in Task /\ k.assigned = None /\ k.phase = "new"
      BY <3>1 DEF PoolInv, Task, TaskRecord, Phases
    <3>4. task' = [task EXCEPT ![t] = k]
      BY <2>2 DEF ProvisionFails
    <3>5. QED
      BY <3>3, <3>4 DEF PoolInv
  <2>3. CASE DeleteProvision(t)
    <3>1. PICK i \in task[t].kept : task' = [task EXCEPT ![t].kept = @ \ {i}]
      BY <2>3 DEF DeleteProvision
    <3>2. QED
      BY <3>1 DEF PoolInv, Task, TaskRecord
  <2>4. CASE Complete(t)
    BY <2>4, SMTT(30) DEF Complete, PoolInv, Task, TaskRecord, Phases
  <2>5. QED
    BY <2>1, <2>2, <2>3, <2>4
<1>3. QED
  BY <1>1, <1>2, SameHosts DEF PoolInv

\* The cache catches up.
LEMMA DeliverStep ==
    ASSUME PoolInv, NEW t \in Tasks, Deliver(t)
    PROVE  PoolInv'
<1>1. /\ cache' \in [Tasks -> Instances \cup {None}]
      /\ \A u \in Tasks : cache[u] = task[u].assigned => cache'[u] = task[u].assigned
  BY DEF Deliver, PoolInv, Task, TaskRecord
<1>2. UNCHANGED <<inst, task, call>>
  BY DEF Deliver
<1>3. QED
  BY <1>1, <1>2, SameHosts DEF PoolInv

\* A host becomes old: the TaskRuns the cache does not show on it are excused.
LEMMA AgeStep ==
    ASSUME PoolInv, NEW i \in Instances, Age(i)
    PROVE  PoolInv'
<1>1. /\ inst' \in [Instances -> Instance]
      /\ \A j \in Instances : /\ inst[j].old => inst'[j].old
                              /\ j # i => inst'[j] = inst[j]
                              /\ Down(j)' => Down(j)
  BY DEF Age, Up, PoolInv, Instance, States, Down
<1>2. \A u \in Tasks :
         /\ task'[u] \in Task
         /\ task'[u].assigned = task[u].assigned /\ task'[u].phase = task[u].phase
         /\ task'[u].excused = (task[u].excused \/ (task[u].assigned = i /\ cache[u] # i))
  <2>1. ASSUME NEW u \in Tasks
        PROVE  task'[u] = IF task[u].assigned = i /\ cache[u] # i
                          THEN [task[u] EXCEPT !.excused = TRUE] ELSE task[u]
    BY DEF Age
  <2>2. ASSUME NEW u \in Tasks, task[u].assigned = i, cache[u] # i
        PROVE  /\ [task[u] EXCEPT !.excused = TRUE] \in Task
               /\ [task[u] EXCEPT !.excused = TRUE].assigned = task[u].assigned
               /\ [task[u] EXCEPT !.excused = TRUE].phase = task[u].phase
               /\ [task[u] EXCEPT !.excused = TRUE].excused = TRUE
    BY DEF PoolInv, Task, TaskRecord
  <2>3. \A u \in Tasks : task[u] \in Task /\ task[u].excused \in BOOLEAN
    BY DEF PoolInv, Task, TaskRecord
  <2>4. QED
    BY <2>1, <2>2, <2>3
<1>3. task' \in [Tasks -> Task] /\ UNCHANGED <<cache, call>>
  BY <1>2 DEF Age
<1>4. HostStaysUp'
  BY <1>1, <1>2 DEF PoolInv, HostStaysUp, Down, Task, TaskRecord
<1>5. Shown'
  BY <1>1, <1>2, <1>3 DEF PoolInv, Shown, Old, Task, TaskRecord
<1>6. \A u \in Tasks : \A j \in call'[u].old \cup call'[u].unjudged : inst'[j].old
  BY <1>1, <1>3 DEF PoolInv, Call, Old
<1>7. \A j \in Instances : Down(j)' => inst'[j].old
  BY <1>1 DEF PoolInv, Old
<1>8. QED
  BY <1>1, <1>2, <1>3, <1>4, <1>5, <1>6, <1>7 DEF PoolInv, Old

\* What else happens to an instance: only one that was terminated goes.
LEMMA CloudSteps ==
    ASSUME PoolInv, NEW i \in Instances, Answer(i) \/ Mute(i) \/ Die(i)
    PROVE  PoolInv'
<1>1. UNCHANGED <<task, cache, call>>
  BY DEF Answer, Mute, Die
<1>2. /\ inst' \in [Instances -> Instance]
      /\ \A j \in Instances : inst[j].old = inst'[j].old
      /\ \A j \in Instances : Down(j)' => Down(j)
  <2>1. CASE Answer(i)
    BY <2>1 DEF Answer, PoolInv, Instance, States, Down
  <2>2. CASE Mute(i)
    BY <2>2 DEF Mute, PoolInv, Instance, States, Down
  <2>3. CASE Die(i)
    BY <2>3 DEF Die, PoolInv, Instance, States, Down
  <2>4. QED
    BY <2>1, <2>2, <2>3
<1>3. HostStaysUp'
  BY <1>1, <1>2 DEF PoolInv, HostStaysUp, Down, Task, TaskRecord
<1>4. Shown'
  BY <1>1, <1>2 DEF PoolInv, Shown, Old, Task, TaskRecord
<1>5. \A u \in Tasks : \A j \in call'[u].old \cup call'[u].unjudged : inst'[j].old
  BY <1>1, <1>2 DEF PoolInv, Call, Old
<1>6. QED
  BY <1>1, <1>2, <1>3, <1>4, <1>5 DEF PoolInv, Old

\* A restart forgets the calls, and the cache is filled anew.
LEMMA RestartStep ==
    ASSUME PoolInv, Restart
    PROVE  PoolInv'
<1>1. /\ call' \in [Tasks -> Call]
      /\ \A u \in Tasks : call'[u].old \cup call'[u].unjudged
                            \subseteq call[u].old \cup call[u].unjudged
  BY NoCallTyped DEF Restart
<1>2. /\ cache' \in [Tasks -> Instances \cup {None}]
      /\ \A u \in Tasks : cache'[u] = task[u].assigned
  BY DEF Restart, PoolInv, Task, TaskRecord
<1>3. QED
  BY <1>1, <1>2, SameHosts DEF Restart, PoolInv

\* PoolInv is inductive.
LEMMA NextHolds == PoolInv /\ [Next]_vars => PoolInv'
<1>1. SUFFICES ASSUME PoolInv, [Next]_vars PROVE PoolInv'
  OBVIOUS
<1>2. CASE UNCHANGED vars
  BY <1>1, <1>2 DEF vars, PoolInv, HostStaysUp, Shown, Down, Old
<1>3. ASSUME NEW t \in Tasks, Step(t) PROVE PoolInv'
  BY <1>1, <1>3, ListStep, JudgeSteps, AssignStep, AllocateSteps, DeallocateSteps
     DEF Step
<1>4. ASSUME NEW t \in Tasks, NEW i \in Instances, TerminateFails(t, i) PROVE PoolInv'
  BY <1>1, <1>4, JudgeSteps
<1>5. ASSUME NEW t \in Tasks, ListFails(t) \/ AllocateFails(t) \/ CleanupFails(t)
      PROVE  PoolInv'
  BY <1>1, <1>5, AllocateSteps, DeallocateSteps
<1>6. CASE Outside
  BY <1>1, <1>6, TaskSteps, DeliverStep, CloudSteps DEF Outside
<1>7. ASSUME NEW i \in Instances, Mute(i) \/ Age(i) PROVE PoolInv'
  BY <1>1, <1>7, CloudSteps, AgeStep
<1>8. CASE Restart
  BY <1>1, <1>8, RestartStep
<1>9. QED
  BY <1>1, <1>2, <1>3, <1>4, <1>5, <1>6, <1>7, <1>8 DEF Next

\* A TaskRun keeps its host: none is shut down under it unless it was old
\* already when it was assigned, or became so before the cache showed the
\* assignment, however far the cache lags otherwise, whatever reconciles judge
\* the host and whichever calls fail (dynamicpool.go, buildHostPool and
\* isHostIdle).
THEOREM PoolHostStaysUp == Spec => []HostStaysUp
<1>1. PoolInv => HostStaysUp
  BY DEF PoolInv
<1>2. QED
  BY <1>1, InitHolds, NextHolds, PTL DEF Spec

-----------------------------------------------------------------------------
(***************************************************************************)
(* The number of instances that are not old.                               *)
(***************************************************************************)

LiveOnes == {i \in Instances : Live(i)}

\* What a call has listed as old was launched: it is live or gone.
Listed == \A t \in Tasks : \A i \in call[t].old : inst[i].state # "none"

BoundInv == PoolInv /\ Listed /\ YoungBound

\* Most steps leave the young instances, and the calls about to launch one, as
\* they are or fewer, bring no instance back and list none that is not there.
Calm == /\ Young' \subseteq Young /\ Launching' \subseteq Launching
        /\ Gone \subseteq Gone' /\ Listed'

\* The sets that are counted are finite, before a step and after it.
LEMMA CountedFinite ==
    /\ IsFiniteSet(Young) /\ IsFiniteSet(Young')
    /\ IsFiniteSet(Launching) /\ IsFiniteSet(Launching')
    /\ IsFiniteSet(Gone) /\ IsFiniteSet(Gone') /\ IsFiniteSet(LiveOnes)
<1>1. /\ Young \subseteq Instances /\ Young' \subseteq Instances
      /\ Gone \subseteq Instances /\ Gone' \subseteq Instances
      /\ LiveOnes \subseteq Instances
      /\ Launching \subseteq Tasks /\ Launching' \subseteq Tasks
  BY DEF Young, Gone, LiveOnes, Launching
<1>2. QED
  BY <1>1, FS_Subset, PoolAssumption

\* Their numbers.
LEMMA Numbers ==
    /\ Cardinality(Young) \in Nat /\ Cardinality(Young') \in Nat
    /\ Cardinality(Launching) \in Nat /\ Cardinality(Launching') \in Nat
    /\ Cardinality(Gone) \in Nat /\ Cardinality(Gone') \in Nat
    /\ Cardinality(LiveOnes) \in Nat /\ Cardinality(Tasks) \in Nat
    /\ Cardinality(Launching') <= Cardinality(Tasks)
<1>1. Launching' \subseteq Tasks
  BY DEF Launching
<1>2. Cardinality(Launching') <= Cardinality(Tasks)
  BY <1>1, FS_Subset, PoolAssumption
<1>3. QED
  BY <1>2, CountedFinite, FS_CardinalityType, PoolAssumption

\* Calm steps keep the bound.
LEMMA CalmHolds ==
    ASSUME BoundInv, Calm
    PROVE  YoungBound'
<1>1. /\ Cardinality(Young') <= Cardinality(Young)
      /\ Cardinality(Launching') <= Cardinality(Launching)
      /\ Cardinality(Gone) <= Cardinality(Gone')
  BY CountedFinite, FS_Subset DEF Calm
<1>2. Cardinality(Young) + Cardinality(Launching)
         <= MaxInstances + Cardinality(Tasks) - 1 + Cardinality(Gone)
  BY DEF BoundInv, YoungBound
<1>3. Cardinality(Young') + Cardinality(Launching')
         <= MaxInstances + Cardinality(Tasks) - 1 + Cardinality(Gone')
  BY <1>1, <1>2, Numbers, PoolAssumption
<1>4. QED
  BY <1>3 DEF YoungBound

\* When a call finds room there are fewer than MaxInstances young instances,
\* but for those it listed as old and that have gone before it counted.
LEMMA RoomFound ==
    ASSUME BoundInv, NEW t \in Tasks, HasRoom(t)
    PROVE  Cardinality(Young) < MaxInstances + Cardinality(Gone)
<1> DEFINE O == call[t].old
<1>1. O \subseteq Instances /\ \A i \in O : inst[i].old /\ inst[i].state # "none"
  BY DEF BoundInv, PoolInv, Call, Old, Listed
<1>2. /\ Young \subseteq LiveOnes /\ O \ Gone \subseteq LiveOnes
      /\ Young \cap (O \ Gone) = {}
  BY <1>1 DEF Young, LiveOnes, Live, Gone, BoundInv, PoolInv, Instance, States
<1>3. IsFiniteSet(O) /\ IsFiniteSet(O \ Gone) /\ IsFiniteSet(O \cap Gone)
  <2>1. O \ Gone \subseteq Instances /\ O \cap Gone \subseteq Instances
    BY <1>1
  <2>2. QED
    BY <1>1, <2>1, FS_Subset, PoolAssumption
<1>4. Cardinality(O \ Gone) = Cardinality(O) - Cardinality(O \cap Gone)
  BY <1>3, FS_Difference
<1>5. Cardinality(O \cap Gone) <= Cardinality(Gone)
  <2>1. O \cap Gone \subseteq Gone
    OBVIOUS
  <2>2. QED
    BY <2>1, CountedFinite, FS_Subset
<1>6. Cardinality(Young \cup (O \ Gone)) = Cardinality(Young) + Cardinality(O \ Gone)
  <2>1. Cardinality(Young \cup (O \ Gone))
          = Cardinality(Young) + Cardinality(O \ Gone) - Cardinality(Young \cap (O \ Gone))
    BY <1>3, CountedFinite, FS_Union
  <2>2. Cardinality(Young \cap (O \ Gone)) = 0
    BY <1>2, FS_EmptySet
  <2>3. Cardinality(O \ Gone) \in Nat
    BY <1>3, FS_CardinalityType
  <2>4. QED
    BY <2>1, <2>2, <2>3, Numbers
<1>7. Cardinality(Young \cup (O \ Gone)) <= Cardinality(LiveOnes)
  <2>1. Young \cup (O \ Gone) \subseteq LiveOnes
    BY <1>2
  <2>2. QED
    BY <2>1, CountedFinite, FS_Subset
<1>8. Cardinality(LiveOnes) - Cardinality(O) < MaxInstances
  BY DEF HasRoom, LiveOnes
<1>9. /\ Cardinality(O) \in Nat /\ Cardinality(O \ Gone) \in Nat
      /\ Cardinality(O \cap Gone) \in Nat
  BY <1>3, FS_CardinalityType
<1>10. QED
  BY <1>4, <1>5, <1>6, <1>7, <1>8, <1>9, Numbers, PoolAssumption

\* A call that found room is about to launch an instance.
LEMMA CountHolds ==
    ASSUME BoundInv, NEW t \in Tasks, CountInstances(t)
    PROVE  YoungBound' /\ Listed'
<1>1. UNCHANGED inst /\ call \in [Tasks -> Call]
  BY DEF CountInstances, BoundInv, PoolInv
<1>2. Young' = Young /\ Gone' = Gone
  BY <1>1 DEF Young, Gone
<1>3. ASSUME NEW pc \in PCs, Goto(t, pc) \/ Return(t) PROVE Listed'
  BY <1>1, <1>3, NoCallTyped DEF Goto, Return, Listed, BoundInv
<1>4. Listed'
  BY <1>3 DEF CountInstances, AllocateError, PCs
<1>5. CASE HasRoom(t)
  <2>1. Cardinality(Young) < MaxInstances + Cardinality(Gone)
    BY <1>5, RoomFound
  <2>2. Cardinality(Young') + Cardinality(Launching')
          <= MaxInstances + Cardinality(Tasks) - 1 + Cardinality(Gone')
    BY <1>2, <2>1, Numbers, PoolAssumption
  <2>3. QED
    BY <1>4, <2>2 DEF YoungBound
<1>6. CASE ~HasRoom(t)
  <2>1. Return(t)
    BY <1>6 DEF CountInstances, AllocateError
  <2>2. Launching' \subseteq Launching
    BY <1>1, <2>1 DEF Return, NoCall, Launching, At
  <2>3. QED
    BY <1>2, <1>4, <2>2, CalmHolds DEF Calm
<1>7. QED
  BY <1>5, <1>6

\* A launch turns one about to be into one that is.
LEMMA LaunchHolds ==
    ASSUME BoundInv, NEW t \in Tasks, LaunchInstance(t)
    PROVE  YoungBound' /\ Listed'
<1>1. PICK i \in Instances : inst[i].state = "none"
                             /\ inst' = [inst EXCEPT ![i].state = "pending"]
  BY DEF LaunchInstance
<1>2. /\ inst \in [Instances -> Instance] /\ call \in [Tasks -> Call]
      /\ Return(t) /\ At(t, "launch")
  BY DEF BoundInv, PoolInv, LaunchInstance
<1>3. Listed'
  BY <1>1, <1>2, NoCallTyped DEF Return, Listed, BoundInv, Instance, Call
<1>4. /\ Young' \subseteq Young \cup {i} /\ Gone' = Gone
      /\ Launching' = Launching \ {t} /\ t \in Launching
  BY <1>1, <1>2 DEF Young, Gone, Launching, At, Return, NoCall, Instance
<1>5. Cardinality(Young') <= Cardinality(Young) + 1
  <2>1. /\ IsFiniteSet(Young \cup {i})
        /\ Cardinality(Young \cup {i}) \in {Cardinality(Young), Cardinality(Young) + 1}
    BY CountedFinite, FS_AddElement
  <2>2. Cardinality(Young') <= Cardinality(Young \cup {i})
    BY <1>4, <2>1, FS_Subset
  <2>3. QED
    BY <2>1, <2>2, Numbers
<1>6. Cardinality(Launching') = Cardinality(Launching) - 1
  BY <1>4, CountedFinite, FS_RemoveElement
<1>7. Cardinality(Young) + Cardinality(Launching)
         <= MaxInstances + Cardinality(Tasks) - 1 + Cardinality(Gone)
  BY DEF BoundInv, YoungBound
<1>8. Cardinality(Young') + Cardinality(Launching')
         <= MaxInstances + Cardinality(Tasks) - 1 + Cardinality(Gone')
  BY <1>4, <1>5, <1>6, <1>7, Numbers, PoolAssumption
<1>9. QED
  BY <1>3, <1>8 DEF YoungBound

\* A call that goes on to any other step than a launch, and lists nothing new.
LEMMA CallCalm ==
    ASSUME BoundInv, UNCHANGED inst, call' \in [Tasks -> Call],
           \A u \in Tasks : \/ call'[u] = call[u]
                            \/ /\ call'[u].pc # "launch"
                               /\ call'[u].old \subseteq call[u].old
    PROVE  Calm
BY DEF Calm, Young, Gone, Launching, At, Listed, BoundInv, PoolInv

\* The same of a call that ends or goes to another step.
LEMMA ResetCalm ==
    ASSUME BoundInv, NEW t \in Tasks, UNCHANGED inst,
           Return(t) \/ Goto(t, "release")
    PROVE  Calm
<1>1. /\ call' \in [Tasks -> Call]
      /\ \A u \in Tasks : \/ call'[u] = call[u]
                          \/ call'[u].pc # "launch" /\ call'[u].old = {}
  BY NoCallTyped DEF BoundInv, PoolInv, Return, Goto, PCs
<1>2. QED
  BY <1>1, CallCalm

\* The other steps of a reconcile are calm.
LEMMA StepCalm ==
    ASSUME BoundInv, NEW t \in Tasks,
           ListInstances(t) \/ ListFails(t) \/ Assign(t) \/ NoSelection(t)
           \/ AllocateFails(t) \/ LaunchRefused(t) \/ Cleanup(t) \/ CleanupFails(t)
           \/ Release(t)
    PROVE  Calm
<1>1. CASE ListInstances(t)
  <2>1. /\ UNCHANGED inst /\ call' \in [Tasks -> Call]
        /\ \A u \in Tasks : /\ call'[u] = call[u] \/ call'[u].pc = "judge"
                            /\ \A i \in call'[u].old : i \in call[u].old \/ Up(i)
    BY <1>1, ZenonT(40) DEF ListInstances, BoundInv, PoolInv, Call, PCs
  <2>2. QED
    BY <2>1 DEF Calm, Young, Gone, Launching, At, Listed, BoundInv, Up
<1>2. CASE NoSelection(t)
  <2>1. /\ UNCHANGED inst /\ call' \in [Tasks -> Call]
        /\ \A u \in Tasks : \/ call'[u] = call[u]
                            \/ /\ call'[u].pc # "launch"
                               /\ call'[u].old \subseteq call[u].old
    BY <1>2 DEF NoSelection, BoundInv, PoolInv, Call, PCs, NoCall
  <2>2. QED
    BY <2>1, CallCalm
<1>3. CASE Cleanup(t)
  <2>1. ~Idle(task[t].assigned)
    BY <1>3, OwnHost DEF BoundInv
  <2>2. QED
    BY <1>3, <2>1, ResetCalm DEF Cleanup
<1>4. CASE \/ ListFails(t) \/ Assign(t) \/ AllocateFails(t) \/ LaunchRefused(t)
           \/ CleanupFails(t) \/ Release(t)
  BY <1>4, ResetCalm
     DEF ListFails, CleanupFails, Assign, AllocateFails, LaunchRefused, Release, AllocateError
<1>5. QED
  BY <1>1, <1>2, <1>3, <1>4

\* So is the verdict on an old host: what is terminated is no longer young.
LEMMA JudgeCalm ==
    ASSUME BoundInv, NEW t \in Tasks, NEW i \in Instances,
           isHostBusy(t, i) \/ TerminateInstance(t, i) \/ TerminateFails(t, i)
    PROVE  Calm
<1>1. /\ \A u \in Tasks : call'[u].old = call[u].old /\ call'[u].pc = call[u].pc
      /\ call \in [Tasks -> Call]
  <2>1. call \in [Tasks -> Call]
    BY DEF BoundInv, PoolInv
  <2>2. call' = [call EXCEPT ![t].unjudged = @ \ {i}]
    BY DEF isHostBusy, TerminateInstance, TerminateFails, Judges
  <2>3. QED
    BY <2>1, <2>2 DEF Call
<1>2. inst' = inst \/ inst' = Terminated(i)
  BY DEF isHostBusy, TerminateInstance, TerminateFails
<1>3. \A j \in Instances :
         \/ inst'[j] = inst[j]
         \/ inst[j].state # "gone" /\ inst'[j].state = "dying"
  BY <1>2 DEF Terminated, BoundInv, PoolInv, Instance
<1>4. QED
  BY <1>1, <1>3 DEF Calm, Young, Gone, Launching, At, Listed, BoundInv, Call

\* And what happens outside the calls, or ends them all.
LEMMA OutsideCalm ==
    ASSUME BoundInv, Outside \/ Restart \/ (\E i \in Instances : Mute(i) \/ Age(i))
    PROVE  Calm
<1>1. ASSUME NEW i \in Instances, Answer(i) \/ Mute(i) \/ Age(i) \/ Die(i)
      PROVE  Calm
  <2>1. UNCHANGED call
    BY <1>1 DEF Answer, Mute, Age, Die
  <2>2. \A j \in Instances :
           /\ inst'[j].state = "none" => inst[j].state = "none"
           /\ inst[j].state = "gone" => inst'[j].state = "gone"
           /\ inst'[j].state \in {"pending", "up"} => inst[j].state \in {"pending", "up"}
           /\ inst[j].old => inst'[j].old
    BY <1>1 DEF Answer, Mute, Age, Die, Up, BoundInv, PoolInv, Instance, States
  <2>3. QED
    BY <2>1, <2>2 DEF Calm, Young, Gone, Launching, At, Listed, BoundInv, PoolInv, Call, Instance
<1>2. ASSUME NEW t \in Tasks,
             ProvisionSucceeds(t) \/ ProvisionFails(t) \/ DeleteProvision(t) \/ Complete(t)
             \/ Deliver(t)
      PROVE  Calm
  <2>1. UNCHANGED <<inst, call>>
    BY <1>2 DEF ProvisionSucceeds, ProvisionFails, DeleteProvision, Complete, Deliver
  <2>2. QED
    BY <2>1 DEF Calm, Young, Gone, Launching, At, Listed, BoundInv
<1>3. CASE Restart
  BY <1>3, NoCallTyped DEF Restart, NoCall, Calm, Young, Gone, Launching, At, Listed
<1>4. QED
  BY <1>1, <1>2, <1>3 DEF Outside

\* BoundInv is inductive.
LEMMA BoundNext == BoundInv /\ [Next]_vars => BoundInv'
<1>1. SUFFICES ASSUME BoundInv, [Next]_vars PROVE BoundInv'
  OBVIOUS
<1>2. PoolInv'
  BY <1>1, NextHolds DEF BoundInv
<1>3. ASSUME Calm PROVE YoungBound' /\ Listed'
  BY <1>1, <1>3, CalmHolds DEF Calm
<1>4. ASSUME UNCHANGED vars PROVE YoungBound' /\ Listed'
  BY <1>3, <1>4, <1>1 DEF vars, Calm, Young, Gone, Launching, At, Listed, BoundInv
<1>5. ASSUME NEW t \in Tasks, Step(t) PROVE YoungBound' /\ Listed'
  BY <1>1, <1>3, <1>5, StepCalm, JudgeCalm, CountHolds, LaunchHolds DEF Step
<1>6. ASSUME NEW t \in Tasks, ListFails(t) \/ AllocateFails(t) \/ CleanupFails(t)
                              \/ \E i \in Instances : TerminateFails(t, i)
      PROVE  YoungBound' /\ Listed'
  BY <1>1, <1>3, <1>6, StepCalm, JudgeCalm
<1>7. ASSUME Outside \/ Restart \/ \E i \in Instances : Mute(i) \/ Age(i)
      PROVE  YoungBound' /\ Listed'
  BY <1>1, <1>3, <1>7, OutsideCalm
<1>8. YoungBound' /\ Listed'
  BY <1>1, <1>4, <1>5, <1>6, <1>7 DEF Next
<1>9. QED
  BY <1>2, <1>8 DEF BoundInv

\* Before the first reconcile there is no instance, and nobody launches one.
LEMMA BoundInit == Init => BoundInv
<1>1. SUFFICES ASSUME Init PROVE BoundInv
  OBVIOUS
<1>2. PoolInv
  BY <1>1, InitHolds
<1>3. Young = {} /\ Launching = {} /\ Gone = {}
  BY <1>1 DEF Init, Young, Launching, Gone, At, NoCall
<1>4. Listed
  BY <1>1 DEF Init, Listed, NoCall
<1>5. Cardinality(Tasks) # 0
  BY FS_EmptySet, PoolAssumption
<1>6. YoungBound
  BY <1>3, <1>5, Numbers, FS_EmptySet, PoolAssumption DEF YoungBound
<1>7. QED
  BY <1>2, <1>4, <1>6 DEF BoundInv

\* The instances of a platform that are not old, those about to be launched
\* included, exceed max-instances by at most the other TaskRuns reconciled and
\* the instances that have gone, however calls that count and calls that launch
\* interleave (dynamicpool.go, Allocate).
THEOREM YoungBounded == Spec => []YoungBound
<1>1. BoundInv => YoungBound
  BY DEF BoundInv
<1>2. QED
  BY <1>1, BoundInit, BoundNext, PTL DEF Spec

-----------------------------------------------------------------------------
(***************************************************************************)
(* The hosts that are not cleaned up.                                      *)
(***************************************************************************)

Answers(i) == inst[i].state \in {"up", "dying", "gone"}

\* As long as nothing fails a host that was given to a TaskRun, or listed,
\* answers until it is shut down, so that a TaskRun that is done and does not
\* find its host in the list has an old one.
Quiet ==
    /\ \A t \in Tasks : task[t].assigned # None => Answers(task[t].assigned)
    /\ \A t \in Tasks : \A i \in call[t].hosts : Answers(i)
    /\ \A t \in Tasks : At(t, "judge") => task[t].phase \in {"new", "done"}
    /\ \A t \in Tasks : /\ At(t, "judge") /\ task[t].phase = "done"
                        /\ task[t].assigned \notin call[t].hosts
                        => Old(task[t].assigned)
    /\ \A i \in dirty : Old(i)

DirtyInv == /\ PoolInv
            /\ dirty \subseteq Instances /\ due \subseteq Instances
            /\ faults \in 0..MaxFaults
            /\ faults = 0 => Quiet

\* A call that ends, or goes on without a list, has no hosts to judge.
LEMMA NoCallQuiet ==
    /\ NoCall.hosts = {} /\ NoCall.pc = "idle"
    /\ \A pc \in PCs : /\ [NoCall EXCEPT !.pc = pc].hosts = {}
                       /\ [NoCall EXCEPT !.pc = pc].pc = pc
BY DEF NoCall, PCs

\* A step that mutes no host, gives none to a TaskRun, dirties none, and leaves
\* the calls that judge as they are, or ends them.
LEMMA QuietStep ==
    ASSUME DirtyInv, Quiet, dirty' \subseteq dirty,
           \A i \in Instances : /\ Answers(i) => Answers(i)'
                                /\ Old(i) => Old(i)',
           \A u \in Tasks : task'[u].assigned \in {None, task[u].assigned},
           \A u \in Tasks : \/ call'[u].hosts = call[u].hosts /\ call'[u].pc = call[u].pc
                            \/ call'[u].hosts = {} /\ call'[u].pc # "judge",
           \A u \in Tasks : At(u, "judge") /\ At(u, "judge")'
                            => /\ task'[u].phase = task[u].phase
                               /\ task'[u].assigned = task[u].assigned
    PROVE  Quiet'
<1>1. /\ \A u \in Tasks : task[u].assigned \in Instances \cup {None}
      /\ \A u \in Tasks : call[u].hosts \subseteq Instances
      /\ \A u \in Tasks : task[u].phase = "done" => task[u].assigned \in Instances
  BY DEF DirtyInv, PoolInv, Task, TaskRecord, Call
<1>2. \A u \in Tasks : task'[u].assigned # None => Answers(task[u].assigned)'
  BY <1>1 DEF Quiet, Answers
<1>3. \A u \in Tasks : \A i \in call'[u].hosts : Answers(i)'
  BY <1>1 DEF Quiet, Answers
<1>4. \A u \in Tasks : At(u, "judge")' => task'[u].phase \in {"new", "done"}
  BY DEF Quiet, At
<1>5. \A u \in Tasks : /\ At(u, "judge")' /\ task'[u].phase = "done"
                       /\ task'[u].assigned \notin call'[u].hosts
                       => inst'[task'[u].assigned].old
  BY <1>1 DEF Quiet, At, Old
<1>6. \A i \in dirty' : Old(i)'
  BY DEF Quiet, DirtyInv, Old
<1>7. QED
  BY <1>2, <1>3, <1>4, <1>5, <1>6 DEF Quiet, Answers, Old, At

\* A step of a call that dirties no host, gives none to a TaskRun and leaves the
\* instances as they are: the call ends, or goes on without a list.
LEMMA QuietEnd ==
    ASSUME DirtyInv, Quiet, NEW t \in Tasks, UNCHANGED inst, dirty' \subseteq dirty,
           Return(t) \/ \E pc \in PCs \ {"judge"} : Goto(t, pc),
           task' = task \/ AllocateError(t) \/ Release(t)
    PROVE  Quiet'
<1>1. /\ task \in [Tasks -> Task] /\ call \in [Tasks -> Call]
  BY DEF DirtyInv, PoolInv
<1>2. \A u \in Tasks \ {t} : task'[u] = task[u] /\ call'[u] = call[u]
  BY <1>1 DEF AllocateError, Release, Return, Goto
<1>3. call'[t].hosts = {} /\ call'[t].pc # "judge"
  BY <1>1, NoCallQuiet DEF Return, Goto
<1>4. task'[t].assigned \in {None, task[t].assigned}
  BY <1>1 DEF AllocateError, Release, Task, TaskRecord
<1>5. \A i \in Instances : (Answers(i) => Answers(i)') /\ (Old(i) => Old(i)')
  BY DEF Answers, Old
<1>6. QED
  BY <1>2, <1>3, <1>4, <1>5, QuietStep DEF At

\* The list: a TaskRun that is done and whose host is not in it has a host that
\* is old, or shut down and old.
LEMMA QuietList ==
    ASSUME DirtyInv, Quiet, NEW t \in Tasks, ListInstances(t)
    PROVE  Quiet'
<1>1. /\ task \in [Tasks -> Task] /\ call \in [Tasks -> Call] /\ inst \in [Instances -> Instance]
      /\ \A i \in Instances : Down(i) => Old(i)
  BY DEF DirtyInv, PoolInv
<1>2. /\ UNCHANGED <<inst, task, dirty>>
      /\ call'[t].hosts = {i \in Instances : Up(i) /\ ~Old(i)}
      /\ \A u \in Tasks \ {t} : call'[u] = call[u]
      /\ task[t].phase \in {"new", "done"}
  BY <1>1 DEF ListInstances, Reconciles, Call, Old
<1>3. ASSUME task[t].phase = "done", task[t].assigned \notin call'[t].hosts
      PROVE  Old(task[t].assigned)
  <2>1. task[t].assigned \in Instances /\ Answers(task[t].assigned)
    BY <1>1, <1>3 DEF Task, TaskRecord, Quiet
  <2>2. QED
    BY <1>1, <1>2, <1>3, <2>1 DEF Answers, Up, Down
<1>4. \A u \in Tasks : \A i \in call'[u].hosts : Answers(i)
  BY <1>2 DEF Quiet, Answers, Up
<1>5. QED
  BY <1>2, <1>3, <1>4 DEF Quiet, Answers, Old, At

\* A verdict on an old host may shut it down: it answered, and is old.
LEMMA QuietJudge ==
    ASSUME DirtyInv, Quiet, NEW t \in Tasks, NEW i \in Instances,
           isHostBusy(t, i) \/ TerminateInstance(t, i)
    PROVE  Quiet'
<1>1. /\ call \in [Tasks -> Call] /\ inst \in [Instances -> Instance]
  BY DEF DirtyInv, PoolInv
<1>2. /\ UNCHANGED <<task, dirty>>
      /\ \A u \in Tasks : call'[u].hosts = call[u].hosts /\ call'[u].pc = call[u].pc
  BY <1>1 DEF isHostBusy, TerminateInstance, Judges, Call
<1>3. inst' = inst \/ inst' = Terminated(i)
  BY DEF isHostBusy, TerminateInstance
<1>4. \A j \in Instances : (Answers(j) => Answers(j)') /\ (Old(j) => Old(j)')
  BY <1>1, <1>3 DEF Terminated, Answers, Old, Instance
<1>5. QED
  BY <1>2, <1>4, QuietStep DEF At

\* The host a TaskRun gets was listed, so it answers.
LEMMA QuietAssign ==
    ASSUME DirtyInv, Quiet, NEW t \in Tasks, Assign(t)
    PROVE  Quiet'
<1>1. /\ task \in [Tasks -> Task] /\ call \in [Tasks -> Call]
  BY DEF DirtyInv, PoolInv
<1>2. UNCHANGED <<inst, dirty>> /\ Return(t)
  BY DEF Assign
<1>3. \E i \in call[t].hosts : task'[t].assigned = i
  BY <1>1 DEF Assign, Selectable, Task, TaskRecord
<1>4. /\ \A u \in Tasks \ {t} : task'[u] = task[u] /\ call'[u] = call[u]
      /\ call'[t].hosts = {} /\ call'[t].pc # "judge"
  BY <1>1, <1>2, NoCallQuiet DEF Assign, Return
<1>5. \A u \in Tasks : task'[u].assigned # None => Answers(task'[u].assigned)
  BY <1>3, <1>4 DEF Quiet
<1>6. QED
  BY <1>2, <1>4, <1>5 DEF Quiet, Answers, Old, At

\* A host that is not in the list is left as it is, and is old.
LEMMA QuietCleanup ==
    ASSUME DirtyInv, Quiet, NEW t \in Tasks, Cleanup(t)
    PROVE  Quiet'
<1>1. /\ call \in [Tasks -> Call] /\ Goto(t, "release") /\ UNCHANGED task
      /\ ~Idle(task[t].assigned)
  BY OwnHost DEF DirtyInv, PoolInv, Cleanup
<1>2. UNCHANGED inst
  BY <1>1 DEF Cleanup
<1>3. \A i \in dirty' : Old(i)
  BY DEF Cleanup, Built, Quiet
<1>4. /\ \A u \in Tasks \ {t} : call'[u] = call[u]
      /\ call'[t].hosts = {} /\ call'[t].pc # "judge"
  BY <1>1, NoCallQuiet DEF Goto, PCs
<1>5. QED
  BY <1>1, <1>2, <1>3, <1>4 DEF Quiet, Answers, Old, At

\* What happens outside the calls without a fault: no TaskRun that is judging
\* is touched, and an instance that answers does so until it is gone.
LEMMA QuietOutside ==
    ASSUME DirtyInv, Quiet, Outside \/ (\E i \in Instances : Age(i))
    PROVE  Quiet'
<1>1. /\ task \in [Tasks -> Task] /\ inst \in [Instances -> Instance]
  BY DEF DirtyInv, PoolInv
<1>2. ASSUME NEW t \in Tasks,
             ProvisionSucceeds(t) \/ ProvisionFails(t) \/ DeleteProvision(t) \/ Complete(t)
             \/ Deliver(t)
      PROVE  Quiet'
  <2>1. UNCHANGED <<inst, call, dirty>>
    BY <1>2 DEF ProvisionSucceeds, ProvisionFails, DeleteProvision, Complete, Deliver
  <2>2. CASE ProvisionFails(t)
    <3>1. /\ task[t].phase = "provisioning" /\ task'[t].assigned = None
          /\ \A u \in Tasks \ {t} : task'[u] = task[u]
      BY <1>1, <2>2 DEF ProvisionFails, Task, TaskRecord
    <3>2. QED
      BY <2>1, <3>1, QuietStep DEF Quiet, Answers, Old, At
  <2>3. CASE ProvisionSucceeds(t) \/ DeleteProvision(t) \/ Complete(t) \/ Deliver(t)
    <3>1. \A u \in Tasks : /\ task'[u].assigned = task[u].assigned
                           /\ task[u].phase \in {"new", "done"}
                              => task'[u].phase = task[u].phase
      BY <1>1, <2>3 DEF ProvisionSucceeds, DeleteProvision, Complete, Deliver, Task, TaskRecord
    <3>2. QED
      BY <2>1, <3>1, QuietStep DEF Quiet, Answers, Old, At
  <2>4. QED
    BY <1>2, <2>2, <2>3
<1>3. ASSUME NEW i \in Instances, Answer(i) \/ Age(i) \/ Die(i)
      PROVE  Quiet'
  <2>1. /\ UNCHANGED call /\ dirty' \subseteq dirty
        /\ \A u \in Tasks : /\ task'[u].assigned = task[u].assigned
                            /\ task'[u].phase = task[u].phase
    BY <1>1, <1>3 DEF Answer, Age, Die, Task, TaskRecord
  <2>2. \A j \in Instances : (Answers(j) => Answers(j)') /\ (Old(j) => Old(j)')
    BY <1>1, <1>3 DEF Answer, Age, Die, Up, Answers, Old, Instance
  <2>3. QED
    BY <2>1, <2>2, QuietStep DEF At
<1>4. QED
  BY <1>2, <1>3 DEF Outside

\* A reconcile of which nothing fails keeps Quiet.
LEMMA QuietReconcile ==
    ASSUME DirtyInv, Quiet, NEW t \in Tasks, Step(t)
    PROVE  Quiet'
<1>1. CASE NoSelection(t)
  <2>1. /\ UNCHANGED <<inst, task, dirty>>
        /\ \A u \in Tasks \ {t} : call'[u] = call[u]
        /\ call'[t].hosts = {} /\ call'[t].pc # "judge"
    BY <1>1 DEF NoSelection, NoCall, DirtyInv, PoolInv
  <2>2. QED
    BY <2>1, QuietStep DEF Answers, Old, At
<1>2. CASE CountInstances(t)
  BY <1>2, QuietEnd DEF CountInstances, AllocateError, PCs
<1>3. CASE LaunchInstance(t)
  <2>1. PICK i \in Instances : inst[i].state = "none"
                               /\ inst' = [inst EXCEPT ![i].state = "pending"]
    BY <1>3 DEF LaunchInstance
  <2>2. \A j \in Instances : (Answers(j) => Answers(j)') /\ (Old(j) => Old(j)')
    BY <2>1 DEF DirtyInv, PoolInv, Instance, Answers, Old
  <2>3. /\ UNCHANGED <<task, dirty>>
        /\ \A u \in Tasks \ {t} : call'[u] = call[u]
        /\ call'[t].hosts = {} /\ call'[t].pc # "judge"
    BY <1>3, NoCallQuiet DEF LaunchInstance, Return, DirtyInv, PoolInv
  <2>4. QED
    BY <2>2, <2>3, QuietStep DEF At
<1>4. CASE LaunchRefused(t) \/ Release(t)
  BY <1>4, QuietEnd DEF LaunchRefused, Release, AllocateError
<1>5. QED
  BY <1>1, <1>2, <1>3, <1>4, QuietList, QuietJudge, QuietAssign, QuietCleanup DEF Step

\* What is dirtied is the host of a TaskRun, and the faults are counted.
LEMMA DirtyTyped ==
    ASSUME DirtyInv, [Next]_vars
    PROVE  /\ dirty' \subseteq Instances /\ due' \subseteq Instances
           /\ faults' \in 0..MaxFaults
           /\ faults' = 0 => faults = 0
<1>1. /\ task \in [Tasks -> Task] /\ faults \in 0..MaxFaults
      /\ dirty \subseteq Instances /\ due \subseteq Instances
  BY DEF DirtyInv, PoolInv
<1>2. ASSUME faults' = faults \/ Fault
      PROVE  faults' \in 0..MaxFaults /\ (faults' = 0 => faults = 0)
  BY <1>1, <1>2, PoolAssumption DEF Fault
<1>3. CASE UNCHANGED vars
  BY <1>1, <1>2, <1>3 DEF vars
<1>4. ASSUME NEW t \in Tasks, Step(t) \/ ListFails(t) \/ AllocateFails(t) \/ CleanupFails(t)
                              \/ \E i \in Instances : TerminateFails(t, i)
      PROVE  /\ dirty' \subseteq Instances /\ due' \subseteq Instances
             /\ faults' = faults \/ Fault
  <2>1. task[t].phase = "done" => task[t].assigned \in Instances
    BY <1>1 DEF Task, TaskRecord
  <2>2. CASE Step(t)
    BY <1>1, <2>1, <2>2
       DEF Step, ListInstances, isHostBusy, TerminateInstance, Judges, Assign, NoSelection,
           CountInstances, LaunchInstance, LaunchRefused, Cleanup, Built, Release
  <2>3. CASE ListFails(t) \/ AllocateFails(t) \/ CleanupFails(t)
             \/ \E i \in Instances : TerminateFails(t, i)
    BY <1>1, <2>1, <2>3
       DEF ListFails, Reconciles, AllocateFails, CleanupFails, Built, TerminateFails, Judges
  <2>4. QED
    BY <1>4, <2>2, <2>3
<1>5. ASSUME Outside \/ Restart \/ (\E i \in Instances : Mute(i) \/ Age(i))
      PROVE  /\ dirty' \subseteq Instances /\ due' \subseteq Instances
             /\ faults' = faults \/ Fault
  BY <1>1, <1>5
     DEF Outside, ProvisionSucceeds, ProvisionFails, DeleteProvision, Complete, Deliver,
         Answer, Die, Restart, Mute, Age
<1>6. QED
  BY <1>2, <1>3, <1>4, <1>5 DEF Next

\* DirtyInv is inductive.
LEMMA DirtyNext == DirtyInv /\ [Next]_vars => DirtyInv'
<1>1. SUFFICES ASSUME DirtyInv, [Next]_vars PROVE DirtyInv'
  OBVIOUS
<1>2. PoolInv'
  BY <1>1, NextHolds DEF DirtyInv
<1>3. /\ dirty' \subseteq Instances /\ due' \subseteq Instances
      /\ faults' \in 0..MaxFaults
      /\ faults' = 0 => faults = 0
  BY <1>1, DirtyTyped
<1>4. ASSUME faults' = 0 PROVE Quiet'
  <2>1. Quiet /\ ~Fault
    BY <1>1, <1>3, <1>4 DEF DirtyInv, Fault
  <2>2. CASE UNCHANGED vars
    BY <2>1, <2>2 DEF vars, Quiet, Answers, Old, At
  <2>3. ASSUME NEW t \in Tasks
        PROVE  /\ ~ListFails(t) /\ ~AllocateFails(t) /\ ~CleanupFails(t)
               /\ \A i \in Instances : ~TerminateFails(t, i) /\ ~Mute(i)
               /\ ~Restart
    BY <2>1 DEF ListFails, AllocateFails, CleanupFails, TerminateFails, Mute, Restart
  <2>4. ~Restart /\ \A i \in Instances : ~Mute(i)
    BY <2>1 DEF Mute, Restart
  <2>5. QED
    BY <1>1, <2>1, <2>2, <2>3, <2>4, QuietReconcile, QuietOutside DEF Next
<1>5. QED
  BY <1>2, <1>3, <1>4 DEF DirtyInv

\* Before the first reconcile no host is dirty.
LEMMA DirtyInit == Init => DirtyInv
<1>1. SUFFICES ASSUME Init PROVE DirtyInv
  OBVIOUS
<1>2. Quiet
  BY <1>1 DEF Init, Quiet, At, NoCall, NewTask
<1>3. QED
  BY <1>1, <1>2, InitHolds, PoolAssumption DEF Init, DirtyInv

\* Every variable of the pool keeps its type, and a TaskRun that is being
\* provisioned, runs or is done has a host.
THEOREM PoolTyping == Spec => []TypeOK
<1>1. DirtyInv => TypeOK
  BY DEF DirtyInv, PoolInv, TypeOK, Instance, Task, TaskRecord, Call
<1>2. QED
  BY <1>1, DirtyInit, DirtyNext, PTL DEF Spec

\* A host is left without a cleanup TaskRun only when it is old, and so takes no
\* more TaskRuns, or when a request failed, however the list of one reconcile
\* interleaves with what others judge and shut down (dynamicpool.go, Deallocate).
THEOREM PoolDirtyForCause == Spec => []DirtyForCause
<1>1. DirtyInv => DirtyForCause
  BY PoolAssumption DEF DirtyInv, Quiet, DirtyForCause, Old
<1>2. QED
  BY <1>1, DirtyInit, DirtyNext, PTL DEF Spec
=============================================================================
