----------------------------- MODULE DynamicPool -----------------------------
(***************************************************************************)
(* The dynamic pool of one platform (dynamicpool.go): hosts are launched   *)
(* when they are needed, shared by up to Concurrency TaskRuns, no longer   *)
(* used once they are older than maxAge, and shut down by the reconciles   *)
(* of other TaskRuns that find them old and idle.                          *)
(*                                                                         *)
(* The calls of several reconciles interleave: a call lists the instances, *)
(* judges and terminates the old ones one by one, chooses among the young  *)
(* ones and, if it finds no room, counts the instances and launches one.   *)
(* The labels that say which host has room or is idle are read from the    *)
(* informer's cache, which lags behind what is stored.  What               *)
(* HostPool.Allocate and handleProvisionTask do is taken from the module   *)
(* HostPool, each in one step here, with the ordered watch.                *)
(***************************************************************************)
EXTENDS Integers, FiniteSets

CONSTANTS
    Tasks,           \* TaskRuns, no more than MaxConcurrentReconciles
    Instances,       \* identities of cloud instances, in the order of launch
    None,
    MaxInstances,    \* max-instances of the platform
    Concurrency,     \* concurrency of a host
    MaxFaults        \* bound: faults of a behaviour

ASSUME PoolAssumption ==
    /\ Instances \subseteq Nat /\ None \notin Instances
    /\ IsFiniteSet(Instances) /\ IsFiniteSet(Tasks) /\ Tasks # {}
    /\ MaxInstances \in Nat \ {0} /\ Concurrency \in Nat \ {0} /\ MaxFaults \in Nat

VARIABLES
    inst,    \* inst[i]: state of the instance, and whether it is past maxAge
    task,    \* task[t]: the TaskRun as it is stored
    cache,   \* cache[t]: the label AssignedHost of t in the informer's cache
    call,    \* call[t]: where the reconcile of t is
    dirty,   \* instances that were not cleaned up after a TaskRun
    due,     \* instances that a call is to shut down (not in the code)
    faults   \* faults so far

vars == <<inst, task, cache, call, dirty, due, faults>>

\* pending: it does not answer (yet), so that it is counted and not listed.
States == {"none", "pending", "up", "dying", "gone"}
Live(i) == inst[i].state \in {"pending", "up", "dying"}
Up(i) == inst[i].state = "up"

\* kept: the hosts with a failed provision TaskRun of t in the cache, kept for an
\* hour for its logs, which carries the label AssignedHost as well.  excused (not in the
\* code): the host was old already when t was assigned to it, or became so
\* before the cache showed the assignment.
Phases == {"new", "provisioning", "running", "done", "released", "failed"}
NewTask == [phase |-> "new", assigned |-> None, failedHosts |-> {}, kept |-> {},
            excused |-> FALSE]

PCs == {"idle", "judge", "count", "launch", "release"}
NoCall == [pc |-> "idle", hosts |-> {}, old |-> {}, unjudged |-> {},
           failed |-> FALSE]

Init ==
    /\ inst = [i \in Instances |-> [state |-> "none", old |-> FALSE]]
    /\ task = [t \in Tasks |-> NewTask]
    /\ cache = [t \in Tasks |-> None]
    /\ call = [t \in Tasks |-> NoCall]
    /\ dirty = {}
    /\ due = {}
    /\ faults = 0

At(t, pc) == call[t].pc = pc
Goto(t, pc) == call' = [call EXCEPT ![t] = [NoCall EXCEPT !.pc = pc]]
Return(t) == call' = [call EXCEPT ![t] = NoCall]
Fault == faults < MaxFaults /\ faults' = faults + 1

\* An error of Allocate is an error secret, which fails the TaskRun.  (The
\* failed hosts of a TaskRun that is over are forgotten, here and in Release.)
AllocateError(t) ==
    /\ Return(t)
    /\ task' = [task EXCEPT ![t] = [@ EXCEPT !.phase = "failed", !.failedHosts = {}]]

-----------------------------------------------------------------------------
(***************************************************************************)
(* buildHostPool.                                                          *)
(***************************************************************************)

\* A reconcile that has a host to find or to give back.
Reconciles(t) == At(t, "idle") /\ task[t].phase \in {"new", "done"}

\* User TaskRuns the cache shows with the label AssignedHost = i.  (A provision
\* TaskRun comes into the cache after this label of its user TaskRun, and does
\* not outlast it unless it is kept.)
Users(i) == {t \in Tasks : cache[t] = i}

\* Mistake: a host with a free slot counts as idle.
IdleMutant(i) == Cardinality(Users(i)) < Concurrency
Idle(i) == Users(i) = {} /\ \A t \in Tasks : i \notin task[t].kept

\* (Not in the code.)  Nobody has i, is about to get it, or has it for the cache.
Deserted(i) ==
    Idle(i) /\ \A t \in Tasks : task[t].assigned # i /\ i \notin call[t].hosts

\* Only instances that answer are listed; the old ones are not in the pool.
ListInstances(t) ==
    /\ Reconciles(t)
    /\ LET listed == {i \in Instances : Up(i)}
           old == {i \in listed : inst[i].old}
       IN  call' = [call EXCEPT ![t] = [@ EXCEPT !.pc = "judge",
                                                 !.hosts = listed \ old,
                                                 !.old = old, !.unjudged = old]]
           /\ due' = due \cup {i \in old : Deserted(i)}
    /\ UNCHANGED <<inst, task, cache, dirty, faults>>

ListFails(t) ==
    /\ Reconciles(t) /\ Fault
    /\ IF task[t].phase = "new"
       THEN AllocateError(t) /\ UNCHANGED dirty
       ELSE /\ Goto(t, "release") /\ UNCHANGED task
            /\ dirty' = dirty \cup {task[t].assigned}
    /\ UNCHANGED <<inst, cache, due>>

\* The next old instance of the list; it is terminated if it is idle, in the
\* same step: an assignment in between is as good as one right after it.
Judges(t, i) ==
    /\ At(t, "judge") /\ i \in call[t].unjudged /\ \A j \in call[t].unjudged : i <= j
    /\ call' = [call EXCEPT ![t].unjudged = @ \ {i}]
    /\ UNCHANGED <<task, cache, dirty>>

isHostBusy(t, i) == Judges(t, i) /\ ~Idle(i) /\ UNCHANGED <<inst, due, faults>>

Terminated(i) == [inst EXCEPT ![i].state = IF @ = "gone" THEN @ ELSE "dying"]

\* Mistake: the old instance is only taken out of the pool.
TerminateInstanceMutant(t, i) ==
    Judges(t, i) /\ Idle(i) /\ UNCHANGED <<inst, due, faults>>
TerminateInstance(t, i) ==
    Judges(t, i) /\ Idle(i) /\ inst' = Terminated(i) /\ UNCHANGED <<due, faults>>

\* The error is logged.  An error of isHostIdle has the same effect.
TerminateFails(t, i) ==
    Judges(t, i) /\ Idle(i) /\ Fault /\ due' = due \ {i} /\ UNCHANGED inst

\* The pool of the young hosts is built, and the call goes on with it.
Built(t, phase) ==
    /\ At(t, "judge") /\ call[t].unjudged = {}
    /\ task[t].phase = phase

-----------------------------------------------------------------------------
(***************************************************************************)
(* Allocate.                                                               *)
(***************************************************************************)

Free(i) == Concurrency - Cardinality(Users(i))

\* The hosts HostPool.Allocate may select: the most free spots, at least one,
\* and none where t has failed before.
Selectable(t) ==
    LET rest == call[t].hosts \ task[t].failedHosts
    IN  {i \in rest : Free(i) > 0 /\ \A j \in rest : Free(j) <= Free(i)}

\* Mistake: the provision TaskRun is created, and the label is not stored.
AssignMutant(t) ==
    /\ Built(t, "new") /\ Selectable(t) # {}
    /\ task' = [task EXCEPT ![t].phase = "provisioning"]
    /\ Return(t)
    /\ UNCHANGED <<inst, cache, dirty, due, faults>>

\* The label and the finalizer are stored and the provision TaskRun created.
Assign(t) ==
    /\ Built(t, "new")
    /\ \E i \in Selectable(t) :
          task' = [task EXCEPT ![t] = [@ EXCEPT !.phase = "provisioning",
                                                !.assigned = i,
                                                !.excused = inst[i].old]]
    /\ Return(t)
    /\ UNCHANGED <<inst, cache, dirty, due, faults>>

\* No host: ErrAllHostsFailed, no instance, or no free spot (which stores the
\* waiting label: the TaskRun is requeued, whoever else looks at the label).
NoSelection(t) ==
    LET hosts == call[t].hosts
        allFailed == hosts # {} /\ hosts \subseteq task[t].failedHosts
    IN  /\ Built(t, "new") /\ Selectable(t) = {}
        /\ call' = [call EXCEPT ![t] = [NoCall EXCEPT !.pc = "count", !.old = call[t].old,
                                                      !.failed = allFailed]]
        /\ UNCHANGED <<inst, task, cache, dirty, due, faults>>

\* Mistake: only the instances that answer are counted.
HasRoomMutant(t) == Cardinality(call[t].hosts) < MaxInstances

\* Mistake: the instance to be launched is counted twice.
HasRoomTwiceMutant(t) ==
    Cardinality({i \in Instances : Live(i)}) - Cardinality(call[t].old) + 1 < MaxInstances

\* Old instances are not counted, "as they will shut down soon".
HasRoom(t) ==
    Cardinality({i \in Instances : Live(i)}) - Cardinality(call[t].old) < MaxInstances

\* At capacity the TaskRun is requeued after a minute, or fails when all the
\* hosts there are have failed it.
CountInstances(t) ==
    /\ At(t, "count")
    /\ \/ HasRoom(t) /\ Goto(t, "launch") /\ UNCHANGED task
       \/ ~HasRoom(t) /\ ~call[t].failed /\ Return(t) /\ UNCHANGED task
       \/ ~HasRoom(t) /\ call[t].failed /\ AllocateError(t)
    /\ UNCHANGED <<inst, cache, dirty, due, faults>>

\* The instance joins the pool when it answers; the TaskRun is requeued after
\* a minute.
LaunchInstance(t) ==
    /\ At(t, "launch")
    /\ \E i \in Instances :
          /\ inst[i].state = "none"
          /\ \A j \in Instances : j < i => inst[j].state # "none"
          /\ inst' = [inst EXCEPT ![i].state = "pending"]
    /\ Return(t)
    /\ UNCHANGED <<task, cache, dirty, due, faults>>

\* HostPool.Allocate (one of its reads, the update, or the creation of the
\* provision TaskRun, after which the label is removed again), CountInstances
\* or LaunchInstance returns an error.
AllocateFails(t) ==
    /\ Built(t, "new") \/ call[t].pc \in {"count", "launch"}
    /\ Fault
    /\ AllocateError(t)
    /\ UNCHANGED <<inst, cache, dirty, due>>

\* LaunchInstance is refused: the quota of the cloud (Instances) is used up.
LaunchRefused(t) ==
    /\ At(t, "launch") /\ \A i \in Instances : inst[i].state # "none"
    /\ AllocateError(t)
    /\ UNCHANGED <<inst, cache, dirty, due, faults>>

-----------------------------------------------------------------------------
(***************************************************************************)
(* Deallocate, and what handleHostAssigned does after it.                  *)
(***************************************************************************)

\* Mistake: no cleanup TaskRun while there are old instances about.
CleanupMutant(t) ==
    /\ Built(t, "done")
    /\ dirty' = IF call[t].old = {} THEN dirty ELSE dirty \cup {task[t].assigned}
    /\ Goto(t, "release")
    /\ UNCHANGED <<inst, task, cache, due, faults>>

\* HostPool.Deallocate starts a cleanup TaskRun on a host of the pool; an old
\* one is shut down if it is idle, which it is not while the cache shows t on it.
Cleanup(t) ==
    LET i == task[t].assigned
        shutDown == i \notin call[t].hosts /\ call[t].old # {} /\ Idle(i)
    IN  /\ Built(t, "done")
        /\ dirty' = IF i \in call[t].hosts THEN dirty ELSE dirty \cup {i}
        /\ inst' = IF shutDown THEN Terminated(i) ELSE inst
        /\ Goto(t, "release")
        /\ UNCHANGED <<task, cache, due, faults>>

\* The cleanup TaskRun cannot be created: the error is logged, and the label
\* goes all the same.
CleanupFails(t) ==
    /\ Built(t, "done") /\ task[t].assigned \in call[t].hosts /\ Fault
    /\ dirty' = dirty \cup {task[t].assigned}
    /\ Goto(t, "release")
    /\ UNCHANGED <<inst, task, cache, due>>

Release(t) ==
    /\ At(t, "release")
    /\ task' = [task EXCEPT ![t] = [@ EXCEPT !.phase = "released", !.assigned = None,
                                             !.failedHosts = {}, !.excused = FALSE]]
    /\ Return(t)
    /\ UNCHANGED <<inst, cache, dirty, due, faults>>

-----------------------------------------------------------------------------
(***************************************************************************)
(* The provision TaskRuns, the user's TaskRuns, the cloud, restarts.       *)
(***************************************************************************)

ProvisionSucceeds(t) ==
    /\ task[t].phase = "provisioning" /\ Up(task[t].assigned)
    /\ task' = [task EXCEPT ![t].phase = "running"]
    /\ UNCHANGED <<inst, cache, call, dirty, due, faults>>

\* A host that does not answer fails every provision TaskRun; another may.  The
\* watch is ordered: the cache shows the assignment before the provision TaskRun.
ProvisionFails(t) ==
    LET i == task[t].assigned
    IN  /\ task[t].phase = "provisioning" /\ cache[t] = i
        /\ \/ Fault
           \/ ~Up(i) /\ UNCHANGED faults
        /\ task' = [task EXCEPT ![t] =
                       [task[t] EXCEPT !.phase = "new", !.assigned = None, !.excused = FALSE,
                                       !.failedHosts = @ \cup {i}, !.kept = @ \cup {i}]]
        /\ UNCHANGED <<inst, cache, call, dirty, due>>

\* Until then its label keeps the host from being idle.
DeleteProvision(t) ==
    /\ \E i \in task[t].kept : task' = [task EXCEPT ![t].kept = @ \ {i}]
    /\ UNCHANGED <<inst, cache, call, dirty, due, faults>>

\* The watch takes less time than a pod (PromptWatch of HostPool).
Complete(t) ==
    /\ task[t].phase = "running" /\ cache[t] = task[t].assigned
    /\ task' = [task EXCEPT ![t].phase = "done"]
    /\ UNCHANGED <<inst, cache, call, dirty, due, faults>>

Answer(i) ==
    /\ inst[i].state = "pending"
    /\ inst' = [inst EXCEPT ![i].state = "up"]
    /\ UNCHANGED <<task, cache, call, dirty, due, faults>>

\* The instance does not answer for a while.
Mute(i) ==
    /\ Up(i) /\ Fault
    /\ inst' = [inst EXCEPT ![i].state = "pending"]
    /\ UNCHANGED <<task, cache, call, dirty, due>>

Age(i) ==
    /\ Up(i) /\ ~inst[i].old
    /\ inst' = [inst EXCEPT ![i].old = TRUE]
    /\ task' = [t \in Tasks |->
          IF task[t].assigned = i /\ cache[t] # i
          THEN [task[t] EXCEPT !.excused = TRUE] ELSE task[t]]
    /\ UNCHANGED <<cache, call, dirty, due, faults>>

Die(i) ==
    /\ inst[i].state = "dying"
    /\ inst' = [inst EXCEPT ![i].state = "gone"]
    /\ dirty' = dirty \ {i} /\ due' = due \ {i}
    /\ UNCHANGED <<task, cache, call, faults>>

\* The informer takes the next change of the label of t.  Between two hosts a
\* TaskRun has none, and its second host fails only after the cache shows it, so
\* that what is stored and what is shown tell which change is the next.
Deliver(t) ==
    /\ cache[t] # task[t].assigned
    /\ cache' = [cache EXCEPT ![t] = IF @ = None THEN task[t].assigned ELSE None]
    /\ UNCHANGED <<inst, task, call, dirty, due, faults>>

\* The informer lists the TaskRuns anew.
Restart ==
    /\ Fault
    /\ call' = [t \in Tasks |-> NoCall]
    /\ cache' = [t \in Tasks |-> task[t].assigned]
    /\ due' = {}
    /\ UNCHANGED <<inst, task, dirty>>

Step(t) ==
    \/ ListInstances(t)
    \/ \E i \in Instances : isHostBusy(t, i) \/ TerminateInstance(t, i)
    \/ Assign(t) \/ NoSelection(t) \/ CountInstances(t) \/ LaunchInstance(t)
    \/ LaunchRefused(t) \/ Cleanup(t) \/ Release(t)

\* What ends by itself: provision TaskRuns, users' TaskRuns, the lag of the
\* cache, and the start and the end of an instance.
Outside ==
    \/ \E t \in Tasks : \/ ProvisionSucceeds(t) \/ ProvisionFails(t)
                        \/ DeleteProvision(t) \/ Complete(t) \/ Deliver(t)
    \/ \E i \in Instances : Answer(i) \/ Die(i)

Next ==
    \/ \E t \in Tasks : \/ Step(t) \/ ListFails(t) \/ AllocateFails(t) \/ CleanupFails(t)
                        \/ \E i \in Instances : TerminateFails(t, i)
    \/ \E i \in Instances : Mute(i) \/ Age(i)
    \/ Outside \/ Restart

Spec == Init /\ [][Next]_vars

\* Reconciles go on and are requeued; what is outside goes on.  None of the
\* latter can happen for ever, so that one condition is enough for all.
FairSpec == Spec /\ WF_vars(Outside) /\ \A t \in Tasks : WF_vars(Step(t))

-----------------------------------------------------------------------------
(***************************************************************************)
(* Properties.                                                             *)
(***************************************************************************)

TypeOK ==
    /\ inst \in [Instances -> [state : States, old : BOOLEAN]]
    /\ task \in [Tasks -> [phase : Phases, assigned : Instances \cup {None},
                           failedHosts : SUBSET Instances,
                           kept : SUBSET Instances, excused : BOOLEAN]]
    /\ cache \in [Tasks -> Instances \cup {None}]
    /\ call \in [Tasks -> [pc : PCs, hosts : SUBSET Instances, old : SUBSET Instances,
                           unjudged : SUBSET Instances, failed : BOOLEAN]]
    /\ \A t \in Tasks : task[t].phase \in {"provisioning", "running", "done"}
                        => task[t].assigned # None
    /\ dirty \subseteq Instances /\ due \subseteq Instances
    /\ faults \in 0..MaxFaults

\* A host is shut down under a TaskRun only by one of two races: the host was
\* old already when the TaskRun was assigned to it, by a call that had listed it
\* while it was young; or it became old before the cache showed the assignment,
\* so that isHostIdle could not see it.  A host that got its TaskRuns in time is
\* left to them, whatever reconciles, failed calls and restarts follow.
HostStaysUp ==
    \A t \in Tasks : task[t].assigned # None /\ ~task[t].excused
                     => inst[task[t].assigned].state \notin {"dying", "gone"}

\* max-instances bounds the instances that are not old, those about to be
\* launched included, up to one for every other reconcile in flight (each may
\* count before another launches) and one for every instance that was listed as
\* old and has gone by the time of the count, which is then subtracted although
\* it was not counted.
Young == {i \in Instances : inst[i].state \in {"pending", "up"} /\ ~inst[i].old}
Gone == {i \in Instances : inst[i].state = "gone"}
Launching == {t \in Tasks : At(t, "launch")}
YoungBound ==
    Cardinality(Young) + Cardinality(Launching)
        <= MaxInstances + Cardinality(Tasks) - 1 + Cardinality(Gone)

\* A host that was not cleaned up after a TaskRun takes no more TaskRuns: it is
\* old, it did not answer at the time, or a request failed.
DirtyForCause ==
    \A i \in dirty : inst[i].old \/ faults > 0

\* No TaskRun is left without a host, whatever is terminated under it: it
\* polls until a host has room for it, launches one, or fails, and in the end
\* it has given its host back.
Served == <>[](\A t \in Tasks : task[t].phase \in {"released", "failed"})

\* A host that is old and idle when a reconcile lists it, with no TaskRun on its
\* way to it, is shut down in the end, whatever other calls list, judge, assign
\* or launch meanwhile; unless its termination failed, or a restart ended the
\* call, since the last such list.
OldHostGoes == <>[](\A i \in due : inst[i].state = "dying")
=============================================================================
