----------------------------- MODULE MCHostPool -----------------------------
(***************************************************************************)
(* Instances of HostPool for TLC: hosts and workers as model values.       *)
(***************************************************************************)
EXTENDS HostPool, TLC

\* Workers are interchangeable; used only where no liveness is checked.
Symmetry == Permutations(Workers)

\* Each host takes one TaskRun at a time.
OneSlot == [h \in Hosts |-> 1]

\* A state of Spec to start from: TaskRun 1 runs on a host, its secret (an
\* error, if the host's key is missing) made and its provision TaskRun gone,
\* TaskRun 2 has found the host taken and waits, its retry still due or not,
\* and further ones are yet to be created.
Holder(h) == [Created(TRUE) EXCEPT !.assigned = h, !.finalizer = TRUE]
Waiter == [Created(TRUE) EXCEPT !.waiting = TRUE]
WaitInit ==
    \E h \in Hosts :
        /\ tr = [t \in Tasks |->
                   CASE t = 1 -> Holder(h) [] t = 2 -> Waiter [] t > 2 -> Absent]
        /\ secret = [t \in Tasks |-> CASE t > 1 -> "none"
                                     [] h \in MissingKey -> "error"
                                     [] OTHER -> "ssh"]
        /\ accounts = {<<1, h>>} \ (Tasks \X MissingKey)
        /\ cache = tr /\ watch = <<>>
        /\ prov = [l \in Leases |-> "none"] /\ processed = {}
        /\ clean = [l \in Leases |-> "none"]
        /\ queue = {} /\ timers \in SUBSET {2}
        /\ worker = [w \in Workers |-> Idle]
        /\ faults = 0 /\ abandoned = {}

\* The controller, the clock, the pods and the jobs do something as long as
\* one of them can: less than Fairness, and enough where, without faults,
\* no step can be repeated for ever.
System ==
    \/ Deliver
    \/ \E t \in Tasks : TimerFires(t) \/ TaskCompletes(t)
    \/ \E w \in Workers : WorkerStep(w)
    \/ \E w \in Workers, t \in Tasks : ReconcileUser(w, t)
    \/ \E w \in Workers, t \in Tasks, h \in Hosts :
          ReconcileProvisionKey(w, t, h)
    \/ \E t \in Tasks, h \in Hosts :
          ProvisionSucceeds(t, h) \/ ProvisionFails(t, h)
WaitSpec == WaitInit /\ [][Next]_vars /\ WF_vars(System)
=============================================================================
