------------------------ MODULE HostPoolLeaseProofs ------------------------
(***************************************************************************)
(* Proofs about HostPool that relate several objects: a user TaskRun, its  *)
(* provision and cleanup TaskRuns, its secret, the accounts on the hosts   *)
(* and the reconciles in progress.  For every number of TaskRuns, hosts    *)
(* and workers, every concurrency limit, any lag of the cache, and the     *)
(* faults the first definitions leave.                                     *)
(***************************************************************************)
EXTENDS HostPoolProofs

(***************************************************************************)
(* What the theorems assume of the faults.                                 *)
(***************************************************************************)

\* What a provision TaskRun's outcome asks for is done once: the update that
\* marks it processed does not fail, and there is no restart before it.
OutcomeOnce == {"mark", "crash"} \cap FaultKinds = {}

\* Nor does the update that gives a host up after a failed launch fail, nor
\* the read of the user TaskRun of a failed provision TaskRun.
NoHostKept == OutcomeOnce /\ {"unassign", "read"} \cap FaultKinds = {}

(***************************************************************************)
(* The invariant of leases.                                                *)
(***************************************************************************)

\* A TaskRun that may still be given a host; one that is running.
Open(o) == o.phase \in {"absent", "running"} /\ ~o.deleting
Runs(o) == o.phase = "running" /\ ~o.deleting

\* A provision TaskRun that counts: it is under way, or succeeded, or failed
\* and the host has not been taken from the user TaskRun yet.
Marking(l) == \E w \in Workers : worker[w].pc = "mark" /\ worker[w].key = l
Live(l) ==
    \/ prov[l] \in {"running", "succeeded"}
    \/ prov[l] = "failed" /\ l \notin processed /\ ~Marking(l)
NoLive(t) == \A h \in Hosts : ~Live(<<t, h>>)

\* Where a user TaskRun's reconcile is.
Choosing == {"assign", "wait", "launch", "unassign"}
Writing == Choosing \cup {"fail", "configFail"}
Allocating == Writing \cup {"errorSecret", "configSecret"}
Releasing == {"deallocate", "release", "deleteSecret", "wake"}

\* A reconcile that allocates: nothing is provisioned for its TaskRun, which
\* has no host but the one this reconcile gave it.
AllocatingOK(r, t) ==
    /\ NoLive(t)
    /\ r.pc \in Writing => Runs(r.seen) /\ Runs(r.obj)
    /\ r.pc = "assign" => /\ r.host \in Hosts /\ r.obj.assigned = r.host
                          /\ tr[t].assigned = None
    /\ r.pc = "wait" => /\ r.host = None /\ r.obj.assigned = None
                        /\ tr[t].assigned = None
    /\ r.pc = "launch" => r.host \in Hosts /\ tr[t].assigned = r.host
    /\ r.pc = "unassign" => /\ r.host \in Hosts /\ r.obj.assigned = None
                            /\ tr[t].assigned = r.host
    /\ r.pc = "fail" =>
          r.obj.assigned = None /\ tr[t].assigned \in {None, r.host}
    /\ r.pc = "configFail" => r.obj.assigned = None /\ tr[t].assigned = None

\* A TaskRun that has not been created has no host, nor failed ones.
NotCreated ==
    \A t \in Tasks : tr[t].phase = "absent" =>
        tr[t].assigned = None /\ tr[t].failed = {} /\ ~tr[t].deleting

\* A reconcile of a provision TaskRun: it has finished and is not processed.
OutcomeOK(r) ==
    /\ r.pc \in {"fail", "errorSecret", "unassignFailed", "mark"}
    /\ prov[r.key] \in Finished /\ r.key \notin processed
    /\ r.pc \in {"fail", "errorSecret"} => prov[r.key] = "succeeded"
    /\ r.pc = "fail" => r.obj = r.seen
    /\ r.pc = "unassignFailed" =>
          prov[r.key] = "failed" /\ r.obj.assigned = None

ReconcileOK(w) ==
    LET r == worker[w]
        t == r.key[1]
    IN
    \/ r.pc = "idle"
    \/ r.key = UserKey(t) /\ r.pc \in Releasing /\ ~Open(tr[t])
    \/ r.key = UserKey(t) /\ r.pc \in Allocating /\ AllocatingOK(r, t)
    \/ r.key \in Leases /\ OutcomeOK(r)

\* No two reconciles have the same key.
KeysApart ==
    \A v, w \in Workers :
        worker[v].pc # "idle" /\ worker[v].key = worker[w].key => v = w

\* At most one provision TaskRun counts, and while the user TaskRun is open
\* it has the host of that one.
OneLease ==
    \A t \in Tasks, g, h \in Hosts : Live(<<t, g>>) /\ Live(<<t, h>>) => g = h
Held ==
    \A t \in Tasks, h \in Hosts :
        Open(tr[t]) /\ Live(<<t, h>>) => tr[t].assigned = h

LeaseInv ==
    /\ CopiesConsistent /\ KeysApart /\ OneLease /\ Held
    /\ \A l \in processed : prov[l] \in Finished
    /\ \A w \in Workers : ReconcileOK(w)

(***************************************************************************)
(* The invariant behind AssignedHasProvision.                              *)
(***************************************************************************)

\* The newest version of t is the last event of t, or the cached copy.
Newest(t) ==
    \/ cache[t] = tr[t] /\ Fresh(t)
    \/ \E i \in 1..Len(watch) :
          /\ watch[i].task = t /\ watch[i].obj = tr[t]
          /\ \A j \in (i + 1)..Len(watch) : watch[j].task # t

\* From the i-th undelivered event on, t has the host it has now.
SameHost(t, i) ==
    \A j \in i..Len(watch) :
        watch[j].task = t => watch[j].obj.assigned = tr[t].assigned

\* All versions since t was given the host it has now agree on FailedHosts.
SameFailed(t) ==
    tr[t].assigned # None =>
        /\ SameHost(t, 1) /\ cache[t].assigned = tr[t].assigned
           => cache[t].failed = tr[t].failed
        /\ \A i \in 1..Len(watch) :
              watch[i].task = t /\ SameHost(t, i)
              => watch[i].obj.failed = tr[t].failed

\* A TaskRun that does not exist has no host, in any copy.
NoHostIfAbsent(o) == ~Exists(o) => o.assigned = None
VersionsOK ==
    /\ \A t \in Tasks : Newest(t) /\ (Open(tr[t]) => SameFailed(t))
    /\ \A t \in Tasks : NoHostIfAbsent(tr[t]) /\ NoHostIfAbsent(cache[t])
    /\ \A i \in 1..Len(watch) : NoHostIfAbsent(watch[i].obj)

\* FailedHosts has every host with a failed provision TaskRun, unless the
\* failure is still to be dealt with.
FailuresKnown(t) ==
    \A h \in Hosts : prov[<<t, h>>] = "failed"
                    => h \in tr[t].failed \/ Live(<<t, h>>)

\* A successful provision TaskRun that was processed left a secret.
ProcessedServed(t) ==
    \A h \in Hosts : <<t, h>> \in processed /\ prov[<<t, h>>] = "succeeded"
                    => secret[t] # "none"

\* The host of a TaskRun without a secret is being provisioned.
Provided(t) ==
    \A h \in Hosts : tr[t].assigned = h /\ secret[t] = "none"
                    => \/ Live(<<t, h>>)
                       \/ \E w \in Workers : worker[w].key = UserKey(t)

\* What a reconcile knows of an open TaskRun.
KnowsFailures(r, t) ==
    /\ r.pc \in Writing =>
          \A h \in Hosts : prov[<<t, h>>] = "failed" => h \in r.obj.failed
    /\ r.pc \in {"assign", "launch"} => prov[<<t, r.host>>] = "none"
    /\ r.pc \in Allocating \ Choosing => tr[t].assigned = None
KnowsOutcome(r, t, h) ==
    /\ r.pc = "unassignFailed" =>
          tr[t].failed \subseteq r.obj.failed /\ h \in r.obj.failed
    /\ r.pc = "mark" /\ prov[<<t, h>>] = "succeeded" => secret[t] # "none"
ReconcilesKnow(t) ==
    \A w \in Workers :
        /\ worker[w].key = UserKey(t) => KnowsFailures(worker[w], t)
        /\ \A h \in Hosts :
              worker[w].key = <<t, h>> => KnowsOutcome(worker[w], t, h)

ServedTask(t) ==
    FailuresKnown(t) /\ ProcessedServed(t) /\ Provided(t) /\ ReconcilesKnow(t)

ServedInv ==
    /\ LeaseInv /\ NotCreated /\ VersionsOK
    /\ \A t \in Tasks : Open(tr[t]) => ServedTask(t)

(***************************************************************************)
(* The invariant behind NoLeftovers.                                       *)
(***************************************************************************)

\* What the release of t has to remove, unless it is abandoned: an account,
\* the SSH secret.
Owed(t, h) == <<t, h>> \in accounts \ abandoned
OwesSecret(t) == secret[t] = "ssh" /\ UserKey(t) \notin abandoned
Clear(t) == ~OwesSecret(t) /\ \A h \in Hosts : ~Owed(t, h)

\* An open TaskRun has no cleanup TaskRun; what a failed provision TaskRun
\* made is abandoned; while a provision TaskRun counts, an account is owed on
\* its host only, and the secret only if it has succeeded.
ProvisionOK(t) ==
    \A h \in Hosts :
        /\ Open(tr[t]) => clean[<<t, h>>] = "none"
        /\ prov[<<t, h>>] = "failed" => ~Owed(t, h)
        /\ Live(<<t, h>>) => /\ \A g \in Hosts : Owed(t, g) => g = h
                             /\ OwesSecret(t) => prov[<<t, h>>] = "succeeded"

\* A host with an account that is owed for t is its host, or is being cleaned
\* up; a cleanup TaskRun of t is for the host with the account.
AccountsOK(t) ==
    \A h \in Hosts : Owed(t, h) =>
        /\ tr[t].assigned = h \/ clean[<<t, h>>] = "running"
        /\ \A g \in Hosts :
              clean[<<t, g>>] # "none" => clean[<<t, h>>] = "running"

\* A TaskRun that owes its secret has a host, or is about to delete it.
SecretOK(t) ==
    OwesSecret(t) =>
        \/ tr[t].assigned # None
        \/ \E w \in Workers : /\ worker[w].pc = "deleteSecret"
                              /\ worker[w].key = UserKey(t)

CleanTask(t) == ProvisionOK(t) /\ AccountsOK(t) /\ SecretOK(t)

\* A reconcile of t that allocates finds nothing owed; one that releases
\* knows the host, and has it cleaned up before it gives the host up.
Cleans(r, t) ==
    /\ r.pc \in Writing => Clear(t)
    /\ r.pc = "deallocate" => \A h \in Hosts :
          Owed(t, h) => r.host = h \/ clean[<<t, h>>] = "running"
    /\ r.pc = "release" => \A h \in Hosts :
          Owed(t, h) => clean[<<t, h>>] = "running"

CleanInv ==
    /\ LeaseInv /\ NotCreated
    /\ \A t \in Tasks : CleanTask(t)
    /\ \A w \in Workers, t \in Tasks :
          worker[w].key = UserKey(t) => Cleans(worker[w], t)

(***************************************************************************)
(* What storing a copy does to a TaskRun.                                  *)
(***************************************************************************)

\* The stored object has the host of the copy, and is open if the copy is.
LEMMA PutFacts ==
    ASSUME CopiesConsistent, NEW t \in Tasks, NEW o \in Copy, Put(t, o)
    PROVE  /\ tr'[t] = Settled(o) /\ \A u \in Tasks \ {t} : tr'[u] = tr[u]
           /\ tr'[t].assigned = o.assigned
           /\ Open(tr'[t]) <=> Open(o)
<1>1. tr \in [Tasks -> Copy]
  BY DEF CopiesConsistent, StoreOK
<1>2. tr'[t] = Settled(o) /\ \A u \in Tasks \ {t} : tr'[u] = tr[u]
  BY <1>1 DEF Put, storeVars
<1>3. Settled(o).assigned = o.assigned /\ (Open(Settled(o)) <=> Open(o))
  BY DEF Settled, Gone, Absent, Open, Copy, TaskRun
<1>4. QED
  BY <1>2, <1>3

\* An update leaves to Tekton and the user what is theirs.
LEMMA UpdateFacts ==
    ASSUME CopiesConsistent, NEW t \in Tasks, NEW o \in Copy,
           UpdateTaskRunWithRetry(t, o)
    PROVE  /\ \A u \in Tasks \ {t} : tr'[u] = tr[u]
           /\ tr'[t].assigned = o.assigned
           /\ Open(tr'[t]) <=> Open(tr[t])
           /\ Runs(tr[t]) => Runs(tr'[t])
           /\ Open(tr[t]) => tr'[t].failed = o.failed
<1> DEFINE m == Merged(tr[t], o)
<1>1. tr[t] \in Copy /\ m \in Copy
  BY MergedCopy DEF CopiesConsistent, StoreOK
<1>2. /\ m.assigned = o.assigned /\ m.failed = o.failed
      /\ m.phase = tr[t].phase /\ m.deleting = tr[t].deleting
  BY <1>1 DEF Merged, Copy, TaskRun
<1>3. Put(t, m)
  BY DEF UpdateTaskRunWithRetry
<1> HIDE DEF m
<1>4. /\ tr'[t] = Settled(m) /\ \A u \in Tasks \ {t} : tr'[u] = tr[u]
      /\ tr'[t].assigned = m.assigned /\ (Open(tr'[t]) <=> Open(m))
  BY <1>1, <1>3, PutFacts
<1>5. Open(tr[t]) => tr'[t] = m
  BY <1>2, <1>4 DEF Settled, Open
<1>6. QED
  BY <1>2, <1>4, <1>5 DEF Open, Runs

(***************************************************************************)
(* What the invariant says of one reconcile.                               *)
(***************************************************************************)

\* A TaskRun record of the API server, of a worker's memory.
LEMMA Typed ==
    ASSUME CopiesConsistent
    PROVE  /\ tr \in [Tasks -> Copy]
           /\ \A t \in Tasks : tr[t] \in Copy /\ tr[t] \in TaskRun
           /\ worker \in [Workers -> Busy \cup {Idle}]
           /\ prov \in [Leases -> JobState]
           /\ \A w \in Workers : worker[w].pc = "idle" =>
                 worker[w] = Idle /\ worker[w].key \notin Keys
<1>1. tr \in [Tasks -> Copy] /\ worker \in [Workers -> Busy \cup {Idle}]
  BY DEF CopiesConsistent, StoreOK, WorkersOK
<1>2. \A t \in Tasks : tr[t] \in Copy /\ tr[t] \in TaskRun
  BY <1>1, CopyIsTaskRun
<1>3. prov \in [Leases -> JobState]
  BY DEF CopiesConsistent, RestOK
<1>4. NoKey \notin Keys
  BY ConstantsAssumption DEF NoKey, Keys, Tasks
<1>5. \A w \in Workers : worker[w].pc = "idle" =>
         worker[w] = Idle /\ worker[w].key \notin Keys
  BY <1>1, <1>4 DEF Busy, Idle
<1>6. QED
  BY <1>1, <1>2, <1>3, <1>5

\* Keys of user TaskRuns are not keys of provision TaskRuns.
LEMMA KeyKinds ==
    ASSUME NEW t \in Tasks
    PROVE  /\ UserKey(t) \in Keys /\ UserKey(t) \notin Leases
           /\ UserKey(t)[1] = t /\ UserKey(t)[2] = None
           /\ \A h \in Hosts : /\ <<t, h>> \in Keys /\ <<t, h>> \in Leases
                               /\ <<t, h>>[1] = t /\ <<t, h>>[2] = h
BY ConstantsAssumption DEF UserKey, Keys, Leases

\* A reconcile of a user TaskRun allocates or releases.
LEMMA UserReconcile ==
    ASSUME LeaseInv, NEW w \in Workers, NEW t \in Tasks,
           worker[w].key = UserKey(t)
    PROVE  /\ worker[w].pc \in Allocating \cup Releasing
           /\ worker[w].pc \in Releasing => ~Open(tr[t])
           /\ worker[w].pc \in Allocating => AllocatingOK(worker[w], t)
<1>1. worker[w].pc # "idle"
  BY Typed, KeyKinds DEF LeaseInv
<1>2. worker[w].key[1] = t /\ worker[w].key \notin Leases
  BY KeyKinds
<1>3. ReconcileOK(w)
  BY DEF LeaseInv
<1>4. \A pc \in Allocating : pc \notin Releasing
  BY DEF Allocating, Writing, Choosing, Releasing
<1>5. QED
  BY <1>1, <1>2, <1>3, <1>4 DEF ReconcileOK

\* A reconcile of a provision TaskRun deals with its outcome.
LEMMA ProvisionReconcile ==
    ASSUME LeaseInv, NEW w \in Workers, worker[w].key \in Leases
    PROVE  OutcomeOK(worker[w])
<1>1. worker[w].pc # "idle" /\ worker[w].key[1] \in Tasks
  BY Typed DEF LeaseInv, Leases, Keys
<1>2. worker[w].key # UserKey(worker[w].key[1])
  BY <1>1, KeyKinds
<1>3. ReconcileOK(w)
  BY DEF LeaseInv
<1>4. QED
  BY <1>1, <1>2, <1>3 DEF ReconcileOK

\* The pc tells which it is, except for the error path.
LEMMA KeyOf ==
    ASSUME LeaseInv, NEW w \in Workers, worker[w].pc # "idle"
    PROVE  /\ TaskOf(w) \in Tasks
           /\ worker[w].key = UserKey(TaskOf(w)) \/ worker[w].key \in Leases
           /\ worker[w].pc \in Choosing \cup Releasing
                               \cup {"configFail", "configSecret"}
              => worker[w].key = UserKey(TaskOf(w))
           /\ worker[w].pc \in {"unassignFailed", "mark"}
              => worker[w].key \in Leases
<1>1. worker[w] \in Busy /\ worker[w].key \in Keys /\ TaskOf(w) \in Tasks
  BY BusyWorker DEF LeaseInv, CopiesConsistent
<1>2. worker[w].key = UserKey(TaskOf(w)) \/ worker[w].key \in Leases
  BY <1>1 DEF Keys, Leases, UserKey, TaskOf
<1>3. worker[w].key \in Leases =>
         worker[w].pc \in {"fail", "errorSecret", "unassignFailed", "mark"}
  BY ProvisionReconcile DEF OutcomeOK
<1>4. QED
  BY <1>1, <1>2, <1>3 DEF Choosing, Releasing, Busy

\* A worker with the key of a live provision TaskRun, or about to take the
\* host away, has no allocating reconcile beside it.
LEMMA FailedIsLive ==
    ASSUME LeaseInv, NEW w \in Workers, worker[w].pc = "unassignFailed"
    PROVE  worker[w].key \in Leases /\ Live(worker[w].key)
<1>1. worker[w].key \in Leases
  BY KeyOf DEF TaskOf
<1>2. prov[worker[w].key] = "failed" /\ worker[w].key \notin processed
  BY <1>1, ProvisionReconcile DEF OutcomeOK
<1>3. ~Marking(worker[w].key)
  <2> SUFFICES ASSUME NEW v \in Workers, worker[v].pc = "mark",
                      worker[v].key = worker[w].key
               PROVE  FALSE
    BY DEF Marking
  <2>1. v = w
    BY DEF LeaseInv, KeysApart
  <2>2. QED
    BY <2>1
<1>4. QED
  BY <1>1, <1>2, <1>3 DEF Live

(***************************************************************************)
(* Steps.                                                                  *)
(***************************************************************************)

\* A step that leaves the provision TaskRuns alone, of workers that are not
\* about to mark one, makes none count that did not.
LEMMA LiveKept ==
    ASSUME NEW W \in SUBSET Workers, NEW l \in Leases,
           \A v \in Workers \ W : worker'[v] = worker[v],
           \A v \in W : worker[v].pc # "mark",
           UNCHANGED <<prov, processed>>, Live(l)'
    PROVE  Live(l)
BY DEF Live, Marking

\* A step that changes the TaskRun t and the workers of W, at most one,
\* keeps the invariant if it suits the worker of W and the TaskRun t; no
\* reconcile that allocates for t may be outside W, unless t keeps its host.
LEMMA StepKeeps ==
    ASSUME LeaseInv, CopiesConsistent', NEW t \in Tasks,
           NEW W \in SUBSET Workers, \A u, v \in W : u = v,
           \A v \in Workers \ W : worker'[v] = worker[v],
           \A v \in W :
               /\ ReconcileOK(v)'
               /\ \/ worker'[v].pc = "idle"
                  \/ worker'[v].key = worker[v].key /\ worker[v].pc # "idle"
                  \/ \A u \in Workers : worker[u].key # worker'[v].key,
           \A u \in Tasks \ {t} : tr'[u] = tr[u],
           ~Open(tr[t]) => ~Open(tr'[t]),
           \A u \in Tasks \ {t}, h \in Hosts : Live(<<u, h>>)' => Live(<<u, h>>),
           \/ /\ tr'[t].assigned = tr[t].assigned
              /\ \A h \in Hosts : Live(<<t, h>>)' => Live(<<t, h>>)
           \/ \A v \in Workers \ W :
                 worker[v].key = UserKey(t) => worker[v].pc \notin Allocating,
           \A g, h \in Hosts : Live(<<t, g>>)' /\ Live(<<t, h>>)' => g = h,
           \A h \in Hosts : Open(tr'[t]) /\ Live(<<t, h>>)'
                            => tr'[t].assigned = h,
           \A l \in Leases :
               \/ prov'[l] = prov[l] /\ (l \in processed' => l \in processed)
               \/ \A v \in Workers \ W : worker[v].key # l,
           \A l \in processed' : prov'[l] \in Finished
    PROVE  LeaseInv'
<1>1. KeysApart'
  <2> SUFFICES ASSUME NEW u \in Workers, NEW v \in Workers,
                      worker'[u].pc # "idle", worker'[u].key = worker'[v].key
               PROVE  u = v
    BY DEF KeysApart
  <2>1. worker'[u].key \in Keys /\ worker'[v].pc # "idle"
    BY Typed DEF CopiesConsistent, WorkersOK, Busy, Idle, NoKey, Keys, Tasks
  <2>2. \A x \in Workers : worker[x].pc = "idle" => worker[x].key \notin Keys
    BY Typed DEF LeaseInv
  <2>3. KeysApart
    BY DEF LeaseInv
  <2>4. CASE u \in W /\ v \in W
    BY <2>4
  <2>5. CASE u \notin W /\ v \notin W
    BY <2>3, <2>5 DEF KeysApart
  <2>6. CASE u \in W /\ v \notin W
    BY <2>1, <2>2, <2>3, <2>6 DEF KeysApart
  <2>7. CASE u \notin W /\ v \in W
    BY <2>1, <2>2, <2>3, <2>7 DEF KeysApart
  <2>8. QED
    BY <2>4, <2>5, <2>6, <2>7
<1>2. OneLease'
  <2> SUFFICES ASSUME NEW u \in Tasks, NEW g \in Hosts, NEW h \in Hosts,
                      Live(<<u, g>>)', Live(<<u, h>>)'
               PROVE  g = h
    BY DEF OneLease
  <2>1. CASE u = t
    BY <2>1
  <2>2. CASE u # t
    BY <2>2 DEF LeaseInv, OneLease
  <2>3. QED
    BY <2>1, <2>2
<1>3. Held'
  <2> SUFFICES ASSUME NEW u \in Tasks, NEW h \in Hosts,
                      Open(tr[u])', Live(<<u, h>>)'
               PROVE  tr'[u].assigned = h
    BY DEF Held
  <2>1. CASE u = t
    BY <2>1
  <2>2. CASE u # t
    BY <2>2 DEF LeaseInv, Held
  <2>3. QED
    BY <2>1, <2>2
<1>4. ASSUME NEW v \in Workers PROVE ReconcileOK(v)'
  <2>1. CASE v \in W
    BY <2>1
  <2>2. CASE v \notin W
    <3> DEFINE r == worker[v]
               u == r.key[1]
    <3>1. worker'[v] = r
      BY <2>2
    <3>2. CASE r.pc = "idle"
      BY <3>1, <3>2 DEF ReconcileOK
    <3>3. CASE r.pc # "idle" /\ r.key = UserKey(u)
      <4>1. u \in Tasks
        BY <3>3, KeyOf DEF TaskOf
      <4>2. ~Open(tr[u]) => ~Open(tr'[u])
        BY <4>1
      <4>3. CASE r.pc \in Releasing
        BY <3>1, <3>3, <4>1, <4>2, <4>3, UserReconcile DEF ReconcileOK
      <4>4. CASE r.pc \in Allocating
        <5>1. AllocatingOK(r, u)
          BY <3>3, <4>1, <4>4, UserReconcile
        <5>2. /\ tr'[u].assigned = tr[u].assigned
              /\ \A h \in Hosts : Live(<<u, h>>)' => Live(<<u, h>>)
          BY <2>2, <3>3, <4>1, <4>4
        <5>3. NoLive(u)'
          BY <5>1, <5>2 DEF AllocatingOK, NoLive
        <5>4. AllocatingOK(worker[v], u)'
          BY <3>1, <5>1, <5>2, <5>3 DEF AllocatingOK
        <5>5. QED
          BY <3>1, <3>3, <4>4, <5>4 DEF ReconcileOK
      <4>5. QED
        BY <3>3, <4>1, <4>3, <4>4, UserReconcile
    <3>4. CASE r.key \in Leases
      <4>1. OutcomeOK(r)
        BY <3>4, ProvisionReconcile
      <4>2. prov'[r.key] = prov[r.key] /\ r.key \notin processed'
        BY <2>2, <3>4, <4>1 DEF OutcomeOK
      <4>3. OutcomeOK(worker[v])'
        BY <3>1, <4>1, <4>2 DEF OutcomeOK
      <4>4. QED
        BY <3>1, <3>4, <4>3 DEF ReconcileOK
    <3>5. QED
      BY <3>2, <3>3, <3>4, KeyOf DEF TaskOf
  <2>3. QED
    BY <2>1, <2>2
<1>5. QED
  BY <1>1, <1>2, <1>3, <1>4 DEF LeaseInv

\* The same for a step that leaves the provision TaskRuns alone.
LEMMA QuietStepKeeps ==
    ASSUME LeaseInv, CopiesConsistent', NEW t \in Tasks,
           NEW W \in SUBSET Workers, \A u, v \in W : u = v,
           \A v \in Workers \ W : worker'[v] = worker[v],
           \A v \in W :
               /\ worker[v].pc # "mark"
               /\ ReconcileOK(v)'
               /\ \/ worker'[v].pc = "idle"
                  \/ worker'[v].key = worker[v].key /\ worker[v].pc # "idle"
                  \/ \A u \in Workers : worker[u].key # worker'[v].key,
           \A u \in Tasks \ {t} : tr'[u] = tr[u],
           ~Open(tr[t]) => ~Open(tr'[t]),
           Open(tr'[t]) => Open(tr[t]),
           \/ tr'[t].assigned = tr[t].assigned
           \/ /\ \A v \in Workers \ W :
                    worker[v].key = UserKey(t) => worker[v].pc \notin Allocating
              /\ Open(tr'[t]) => NoLive(t),
           UNCHANGED <<prov, processed>>
    PROVE  LeaseInv'
<1>1. \A l \in Leases : Live(l)' => Live(l)
  BY LiveKept
<1>2. \A u \in Tasks, h \in Hosts : Live(<<u, h>>)' => Live(<<u, h>>)
  BY <1>1 DEF Leases
<1>3. \A g, h \in Hosts : Live(<<t, g>>)' /\ Live(<<t, h>>)' => g = h
  BY <1>2 DEF LeaseInv, OneLease
<1>4. \A h \in Hosts : Open(tr'[t]) /\ Live(<<t, h>>)' => tr'[t].assigned = h
  BY <1>2 DEF LeaseInv, Held, NoLive
<1>5. \A l \in processed' : prov'[l] \in Finished
  BY DEF LeaseInv
<1>6. QED
  BY <1>2, <1>3, <1>4, <1>5, StepKeeps

(***************************************************************************)
(* The moves of a worker.                                                  *)
(***************************************************************************)

\* What each of them leaves in the worker.
LEMMA ReturnMove ==
    ASSUME CopiesConsistent, NEW w \in Workers, Return(w)
    PROVE  /\ \A v \in Workers \ {w} : worker'[v] = worker[v]
           /\ worker'[w] = Idle /\ worker'[w].pc = "idle"
BY Typed DEF Return, Idle

LEMMA RequeueMove ==
    ASSUME CopiesConsistent, NEW w \in Workers, NotServed(w) \/ Requeue(w)
    PROVE  /\ \A v \in Workers \ {w} : worker'[v] = worker[v]
           /\ worker'[w] = Idle /\ worker'[w].pc = "idle"
BY ReturnMove DEF NotServed, Requeue

LEMMA BeginMove ==
    ASSUME CopiesConsistent, NEW w \in Workers, NEW pc, NEW key, NEW seen,
           NEW o, NEW h, Begin(w, pc, key, seen, o, h)
    PROVE  /\ \A v \in Workers \ {w} : worker'[v] = worker[v]
           /\ worker'[w].pc = pc /\ worker'[w].key = key
           /\ worker'[w].obj = o /\ worker'[w].seen = seen
           /\ worker'[w].host = h
BY Typed DEF Begin

LEMMA GotoMove ==
    ASSUME CopiesConsistent, NEW w \in Workers, worker[w].pc # "idle",
           NEW pc, Goto(w, pc)
    PROVE  /\ \A v \in Workers \ {w} : worker'[v] = worker[v]
           /\ worker'[w].pc = pc /\ worker'[w].key = worker[w].key
           /\ worker'[w].host = worker[w].host
<1>1. worker[w] \in Busy
  BY BusyWorker DEF CopiesConsistent
<1>2. QED
  BY <1>1, Typed DEF Goto, Busy, Worker

LEMMA KeepMove ==
    ASSUME CopiesConsistent, NEW w \in Workers, worker[w].pc # "idle",
           NEW pc, NEW o, Keep(w, pc, o)
    PROVE  /\ \A v \in Workers \ {w} : worker'[v] = worker[v]
           /\ worker'[w].pc = pc /\ worker'[w].key = worker[w].key
           /\ worker'[w].obj = o /\ worker'[w].host = worker[w].host
           /\ worker'[w].seen = IF worker[w].seen = tr[TaskOf(w)]
                                THEN tr'[TaskOf(w)] ELSE worker[w].seen
<1>1. worker[w] \in Busy
  BY BusyWorker DEF CopiesConsistent
<1>2. QED
  BY <1>1, Typed DEF Keep, Busy, Worker, TaskOf

\* A reconcile that has the key of t is the only one that allocates for t.
LEMMA Alone ==
    ASSUME LeaseInv, NEW w \in Workers, NEW t \in Tasks,
           worker[w].key = UserKey(t), NEW v \in Workers \ {w}
    PROVE  worker[v].key # UserKey(t)
<1>1. worker[w].pc # "idle"
  BY Typed, KeyKinds DEF LeaseInv
<1>2. QED
  BY <1>1 DEF LeaseInv, KeysApart

(***************************************************************************)
(* Each action keeps the invariant.                                        *)
(***************************************************************************)

\* A reconcile goes on, or ends; of the TaskRuns only its own changes.
LEMMA MoveKeeps ==
    ASSUME LeaseInv, CopiesConsistent', NEW w \in Workers,
           worker[w].pc \notin {"idle", "mark"},
           \A v \in Workers \ {w} : worker'[v] = worker[v],
           worker'[w].pc = "idle" \/ worker'[w].key = worker[w].key,
           ReconcileOK(w)',
           \A u \in Tasks \ {TaskOf(w)} : tr'[u] = tr[u],
           Open(tr'[TaskOf(w)]) <=> Open(tr[TaskOf(w)]),
           \/ tr'[TaskOf(w)].assigned = tr[TaskOf(w)].assigned
           \/ /\ worker[w].key = UserKey(TaskOf(w))
              /\ Open(tr[TaskOf(w)]) => NoLive(TaskOf(w)),
           UNCHANGED <<prov, processed>>
    PROVE  LeaseInv'
<1> DEFINE t == TaskOf(w)
           W == {w}
<1>1. t \in Tasks
  BY KeyOf
<1>2. worker[w].key = UserKey(t) =>
         \A v \in Workers \ W : worker[v].key # UserKey(t)
  BY <1>1, Alone
<1>3. \A v \in W : /\ worker[v].pc # "mark" /\ ReconcileOK(v)'
                   /\ worker[v].pc # "idle"
                   /\ \/ worker'[v].pc = "idle"
                      \/ worker'[v].key = worker[v].key
  OBVIOUS
<1>4. W \in SUBSET Workers /\ \A u, v \in W : u = v
  OBVIOUS
<1>5. \A v \in Workers \ W : worker'[v] = worker[v]
  OBVIOUS
<1> HIDE DEF W, t
<1>6. /\ \A u \in Tasks \ {t} : tr'[u] = tr[u]
      /\ Open(tr'[t]) <=> Open(tr[t])
      /\ \/ tr'[t].assigned = tr[t].assigned
         \/ worker[w].key = UserKey(t) /\ (Open(tr[t]) => NoLive(t))
  BY DEF t
<1>7. QED
  BY <1>1, <1>2, <1>3, <1>4, <1>5, <1>6, QuietStepKeeps

\* A reconcile ends, and nothing else changes but the secrets.
LEMMA EndKeeps ==
    ASSUME LeaseInv, CopiesConsistent', NEW w \in Workers,
           worker[w].pc \notin {"idle", "mark"},
           \A v \in Workers \ {w} : worker'[v] = worker[v],
           worker'[w].pc = "idle", UNCHANGED <<tr, prov, processed>>
    PROVE  LeaseInv'
<1>1. ReconcileOK(w)'
  BY DEF ReconcileOK
<1>2. QED
  BY <1>1, MoveKeeps

\* What the invariant says of a worker that chooses a host or reports an
\* error to a user TaskRun.
LEMMA AtAllocating ==
    ASSUME LeaseInv, NEW w \in Workers, worker[w].pc \in Allocating,
           worker[w].key = UserKey(TaskOf(w))
    PROVE  /\ TaskOf(w) \in Tasks /\ worker[w].obj \in Copy
           /\ AllocatingOK(worker[w], TaskOf(w)) /\ NoLive(TaskOf(w))
           /\ worker[w].pc \notin {"idle", "mark"}
<1>1. worker[w].pc \notin {"idle", "mark"}
  BY DEF Allocating, Writing, Choosing
<1>2. TaskOf(w) \in Tasks /\ worker[w].obj \in Copy
  BY <1>1, KeyOf, BusyWorker DEF LeaseInv, CopiesConsistent
<1>3. AllocatingOK(worker[w], TaskOf(w))
  BY <1>2, UserReconcile
<1>4. QED
  BY <1>1, <1>2, <1>3 DEF AllocatingOK

\* Nothing comes to count by a step that leaves the provision TaskRuns alone.
LEMMA NoLiveKept ==
    ASSUME NEW t \in Tasks, NoLive(t), NEW w \in Workers,
           \A v \in Workers \ {w} : worker'[v] = worker[v],
           worker[w].pc # "mark", UNCHANGED <<prov, processed>>
    PROVE  NoLive(t)'
<1> SUFFICES ASSUME NEW h \in Hosts, Live(<<t, h>>)' PROVE Live(<<t, h>>)
  BY DEF NoLive
<1>1. <<t, h>> \in Leases
  BY KeyKinds
<1> DEFINE W == {w}
<1>2. W \in SUBSET Workers /\ \A v \in W : worker[v].pc # "mark"
  OBVIOUS
<1>3. \A v \in Workers \ W : worker'[v] = worker[v]
  OBVIOUS
<1> HIDE DEF W
<1>4. QED
  BY <1>1, <1>2, <1>3, LiveKept

LEMMA WaitForHostKeeps ==
    ASSUME LeaseInv, CopiesConsistent', NEW w \in Workers, WaitForHost(w)
    PROVE  LeaseInv'
<1> DEFINE r == worker[w]
<1>1. r.pc = "wait" /\ UNCHANGED <<prov, processed>>
  BY DEF WaitForHost, At, jobVars
<1>2. PICK t \in Tasks : t = TaskOf(w) /\ r.key = UserKey(t)
  BY <1>1, KeyOf DEF Choosing
<1>3. /\ t \in Tasks /\ r.obj \in Copy /\ AllocatingOK(r, t) /\ NoLive(t)
      /\ r.pc \notin {"idle", "mark"}
  BY <1>1, <1>2, AtAllocating DEF Allocating, Writing, Choosing
<1>4. CASE Exists(tr[t])
  <2>1. UpdateTaskRunWithRetry(t, r.obj) /\ Requeue(w)
    BY <1>2, <1>4 DEF WaitForHost
  <2>2. /\ \A u \in Tasks \ {t} : tr'[u] = tr[u]
        /\ Open(tr'[t]) <=> Open(tr[t])
    BY <1>3, <2>1, UpdateFacts DEF LeaseInv
  <2>3. /\ \A v \in Workers \ {w} : worker'[v] = worker[v]
        /\ worker'[w].pc = "idle"
    BY <2>1, RequeueMove DEF LeaseInv
  <2>4. ReconcileOK(w)'
    BY <2>3 DEF ReconcileOK
  <2>5. QED
    BY <1>1, <1>2, <1>3, <2>2, <2>3, <2>4, MoveKeeps
<1>5. CASE ~Exists(tr[t])
  <2>1. UNCHANGED tr /\ Keep(w, FailPC(r.obj), r.obj)
    BY <1>2, <1>5 DEF WaitForHost
  <2>2. /\ \A v \in Workers \ {w} : worker'[v] = worker[v]
        /\ worker'[w].pc = FailPC(r.obj) /\ worker'[w].key = r.key
        /\ worker'[w].obj = r.obj /\ worker'[w].host = r.host
        /\ worker'[w].seen = r.seen
    BY <1>2, <1>3, <2>1, KeepMove DEF LeaseInv
  <2>3. NoLive(t)'
    BY <1>1, <1>3, <2>2, NoLiveKept
  <2>4. AllocatingOK(worker[w], t)'
    BY <1>1, <1>3, <2>1, <2>2, <2>3
    DEF AllocatingOK, FailPC, Writing, Choosing
  <2>5. worker'[w].pc \in Allocating
    BY <2>2 DEF FailPC, Allocating, Writing, Choosing
  <2>6. ReconcileOK(w)'
    BY <1>2, <2>2, <2>4, <2>5, KeyKinds DEF ReconcileOK
  <2>7. QED
    BY <1>1, <1>2, <1>3, <2>1, <2>2, <2>6, MoveKeeps
<1>6. QED
  BY <1>4, <1>5

LEMMA AssignHostKeeps ==
    ASSUME LeaseInv, CopiesConsistent', NEW w \in Workers, AssignHost(w)
    PROVE  LeaseInv'
<1> DEFINE r == worker[w]
<1>1. r.pc = "assign" /\ UNCHANGED <<prov, processed>>
  BY DEF AssignHost, At, jobVars
<1>2. PICK t \in Tasks : t = TaskOf(w) /\ r.key = UserKey(t)
  BY <1>1, KeyOf DEF Choosing
<1>3. /\ t \in Tasks /\ r.obj \in Copy /\ AllocatingOK(r, t) /\ NoLive(t)
      /\ r.pc \notin {"idle", "mark"}
  BY <1>1, <1>2, AtAllocating DEF Allocating, Writing, Choosing
<1>4. CASE Exists(tr[t])
  <2>1. UpdateTaskRunWithRetry(t, r.obj) /\ Keep(w, "launch", r.obj)
    BY <1>2, <1>4 DEF AssignHost
  <2>2. /\ \A u \in Tasks \ {t} : tr'[u] = tr[u]
        /\ tr'[t].assigned = r.obj.assigned
        /\ Open(tr'[t]) <=> Open(tr[t])
        /\ Runs(tr[t]) => Runs(tr'[t])
    BY <1>3, <2>1, UpdateFacts DEF LeaseInv
  <2>3. /\ \A v \in Workers \ {w} : worker'[v] = worker[v]
        /\ worker'[w].pc = "launch" /\ worker'[w].key = r.key
        /\ worker'[w].obj = r.obj /\ worker'[w].host = r.host
        /\ worker'[w].seen = IF r.seen = tr[t] THEN tr'[t] ELSE r.seen
    BY <1>2, <1>3, <2>1, KeepMove DEF LeaseInv
  <2>4. NoLive(t)'
    BY <1>1, <1>3, <2>3, NoLiveKept
  <2>5. AllocatingOK(worker[w], t)'
    BY <1>1, <1>3, <2>2, <2>3, <2>4 DEF AllocatingOK, Writing, Choosing
  <2>6. ReconcileOK(w)'
    BY <1>2, <2>3, <2>5, KeyKinds
    DEF ReconcileOK, Allocating, Writing, Choosing
  <2>7. QED
    BY <1>1, <1>2, <1>3, <2>2, <2>3, <2>6, MoveKeeps
<1>5. CASE ~Exists(tr[t])
  <2>1. UNCHANGED tr /\ Goto(w, "errorSecret")
    BY <1>2, <1>5 DEF AssignHost, storeVars
  <2>2. /\ \A v \in Workers \ {w} : worker'[v] = worker[v]
        /\ worker'[w].pc = "errorSecret" /\ worker'[w].key = r.key
    BY <1>3, <2>1, GotoMove DEF LeaseInv
  <2>3. NoLive(t)'
    BY <1>1, <1>3, <2>2, NoLiveKept
  <2>4. ReconcileOK(w)'
    BY <1>2, <2>2, <2>3, KeyKinds
    DEF ReconcileOK, AllocatingOK, Allocating, Writing, Choosing
  <2>5. QED
    BY <1>1, <1>2, <1>3, <2>1, <2>2, <2>4, MoveKeeps
<1>6. QED
  BY <1>4, <1>5

\* The launch makes a provision TaskRun count, for a TaskRun that had none
\* and has the host.
LEMMA LaunchProvisionKeeps ==
    ASSUME LeaseInv, CopiesConsistent', NEW w \in Workers, LaunchProvision(w)
    PROVE  LeaseInv'
<1> DEFINE r == worker[w]
           W == {w}
<1>1. /\ r.pc = "launch" /\ UNCHANGED <<tr, processed>> /\ Return(w)
      /\ \/ UNCHANGED prov
         \/ /\ prov[<<TaskOf(w), r.host>>] = "none"
            /\ prov' = [prov EXCEPT ![<<TaskOf(w), r.host>>] = "running"]
  BY DEF LaunchProvision, At
<1>2. PICK t \in Tasks : t = TaskOf(w) /\ r.key = UserKey(t)
  BY <1>1, KeyOf DEF Choosing
<1>3. /\ AllocatingOK(r, t) /\ NoLive(t) /\ r.pc \notin {"idle", "mark"}
  BY <1>1, <1>2, AtAllocating DEF Allocating, Writing, Choosing
<1>4. /\ \A v \in Workers \ W : worker'[v] = worker[v]
      /\ worker'[w].pc = "idle"
  BY <1>1, ReturnMove DEF LeaseInv
<1>5. CASE UNCHANGED prov
  BY <1>1, <1>3, <1>4, <1>5, EndKeeps
<1>6. CASE /\ prov[<<t, r.host>>] = "none"
           /\ prov' = [prov EXCEPT ![<<t, r.host>>] = "running"]
  <2>1. PICK h \in Hosts : h = r.host /\ tr[t].assigned = h
    BY <1>1, <1>3 DEF AllocatingOK
  <2>2. <<t, h>> \in Leases /\ prov \in [Leases -> JobState]
    BY KeyKinds, Typed DEF LeaseInv
  <2>3. ASSUME NEW l \in Leases, l # <<t, h>>, Live(l)' PROVE Live(l)
    <3>1. prov'[l] = prov[l]
      BY <1>6, <2>1, <2>2, <2>3
    <3>2. Marking(l) => Marking(l)'
      BY <1>1, <1>4 DEF Marking
    <3>3. QED
      BY <1>1, <2>3, <3>1, <3>2 DEF Live
  <2>4. \A u \in Tasks, g \in Hosts :
           u # t \/ g # h => <<u, g>> \in Leases /\ <<u, g>> # <<t, h>>
    BY KeyKinds
  <2>5. /\ \A u \in Tasks \ {t}, g \in Hosts :
              Live(<<u, g>>)' => Live(<<u, g>>)
        /\ \A g \in Hosts : Live(<<t, g>>)' => g = h
    BY <1>3, <2>3, <2>4 DEF NoLive
  <2>6. \A v \in Workers : worker[v].key # <<t, h>>
    <3> SUFFICES ASSUME NEW v \in Workers, worker[v].key = <<t, h>>
                 PROVE  FALSE
      OBVIOUS
    <3>1. prov[<<t, h>>] \in Finished
      BY <2>2, ProvisionReconcile DEF OutcomeOK
    <3>2. QED
      BY <1>6, <2>1, <3>1 DEF Finished
  <2>7. \A l \in Leases : prov'[l] = prov[l] \/ l = <<t, h>>
    BY <1>6, <2>1, <2>2
  <2>8. \A l \in processed' : prov'[l] \in Finished
    <3> SUFFICES ASSUME NEW l \in processed PROVE prov'[l] \in Finished
      BY <1>1
    <3>1. prov[l] \in Finished /\ l \in Leases
      BY DEF LeaseInv, CopiesConsistent, RestOK
    <3>2. QED
      BY <1>6, <2>1, <2>7, <3>1 DEF Finished
  <2>9. \A v \in Workers \ W : worker[v].key # UserKey(t)
    BY <1>2, Alone
  <2>10. \A v \in W : ReconcileOK(v)' /\ worker'[v].pc = "idle"
    BY <1>4 DEF ReconcileOK
  <2>11. W \in SUBSET Workers /\ \A u, v \in W : u = v
    OBVIOUS
  <2>12. /\ \A l \in Leases :
               \/ prov'[l] = prov[l] /\ (l \in processed' => l \in processed)
               \/ \A v \in Workers \ W : worker[v].key # l
         /\ \A g \in Hosts : Live(<<t, g>>)' => tr'[t].assigned = g
    BY <1>1, <2>1, <2>5, <2>6, <2>7
  <2> HIDE DEF W, r
  <2>13. QED
    BY <1>1, <1>4, <2>5, <2>8, <2>9, <2>10, <2>11, <2>12, StepKeeps
<1>7. QED
  BY <1>1, <1>2, <1>5, <1>6

LEMMA UnassignHostKeeps ==
    ASSUME LeaseInv, CopiesConsistent', NEW w \in Workers, UnassignHost(w)
    PROVE  LeaseInv'
<1> DEFINE r == worker[w]
<1>1. r.pc = "unassign" /\ UNCHANGED <<prov, processed>>
  BY DEF UnassignHost, At, jobVars
<1>2. PICK t \in Tasks : t = TaskOf(w) /\ r.key = UserKey(t)
  BY <1>1, KeyOf DEF Choosing
<1>3. /\ r.obj \in Copy /\ AllocatingOK(r, t) /\ NoLive(t)
      /\ r.pc \notin {"idle", "mark"}
  BY <1>1, <1>2, AtAllocating DEF Allocating, Writing, Choosing
<1>4. /\ \A u \in Tasks \ {t} : tr'[u] = tr[u]
      /\ tr'[t].assigned \in {None, tr[t].assigned}
      /\ Open(tr'[t]) <=> Open(tr[t])
      /\ Runs(tr[t]) => Runs(tr'[t])
  BY <1>1, <1>2, <1>3, UpdateFacts
  DEF UnassignHost, storeVars, LeaseInv, AllocatingOK
<1>5. /\ \A v \in Workers \ {w} : worker'[v] = worker[v]
      /\ worker'[w].pc = "fail" /\ worker'[w].key = r.key
      /\ worker'[w].obj = r.obj /\ worker'[w].host = r.host
      /\ worker'[w].seen = IF r.seen = tr[t] THEN tr'[t] ELSE r.seen
  BY <1>2, <1>3, KeepMove DEF LeaseInv, UnassignHost
<1>6. NoLive(t)'
  BY <1>1, <1>3, <1>5, NoLiveKept
<1>7. AllocatingOK(worker[w], t)'
  BY <1>1, <1>3, <1>4, <1>5, <1>6 DEF AllocatingOK, Writing, Choosing
<1>8. ReconcileOK(w)'
  BY <1>2, <1>5, <1>7, KeyKinds
  DEF ReconcileOK, Allocating, Writing, Choosing
<1>9. QED
  BY <1>1, <1>2, <1>3, <1>4, <1>5, <1>8, MoveKeeps

\* The copy that gets the finalizer has the host the TaskRun has, or none.
LEMMA AddErrorFinalizerKeeps ==
    ASSUME LeaseInv, CopiesConsistent', NEW w \in Workers,
           AddErrorFinalizer(w)
    PROVE  LeaseInv'
<1> DEFINE r == worker[w]
           o == [r.obj EXCEPT !.finalizer = TRUE]
<1>1. /\ r.pc \in {"fail", "configFail"} /\ r.pc \notin {"idle", "mark"}
      /\ UNCHANGED <<prov, processed>>
  BY DEF AddErrorFinalizer, At, jobVars
<1>2. PICK t \in Tasks : t = TaskOf(w)
  BY <1>1, KeyOf
<1>3. /\ r.obj \in Copy /\ o \in Copy /\ o.assigned = r.obj.assigned
      /\ (Open(o) <=> Open(r.obj))
  <2>1. r.obj \in Copy
    BY <1>1, BusyWorker DEF LeaseInv, CopiesConsistent
  <2>2. QED
    BY <2>1, UpdatedCopies, ZenonT(40) DEF Copy, TaskRun, Open
<1> HIDE DEF o
<1>4. CASE /\ tr[t] # r.seen
           /\ NotServed(w)
           /\ UNCHANGED storeVars
  <2>1. /\ \A v \in Workers \ {w} : worker'[v] = worker[v]
        /\ worker'[w].pc = "idle" /\ UNCHANGED tr
    BY <1>4, RequeueMove DEF LeaseInv, storeVars
  <2>2. QED
    BY <1>1, <2>1, EndKeeps
<1>5. ASSUME tr[t] = r.seen, Put(t, o),
             NEW pc \in {"errorSecret", "configSecret"}, Goto(w, pc),
             pc = "configSecret" => r.pc = "configFail"
      PROVE  LeaseInv'
  <2>1. /\ \A u \in Tasks \ {t} : tr'[u] = tr[u]
        /\ tr'[t].assigned = r.obj.assigned
        /\ Open(tr'[t]) <=> Open(r.obj)
    BY <1>3, <1>5, PutFacts DEF LeaseInv
  <2>2. /\ \A v \in Workers \ {w} : worker'[v] = worker[v]
        /\ worker'[w].pc = pc /\ worker'[w].key = r.key
    BY <1>1, <1>5, GotoMove DEF LeaseInv
  <2>3. CASE r.key = UserKey(t)
    <3>1. AllocatingOK(r, t) /\ NoLive(t)
      BY <1>1, <1>2, <2>3, AtAllocating DEF Allocating, Writing
    <3>2. Open(tr[t]) /\ Open(tr'[t])
      BY <1>1, <1>5, <2>1, <3>1 DEF AllocatingOK, Writing, Runs, Open
    <3>3. NoLive(t)'
      BY <1>1, <2>2, <3>1, NoLiveKept
    <3>4. ReconcileOK(w)'
      BY <2>2, <2>3, <3>3, KeyKinds
      DEF ReconcileOK, AllocatingOK, Allocating, Writing, Choosing
    <3>5. QED
      BY <1>1, <1>2, <2>1, <2>2, <2>3, <3>1, <3>2, <3>4, MoveKeeps
  <2>4. CASE r.key \in Leases
    <3>1. OutcomeOK(r)
      BY <2>4, ProvisionReconcile
    <3>2. r.pc = "fail" /\ r.obj = tr[t]
      BY <1>1, <1>5, <3>1 DEF OutcomeOK
    <3>3. OutcomeOK(worker[w])'
      BY <1>1, <1>5, <2>2, <3>1, <3>2 DEF OutcomeOK
    <3>4. ReconcileOK(w)'
      BY <2>2, <2>4, <3>3 DEF ReconcileOK
    <3>5. QED
      BY <1>1, <1>2, <2>1, <2>2, <3>2, <3>4, MoveKeeps
  <2>5. QED
    BY <1>1, <1>2, <2>3, <2>4, KeyOf
<1>6. QED
  BY <1>1, <1>2, <1>4, <1>5 DEF AddErrorFinalizer, At, o

LEMMA CreateErrorSecretKeeps ==
    ASSUME LeaseInv, CopiesConsistent', NEW w \in Workers,
           CreateErrorSecret(w)
    PROVE  LeaseInv'
<1> DEFINE r == worker[w]
<1>1. /\ r.pc \in {"errorSecret", "configSecret"}
      /\ r.pc \notin {"idle", "mark"} /\ UNCHANGED <<tr, prov, processed>>
  BY DEF CreateErrorSecret, At, jobVars
<1>2. CASE NotServed(w) \/ Return(w)
  BY <1>1, <1>2, RequeueMove, ReturnMove, EndKeeps DEF LeaseInv
<1>3. CASE Reconciles(w, "provision") /\ Goto(w, "mark")
  <2>1. r.key \in Leases /\ TaskOf(w) \in Tasks
    BY <1>1, <1>3, KeyOf, KeyKinds DEF Reconciles
  <2>2. /\ \A v \in Workers \ {w} : worker'[v] = worker[v]
        /\ worker'[w].pc = "mark" /\ worker'[w].key = r.key
    BY <1>1, <1>3, GotoMove DEF LeaseInv
  <2>3. OutcomeOK(r)
    BY <2>1, ProvisionReconcile
  <2>4. OutcomeOK(worker[w])'
    BY <1>1, <2>2, <2>3 DEF OutcomeOK
  <2>5. ReconcileOK(w)'
    BY <2>1, <2>2, <2>4 DEF ReconcileOK
  <2>6. QED
    BY <1>1, <2>2, <2>5, MoveKeeps
<1>4. QED
  BY <1>2, <1>3 DEF CreateErrorSecret

\* The release of a host, failing calls included.
LEMMA ReleasingKeeps ==
    ASSUME LeaseInv, CopiesConsistent', NEW w \in Workers,
           \/ Deallocate(w) \/ DeallocateFails(w) \/ ReleaseHost(w)
           \/ DeleteSecret(w) \/ SecretDeleteFails(w)
    PROVE  LeaseInv'
<1> DEFINE r == worker[w]
<1>1. /\ r.pc \in {"deallocate", "release", "deleteSecret"}
      /\ r.pc \notin {"idle", "mark"} /\ UNCHANGED <<prov, processed>>
  BY DEF Deallocate, DeallocateFails, ReleaseHost, DeleteSecret,
         SecretDeleteFails, At, jobVars
<1>2. PICK t \in Tasks : t = TaskOf(w) /\ r.key = UserKey(t)
  BY <1>1, KeyOf DEF Releasing
<1>3. ~Open(tr[t]) /\ r.obj \in Copy
  BY <1>1, <1>2, UserReconcile, BusyWorker
  DEF Releasing, LeaseInv, CopiesConsistent
<1>4. /\ \A u \in Tasks \ {t} : tr'[u] = tr[u]
      /\ Open(tr'[t]) <=> Open(tr[t])
  BY <1>2, <1>3, UpdateFacts
  DEF Deallocate, DeallocateFails, ReleaseHost, DeleteSecret,
      SecretDeleteFails, storeVars, LeaseInv
<1>5. \/ Requeue(w)
      \/ Goto(w, "deleteSecret") \/ Goto(w, "wake")
      \/ Keep(w, "release", Released(r.obj))
  BY DEF Deallocate, DeallocateFails, ReleaseHost, DeleteSecret,
         SecretDeleteFails
<1>6. CASE Requeue(w)
  <2>1. /\ \A v \in Workers \ {w} : worker'[v] = worker[v]
        /\ worker'[w].pc = "idle"
    BY <1>6, RequeueMove DEF LeaseInv
  <2>2. ReconcileOK(w)'
    BY <2>1 DEF ReconcileOK
  <2>3. QED
    BY <1>1, <1>2, <1>3, <1>4, <2>1, <2>2, MoveKeeps
<1>7. CASE ~Requeue(w)
  <2>1. /\ \A v \in Workers \ {w} : worker'[v] = worker[v]
        /\ worker'[w].pc \in Releasing /\ worker'[w].key = r.key
    BY <1>1, <1>5, <1>7, GotoMove, KeepMove DEF LeaseInv, Releasing
  <2>2. ReconcileOK(w)'
    BY <1>2, <1>3, <1>4, <2>1, KeyKinds DEF ReconcileOK
  <2>3. QED
    BY <1>1, <1>2, <1>3, <1>4, <2>1, <2>2, MoveKeeps
<1>8. QED
  BY <1>6, <1>7

\* A user's or Tekton's step on t, or the label FinishedWaiting: the host of
\* t stays, and what is not open stays so.
LEMMA StoreKeeps ==
    ASSUME LeaseInv, CopiesConsistent', NEW t \in Tasks,
           NEW W \in SUBSET Workers, \A u, v \in W : u = v,
           \A v \in Workers \ W : worker'[v] = worker[v],
           \A v \in W : worker[v].pc # "mark" /\ worker'[v].pc = "idle",
           \A u \in Tasks \ {t} : tr'[u] = tr[u],
           tr'[t].assigned = tr[t].assigned,
           Open(tr'[t]) => Open(tr[t]),
           UNCHANGED <<prov, processed>>
    PROVE  LeaseInv'
<1>1. \A v \in W : ReconcileOK(v)'
  BY DEF ReconcileOK
<1>2. QED
  BY <1>1, QuietStepKeeps

LEMMA WakeKeeps ==
    ASSUME LeaseInv, CopiesConsistent', NEW w \in Workers,
           WakeOldest(w) \/ WakeFails(w)
    PROVE  LeaseInv'
<1> DEFINE W == {w}
<1>1. /\ worker[w].pc = "wake" /\ worker[w].pc \notin {"idle", "mark"}
      /\ UNCHANGED <<prov, processed>> /\ Return(w)
  BY DEF WakeOldest, WakeFails, At, jobVars
<1>2. /\ \A v \in Workers \ W : worker'[v] = worker[v]
      /\ worker'[w].pc = "idle"
  BY <1>1, ReturnMove DEF LeaseInv
<1>3. \/ UNCHANGED tr
      \/ \E u \in Tasks : Put(u, [tr[u] EXCEPT !.woken = TRUE])
  BY DEF WakeOldest, WakeFails, storeVars
<1>4. CASE UNCHANGED tr
  BY <1>1, <1>2, <1>4, EndKeeps
<1>5. CASE \E u \in Tasks : Put(u, [tr[u] EXCEPT !.woken = TRUE])
  <2>1. PICK u \in Tasks : Put(u, [tr[u] EXCEPT !.woken = TRUE])
    BY <1>5
  <2> DEFINE o == [tr[u] EXCEPT !.woken = TRUE]
  <2>2. /\ o \in Copy /\ o.assigned = tr[u].assigned
        /\ (Open(o) <=> Open(tr[u]))
    BY Typed, UpdatedCopies DEF LeaseInv, TaskRun, Open
  <2> HIDE DEF o
  <2>3. /\ \A x \in Tasks \ {u} : tr'[x] = tr[x]
        /\ tr'[u].assigned = o.assigned /\ (Open(tr'[u]) <=> Open(o))
    BY <2>1, <2>2, PutFacts DEF LeaseInv, o
  <2>4. /\ W \in SUBSET Workers /\ \A x, v \in W : x = v
        /\ \A v \in W : worker[v].pc # "mark" /\ worker'[v].pc = "idle"
    BY <1>1, <1>2
  <2> HIDE DEF W
  <2>5. QED
    BY <1>1, <1>2, <2>2, <2>3, <2>4, StoreKeeps
<1>6. QED
  BY <1>3, <1>4, <1>5

\* A failed host is taken from the TaskRun: its provision TaskRun was the
\* one that counted, and does no more.
LEMMA UnassignFailedHostKeeps ==
    ASSUME LeaseInv, CopiesConsistent', NEW w \in Workers,
           UnassignFailedHost(w)
    PROVE  LeaseInv'
<1> DEFINE r == worker[w]
           W == {w}
<1>1. /\ r.pc = "unassignFailed" /\ r.pc \notin {"idle", "mark"}
      /\ UNCHANGED <<prov, processed>>
  BY DEF UnassignFailedHost, At, jobVars
<1>2. PICK t \in Tasks, h \in Hosts : t = TaskOf(w) /\ r.key = <<t, h>>
  BY <1>1, KeyOf DEF Leases, TaskOf
<1>3. <<t, h>> \in Leases /\ Live(<<t, h>>) /\ OutcomeOK(r)
  BY <1>1, <1>2, FailedIsLive, ProvisionReconcile
<1>4. CASE ~Exists(tr[t])
  <2>1. Requeue(w) /\ UNCHANGED tr
    BY <1>2, <1>4 DEF UnassignFailedHost, storeVars
  <2>2. /\ \A v \in Workers \ {w} : worker'[v] = worker[v]
        /\ worker'[w].pc = "idle"
    BY <2>1, RequeueMove DEF LeaseInv
  <2>3. QED
    BY <1>1, <2>1, <2>2, EndKeeps
<1>5. CASE Exists(tr[t])
  <2>1. UpdateTaskRunWithRetry(t, r.obj) /\ Goto(w, "mark") /\ r.obj \in Copy
    BY <1>1, <1>2, <1>5, BusyWorker
    DEF UnassignFailedHost, LeaseInv, CopiesConsistent
  <2>2. /\ \A u \in Tasks \ {t} : tr'[u] = tr[u]
        /\ Open(tr'[t]) <=> Open(tr[t])
    BY <2>1, UpdateFacts DEF LeaseInv
  <2>3. /\ \A v \in Workers \ W : worker'[v] = worker[v]
        /\ worker'[w].pc = "mark" /\ worker'[w].key = r.key
    BY <1>1, <2>1, GotoMove DEF LeaseInv
  <2>4. \A l \in Leases : Live(l)' => Live(l)
    BY <1>1, <2>3, LiveKept
  <2>5. ~Live(<<t, h>>)'
    BY <1>1, <1>2, <1>3, <2>3 DEF Live, Marking, OutcomeOK
  <2>6. /\ \A u \in Tasks, g \in Hosts : Live(<<u, g>>)' => Live(<<u, g>>)
        /\ \A g \in Hosts : ~Live(<<t, g>>)'
    BY <1>3, <2>4, <2>5, KeyKinds DEF LeaseInv, OneLease
  <2>7. \A v \in Workers \ W :
           worker[v].key = UserKey(t) => worker[v].pc \notin Allocating
    BY <1>3, UserReconcile DEF AllocatingOK, NoLive
  <2>8. OutcomeOK(worker[w])'
    BY <1>1, <2>3, <1>3 DEF OutcomeOK
  <2>9. \A v \in W : /\ ReconcileOK(v)' /\ worker'[v].key = worker[v].key
                     /\ worker[v].pc # "idle"
    BY <1>1, <1>2, <1>3, <2>3, <2>8 DEF ReconcileOK
  <2>10. W \in SUBSET Workers /\ \A u, v \in W : u = v
    OBVIOUS
  <2>11. \A l \in processed' : prov'[l] \in Finished
    BY <1>1 DEF LeaseInv
  <2> HIDE DEF W, r
  <2>12. QED
    BY <1>1, <2>2, <2>3, <2>6, <2>7, <2>9, <2>10, <2>11, StepKeeps
<1>6. QED
  BY <1>4, <1>5

LEMMA MarkProcessedKeeps ==
    ASSUME LeaseInv, CopiesConsistent', NEW w \in Workers, MarkProcessed(w)
    PROVE  LeaseInv'
<1> DEFINE r == worker[w]
           W == {w}
<1>1. /\ r.pc = "mark" /\ r.pc # "idle" /\ UNCHANGED <<tr, prov>> /\ Return(w)
      /\ processed' = processed \cup {r.key}
  BY DEF MarkProcessed, At
<1>2. PICK t \in Tasks, h \in Hosts : t = TaskOf(w) /\ r.key = <<t, h>>
  BY <1>1, KeyOf DEF Leases, TaskOf
<1>3. <<t, h>> \in Leases /\ OutcomeOK(r)
  BY <1>2, KeyKinds, ProvisionReconcile
<1>4. /\ \A v \in Workers \ W : worker'[v] = worker[v]
      /\ worker'[w].pc = "idle"
  BY <1>1, ReturnMove DEF LeaseInv
<1>5. ASSUME NEW l \in Leases, Live(l)' PROVE Live(l)
  <2>1. CASE l = <<t, h>>
    BY <1>1, <1>2, <1>5, <2>1 DEF Live
  <2>2. CASE l # <<t, h>>
    <3>1. Marking(l) => Marking(l)'
      BY <1>2, <1>4, <2>2 DEF Marking
    <3>2. QED
      BY <1>1, <1>5, <3>1 DEF Live
  <2>3. QED
    BY <2>1, <2>2
<1>6. \A u \in Tasks, g \in Hosts : Live(<<u, g>>)' => Live(<<u, g>>)
  BY <1>5, KeyKinds
<1>7. /\ \A g1, g2 \in Hosts : Live(<<t, g1>>)' /\ Live(<<t, g2>>)' => g1 = g2
      /\ \A g \in Hosts : Open(tr'[t]) /\ Live(<<t, g>>)'
                          => tr'[t].assigned = g
  BY <1>1, <1>6 DEF LeaseInv, OneLease, Held
<1>8. \A v \in Workers \ W : worker[v].key # <<t, h>>
  BY <1>1, <1>2 DEF LeaseInv, KeysApart
<1>9. /\ \A l \in processed' : prov'[l] \in Finished
      /\ \A l \in Leases :
            \/ prov'[l] = prov[l] /\ (l \in processed' => l \in processed)
            \/ \A v \in Workers \ W : worker[v].key # l
  BY <1>1, <1>2, <1>3, <1>8 DEF LeaseInv, OutcomeOK
<1>10. \A v \in W : ReconcileOK(v)' /\ worker'[v].pc = "idle"
  BY <1>4 DEF ReconcileOK
<1>11. W \in SUBSET Workers /\ \A u, v \in W : u = v
  OBVIOUS
<1> HIDE DEF W, r
<1>12. QED
  BY <1>1, <1>4, <1>6, <1>7, <1>9, <1>10, <1>11, StepKeeps

\* A call fails and the reconcile ends: not the one that marks an outcome.
LEMMA ErrorRequeuesKeeps ==
    ASSUME OutcomeOnce, LeaseInv, CopiesConsistent', NEW w \in Workers,
           ErrorRequeues(w) \/ KeyReadFails(w)
    PROVE  LeaseInv'
<1>1. /\ worker[w].pc \notin {"idle", "mark"}
      /\ UNCHANGED <<tr, prov, processed>>
  BY DEF OutcomeOnce, ErrorRequeues, KeyReadFails, Fault, At, jobVars
<1>2. /\ \A v \in Workers \ {w} : worker'[v] = worker[v]
      /\ worker'[w].pc = "idle"
  BY RequeueMove, ReturnMove DEF LeaseInv, ErrorRequeues, KeyReadFails
<1>3. QED
  BY <1>1, <1>2, EndKeeps

\* A call of Allocate fails and the reconcile goes on.
LEMMA AllocationErrorKeeps ==
    ASSUME LeaseInv, CopiesConsistent', NEW w \in Workers,
           ErrorFailsAllocation(w) \/ LaunchFails(w) \/ ErrorSecretAgain(w)
    PROVE  LeaseInv'
<1> DEFINE r == worker[w]
<1>1. /\ UNCHANGED <<tr, prov, processed>>
      /\ r.pc \in Choosing \cup {"configFail", "configSecret"}
      /\ r.pc \notin {"idle", "mark"}
  BY DEF ErrorFailsAllocation, LaunchFails, ErrorSecretAgain, At, jobVars,
         Choosing
<1>2. PICK t \in Tasks : t = TaskOf(w) /\ r.key = UserKey(t)
  BY <1>1, KeyOf
<1>3. r.obj \in Copy /\ AllocatingOK(r, t) /\ NoLive(t)
  BY <1>1, <1>2, AtAllocating DEF Allocating, Writing
<1>4. \/ r.pc \in {"assign", "wait", "unassign"}
         /\ Keep(w, FailPC(r.obj), r.obj)
      \/ r.pc = "launch" /\ Keep(w, "unassign", Released(r.obj))
      \/ Goto(w, "errorSecret")
  BY DEF ErrorFailsAllocation, LaunchFails, ErrorSecretAgain, At
<1>5. /\ \A v \in Workers \ {w} : worker'[v] = worker[v]
      /\ worker'[w].key = r.key
      /\ worker'[w].pc \in {FailPC(r.obj), "unassign", "errorSecret"}
  BY <1>1, <1>4, GotoMove, KeepMove DEF LeaseInv
<1>6. NoLive(t)'
  BY <1>1, <1>3, <1>5, NoLiveKept
<1>7. AllocatingOK(worker[w], t)'
  <2>1. CASE /\ r.pc \in {"assign", "wait", "unassign"}
             /\ Keep(w, FailPC(r.obj), r.obj)
    <3>1. /\ worker'[w].pc = FailPC(r.obj) /\ worker'[w].obj = r.obj
          /\ worker'[w].host = r.host /\ worker'[w].seen = r.seen
      BY <1>1, <1>2, <2>1, KeepMove DEF LeaseInv
    <3>2. r.pc = "assign" => FailPC(r.obj) = "errorSecret"
      BY <1>3, ConstantsAssumption DEF AllocatingOK, FailPC, Copy
    <3>3. QED
      BY <1>1, <1>3, <1>6, <2>1, <3>1, <3>2
      DEF AllocatingOK, FailPC, Writing, Choosing
  <2>2. CASE r.pc = "launch" /\ Keep(w, "unassign", Released(r.obj))
    <3>1. /\ worker'[w].pc = "unassign"
          /\ worker'[w].obj = Released(r.obj)
          /\ worker'[w].host = r.host /\ worker'[w].seen = r.seen
      BY <1>1, <1>2, <2>2, KeepMove DEF LeaseInv
    <3>2. /\ Released(r.obj).assigned = None
          /\ Runs(r.obj) => Runs(Released(r.obj))
      BY <1>3 DEF Released, Runs, Copy, TaskRun
    <3>3. QED
      BY <1>1, <1>3, <1>6, <2>2, <3>1, <3>2
      DEF AllocatingOK, Writing, Choosing
  <2>3. CASE Goto(w, "errorSecret")
    <3>1. worker'[w].pc = "errorSecret"
      BY <1>1, <2>3, GotoMove DEF LeaseInv
    <3>2. QED
      BY <1>6, <3>1 DEF AllocatingOK, Writing, Choosing
  <2>4. QED
    BY <1>4, <2>1, <2>2, <2>3
<1>8. ReconcileOK(w)'
  BY <1>2, <1>5, <1>7, KeyKinds
  DEF ReconcileOK, FailPC, Allocating, Writing, Choosing
<1>9. QED
  BY <1>1, <1>2, <1>5, <1>8, MoveKeeps

\* A reconcile starts with a key no other has.
LEMMA StartKeeps ==
    ASSUME LeaseInv, CopiesConsistent', NEW w \in Workers, NEW key \in Keys,
           Available(w, key),
           \A v \in Workers \ {w} : worker'[v] = worker[v],
           worker'[w].key = key, ReconcileOK(w)',
           UNCHANGED <<tr, prov, processed>>
    PROVE  LeaseInv'
<1> DEFINE W == {w}
<1>1. PICK t \in Tasks : t = key[1]
  BY DEF Keys
<1>2. \A v \in W : /\ worker[v].pc # "mark" /\ ReconcileOK(v)'
                   /\ \A u \in Workers : worker[u].key # worker'[v].key
  BY DEF Available
<1>3. /\ W \in SUBSET Workers /\ \A u, v \in W : u = v
      /\ \A v \in Workers \ W : worker'[v] = worker[v]
  OBVIOUS
<1> HIDE DEF W
<1>4. QED
  BY <1>2, <1>3, QuietStepKeeps

\* A reconcile that does nothing, or a step of the controller that changes
\* neither workers nor what they are about.
LEMMA SkipKeeps ==
    ASSUME LeaseInv, CopiesConsistent',
           UNCHANGED <<tr, prov, processed, worker>>
    PROVE  LeaseInv'
<1>1. /\ KeysApart' /\ OneLease' /\ Held'
      /\ \A l \in processed' : prov'[l] \in Finished
  BY DEF LeaseInv, KeysApart, OneLease, Held, Live, Marking
<1>2. ASSUME NEW w \in Workers PROVE ReconcileOK(w)'
  <2>1. ReconcileOK(w)
    BY DEF LeaseInv
  <2>2. QED
    BY <2>1 DEF ReconcileOK, AllocatingOK, OutcomeOK, NoLive, Live, Marking
<1>3. QED
  BY <1>1, <1>2 DEF LeaseInv

\* A TaskRun that is to be allocated a host has none, and no provision
\* TaskRun of it counts.
LEMMA ToAllocate ==
    ASSUME LeaseInv, NEW t \in Tasks, ~Ignored(tr[t]), ~Done(tr[t])
    PROVE  tr[t].assigned = None /\ Runs(tr[t]) /\ NoLive(t)
<1>1. tr[t].assigned = None /\ Runs(tr[t])
  BY DEF Ignored, Done, Exists, Runs
<1>2. NoLive(t)
  BY <1>1, ConstantsAssumption DEF LeaseInv, Held, NoLive, Runs, Open
<1>3. QED
  BY <1>1, <1>2

LEMMA ReconcileUserKeeps ==
    ASSUME LeaseInv, CopiesConsistent', NEW w \in Workers, NEW t \in Tasks,
           ReconcileUser(w, t) \/ UserReadFails(w, t)
    PROVE  LeaseInv'
<1> DEFINE o == tr[t]
<1>1. /\ Available(w, UserKey(t)) /\ UNCHANGED <<tr, prov, processed>>
      /\ UserKey(t) \in Keys /\ UserKey(t)[1] = t /\ o \in Copy
  BY KeyKinds, Typed DEF ReconcileUser, UserReadFails, jobVars, LeaseInv
<1>2. CASE UNCHANGED worker
  BY <1>1, <1>2, SkipKeeps
<1>3. CASE /\ ~Ignored(o) /\ Done(o)
           /\ Begin(w, "deallocate", UserKey(t), o, o, o.assigned)
  <2>1. /\ \A v \in Workers \ {w} : worker'[v] = worker[v]
        /\ worker'[w].pc = "deallocate" /\ worker'[w].key = UserKey(t)
    BY <1>3, BeginMove DEF LeaseInv
  <2>2. ReconcileOK(w)'
    BY <1>1, <1>3, <2>1 DEF ReconcileOK, Releasing, Open, Done
  <2>3. QED
    BY <1>1, <2>1, <2>2, StartKeeps
<1>4. ASSUME ~Ignored(o), ~Done(o),
             NEW pc \in Writing \cup Allocating, NEW m \in Copy, NEW h,
             Begin(w, pc, UserKey(t), o, m, h), Runs(m),
             \/ pc = "assign" /\ h \in Hosts /\ m.assigned = h
             \/ pc = "wait" /\ h = None /\ m.assigned = None
             \/ pc \notin Choosing /\ m.assigned = None
      PROVE  LeaseInv'
  <2>1. /\ \A v \in Workers \ {w} : worker'[v] = worker[v]
        /\ worker'[w].pc = pc /\ worker'[w].key = UserKey(t)
        /\ worker'[w].obj = m /\ worker'[w].seen = o /\ worker'[w].host = h
    BY <1>4, BeginMove DEF LeaseInv
  <2>2. o.assigned = None /\ Runs(o) /\ NoLive(t)
    BY <1>4, ToAllocate
  <2>3. NoLive(t)'
    BY <1>1, <2>1, <2>2, NoLiveKept DEF Available
  <2>4. AllocatingOK(worker[w], t)'
    BY <1>1, <1>4, <2>1, <2>2, <2>3 DEF AllocatingOK, Choosing, Writing
  <2>5. ReconcileOK(w)'
    BY <1>1, <1>4, <2>1, <2>4 DEF ReconcileOK, Allocating
  <2>6. QED
    BY <1>1, <2>1, <2>5, StartKeeps
<1>5. ASSUME ~Ignored(o), ~Done(o),
             NEW pc \in {FailPC(o), ConfigPC(o)},
             Begin(w, pc, UserKey(t), o, o, None)
      PROVE  LeaseInv'
  <2>1. pc \in Allocating /\ pc \notin Choosing
    BY DEF FailPC, ConfigPC, Allocating, Writing, Choosing
  <2>2. o.assigned = None /\ Runs(o)
    BY <1>5, ToAllocate
  <2>3. QED
    BY <1>1, <1>4, <1>5, <2>1, <2>2
<1>6. CASE ~Ignored(o) /\ ~Done(o) /\ Allocates(w, t, o)
  <2>1. CASE Begin(w, "wait", UserKey(t), o, [o EXCEPT !.waiting = TRUE], None)
    <3> DEFINE m == [o EXCEPT !.waiting = TRUE]
    <3>1. m \in Copy /\ m.assigned = o.assigned /\ (Runs(o) => Runs(m))
      BY <1>1, UpdatedCopies, ZenonT(40) DEF Copy, TaskRun, Runs
    <3>2. "wait" \in Writing \cup Allocating
      BY DEF Writing, Choosing
    <3>3. o.assigned = None /\ Runs(o)
      BY <1>6, ToAllocate
    <3> HIDE DEF m
    <3>4. QED
      BY <1>4, <1>6, <2>1, <3>1, <3>2, <3>3 DEF m
  <2>2. ASSUME NEW h \in MostFree(Hosts \ o.failed),
               Begin(w, "assign", UserKey(t), o,
                     [o EXCEPT !.assigned = h, !.waiting = FALSE,
                               !.finalizer = TRUE], h)
        PROVE  LeaseInv'
    <3> DEFINE m == [o EXCEPT !.assigned = h, !.waiting = FALSE,
                              !.finalizer = TRUE]
    <3>1. h \in Hosts \ o.failed
      BY DEF MostFree
    <3>2. m \in Copy /\ m.assigned = h /\ (Runs(o) => Runs(m))
      BY <1>1, <3>1, AssignedCopy DEF Copy, TaskRun, Runs
    <3>3. "assign" \in Writing \cup Allocating
      BY DEF Writing, Choosing
    <3>4. Runs(o)
      BY <1>6, ToAllocate
    <3> HIDE DEF m
    <3>5. QED
      BY <1>4, <1>6, <2>2, <3>1, <3>2, <3>3, <3>4 DEF m
  <2>3. QED
    BY <1>2, <1>5, <1>6, <2>1, <2>2 DEF Allocates
<1>7. QED
  BY <1>2, <1>3, <1>5, <1>6 DEF ReconcileUser, UserReadFails

LEMMA ReconcileProvisionKeeps ==
    ASSUME LeaseInv, CopiesConsistent', NEW w \in Workers, NEW t \in Tasks,
           NEW h \in Hosts,
           ReconcileProvision(w, t, h) \/ ProvisionReadFails(w, t, h)
    PROVE  LeaseInv'
<1> DEFINE l == <<t, h>>
           mine == cache[t]
<1>1. /\ Available(w, l) /\ UNCHANGED <<tr, prov, processed>>
      /\ prov[l] \in Finished /\ l \notin processed
  BY DEF ReconcileProvision, ProvisionReadFails, jobVars, Finished
<1>2. l \in Keys /\ l \in Leases /\ mine \in TaskRun
  BY KeyKinds, CopyIsTaskRun DEF LeaseInv, CopiesConsistent, StoreOK
<1>3. /\ \A v \in Workers \ {w} : worker'[v] = worker[v]
      /\ worker'[w].key = l
      /\ \/ /\ worker'[w].pc = "unassignFailed" /\ prov[l] = "failed"
            /\ worker'[w].obj
                  = [mine EXCEPT !.failed = @ \cup {h}, !.assigned = None]
         \/ /\ worker'[w].pc = FailPC(mine) /\ prov[l] = "succeeded"
            /\ worker'[w].obj = worker'[w].seen
         \/ worker'[w].pc = "mark"
  BY BeginMove DEF ReconcileProvision, ProvisionReadFails, LeaseInv
<1>4. worker'[w].pc = "unassignFailed" => worker'[w].obj.assigned = None
  BY <1>2, <1>3 DEF FailPC, TaskRun
<1>5. OutcomeOK(worker[w])'
  BY <1>1, <1>3, <1>4 DEF OutcomeOK, FailPC
<1>6. ReconcileOK(w)'
  BY <1>2, <1>3, <1>5 DEF ReconcileOK
<1>7. QED
  BY <1>1, <1>2, <1>3, <1>6, StartKeeps

\* A step on one provision TaskRun that no reconcile has, and which does not
\* come to count by it.
LEMMA ProvisionStepKeeps ==
    ASSUME LeaseInv, CopiesConsistent', NEW t \in Tasks, NEW h \in Hosts,
           UNCHANGED <<tr, worker>>,
           \A w \in Workers : worker[w].key # <<t, h>>,
           \A l \in Leases \ {<<t, h>>} : prov'[l] = prov[l],
           processed' \subseteq processed,
           processed \ {<<t, h>>} \subseteq processed',
           Live(<<t, h>>)' => Live(<<t, h>>),
           <<t, h>> \in processed' => prov'[<<t, h>>] \in Finished
    PROVE  LeaseInv'
<1> DEFINE W == {}
<1>1. ASSUME NEW l \in Leases, Live(l)' PROVE Live(l)
  <2>1. CASE l = <<t, h>>
    BY <1>1, <2>1
  <2>2. CASE l # <<t, h>>
    BY <1>1, <2>2 DEF Live, Marking
  <2>3. QED
    BY <2>1, <2>2
<1>2. \A u \in Tasks, g \in Hosts : Live(<<u, g>>)' => Live(<<u, g>>)
  BY <1>1, KeyKinds
<1>3. /\ \A g1, g2 \in Hosts : Live(<<t, g1>>)' /\ Live(<<t, g2>>)' => g1 = g2
      /\ \A g \in Hosts : Open(tr'[t]) /\ Live(<<t, g>>)'
                          => tr'[t].assigned = g
  BY <1>2 DEF LeaseInv, OneLease, Held
<1>4. \A l \in processed' : prov'[l] \in Finished
  <2> SUFFICES ASSUME NEW l \in processed', l # <<t, h>>
               PROVE  prov'[l] \in Finished
    OBVIOUS
  <2>1. l \in processed /\ l \in Leases
    BY DEF LeaseInv, CopiesConsistent, RestOK
  <2>2. QED
    BY <2>1 DEF LeaseInv
<1>5. \A l \in Leases :
         \/ prov'[l] = prov[l] /\ (l \in processed' => l \in processed)
         \/ \A v \in Workers \ W : worker[v].key # l
  OBVIOUS
<1>6. /\ W \in SUBSET Workers
      /\ \A v \in W : FALSE
      /\ \A v \in Workers \ W : worker'[v] = worker[v]
  OBVIOUS
<1> HIDE DEF W
<1>7. QED
  BY <1>2, <1>3, <1>4, <1>5, <1>6, StepKeeps

\* Deleted, or ended by Tekton.
LEMMA JobKeeps ==
    ASSUME LeaseInv, CopiesConsistent', NEW t \in Tasks, NEW h \in Hosts,
           \/ \E w \in Workers : RemoveProvision(w, t, h)
           \/ Job(t, h) \/ ReconcileClean(t, h)
    PROVE  LeaseInv'
<1> DEFINE l == <<t, h>>
<1>1. l \in Leases /\ prov \in [Leases -> JobState]
  BY KeyKinds, Typed DEF LeaseInv
<1>2. CASE \E w \in Workers : RemoveProvision(w, t, h)
  <2>1. /\ \A v \in Workers : worker[v].key # l
        /\ prov' = [prov EXCEPT ![l] = "none"] /\ processed' = processed \ {l}
        /\ UNCHANGED <<tr, worker>>
    BY <1>2 DEF RemoveProvision, Available
  <2>2. prov'[l] = "none" /\ \A k \in Leases \ {l} : prov'[k] = prov[k]
    BY <1>1, <2>1
  <2>3. ~Live(l)'
    BY <2>2 DEF Live
  <2> HIDE DEF l
  <2>4. QED
    BY <1>1, <2>1, <2>2, <2>3, ProvisionStepKeeps DEF l
<1>3. CASE ProvisionSucceeds(t, h) \/ ProvisionFails(t, h)
  <2>1. PICK s \in Finished : prov' = [prov EXCEPT ![l] = s]
    BY <1>3 DEF ProvisionSucceeds, ProvisionFails, Finished
  <2>2. prov[l] = "running" /\ UNCHANGED <<tr, worker, processed>>
    BY <1>3 DEF ProvisionSucceeds, ProvisionFails
  <2>3. prov'[l] = s /\ \A k \in Leases \ {l} : prov'[k] = prov[k]
    BY <1>1, <2>1
  <2>4. \A v \in Workers : worker[v].key # l
    BY <1>1, <2>2, ProvisionReconcile DEF OutcomeOK, Finished
  <2>5. Live(l)
    BY <2>2 DEF Live
  <2> HIDE DEF l
  <2>6. QED
    BY <1>1, <2>2, <2>3, <2>4, <2>5, ProvisionStepKeeps DEF l
<1>4. CASE CleanSucceeds(t, h) \/ CleanFails(t, h) \/ ReconcileClean(t, h)
  <2>1. UNCHANGED <<tr, prov, processed, worker>>
    BY <1>4 DEF CleanSucceeds, CleanFails, ReconcileClean
  <2>2. QED
    BY <2>1, SkipKeeps
<1>5. QED
  BY <1>2, <1>3, <1>4 DEF Job

LEMMA UserKeeps ==
    ASSUME LeaseInv, NotCreated, CopiesConsistent', NEW t \in Tasks, User(t)
    PROVE  LeaseInv'
<1> DEFINE W == {}
<1>1. UNCHANGED <<prov, processed, worker>>
  BY DEF User, CreateTask, TaskCompletes, TaskCancelled, Completes,
         DeleteTask, jobVars
<1>2. PICK o \in Copy : /\ Put(t, o) /\ o.assigned = tr[t].assigned
                        /\ Open(o) => Open(tr[t])
  <2>1. tr[t] \in Copy /\ tr[t] \in TaskRun
    BY Typed DEF LeaseInv
  <2>2. CASE CreateTask(t)
    <3>1. PICK valid \in BOOLEAN : Put(t, Created(valid))
      BY <2>2 DEF CreateTask
    <3>2. Created(valid) \in Copy /\ Created(valid).assigned = None
      BY <3>1, ConstantCopies DEF Created, Absent
    <3>3. tr[t].assigned = None /\ Open(tr[t])
      BY <2>2 DEF CreateTask, NotCreated, Open
    <3>4. QED
      BY <3>1, <3>2, <3>3
  <2>3. CASE TaskCompletes(t) \/ TaskCancelled(t)
    <3> DEFINE o == [tr[t] EXCEPT !.phase = "completed"]
    <3>1. Put(t, o)
      BY <2>3 DEF TaskCompletes, TaskCancelled, Completes
    <3>2. o \in Copy /\ o.assigned = tr[t].assigned /\ ~Open(o)
      BY <2>1, UpdatedCopies DEF TaskRun, Open
    <3>3. QED
      BY <3>1, <3>2
  <2>4. CASE DeleteTask(t)
    <3> DEFINE o == [tr[t] EXCEPT !.deleting = TRUE]
    <3>1. Put(t, o)
      BY <2>4 DEF DeleteTask
    <3>2. o \in Copy /\ o.assigned = tr[t].assigned /\ ~Open(o)
      BY <2>1, UpdatedCopies DEF TaskRun, Open
    <3>3. QED
      BY <3>1, <3>2
  <2>5. QED
    BY <2>2, <2>3, <2>4 DEF User
<1>3. /\ \A u \in Tasks \ {t} : tr'[u] = tr[u]
      /\ tr'[t].assigned = o.assigned /\ (Open(tr'[t]) <=> Open(o))
  BY <1>2, PutFacts DEF LeaseInv
<1>4. /\ W \in SUBSET Workers /\ \A v \in W : FALSE
      /\ \A v \in Workers \ W : worker'[v] = worker[v]
  BY <1>1
<1> HIDE DEF W
<1>5. QED
  BY <1>1, <1>2, <1>3, <1>4, StoreKeeps

(***************************************************************************)
(* How a step changes what is stored.                                      *)
(***************************************************************************)

\* A step on the stored TaskRun t: a host is lost for a cause, and a TaskRun
\* that has not been created stays without one.
LostForCause(t) ==
    \A h \in Hosts : tr[t].assigned = h /\ tr'[t].assigned # h
        => \/ Done(tr[t])
           \/ prov[<<t, h>>] = "failed"
           \/ \E w \in Workers : GivesUp(w, t, h)
StoredStep(t) ==
    /\ \A u \in Tasks \ {t} : tr'[u] = tr[u]
    /\ LostForCause(t)
    /\ tr'[t].phase = "absent" =>
          /\ tr[t].phase = "absent" /\ tr'[t].assigned = tr[t].assigned
          /\ tr'[t].failed = tr[t].failed /\ tr'[t].deleting = tr[t].deleting

\* updateTaskRun leaves a TaskRun that exists created.
LEMMA UpdateStored ==
    ASSUME CopiesConsistent, NEW t \in Tasks, NEW o \in Copy,
           UpdateTaskRunWithRetry(t, o), Exists(tr[t]), LostForCause(t)
    PROVE  StoredStep(t)
<1> DEFINE m == Merged(tr[t], o)
<1>1. m \in Copy /\ m.phase = tr[t].phase
  <2>1. tr[t] \in Copy /\ m \in Copy
    BY Typed, MergedCopy
  <2>2. QED
    BY <2>1 DEF Merged, Copy, TaskRun
<1>2. Put(t, m)
  BY DEF UpdateTaskRunWithRetry
<1> HIDE DEF m
<1>3. tr'[t] = Settled(m) /\ \A u \in Tasks \ {t} : tr'[u] = tr[u]
  BY <1>1, <1>2, PutFacts
<1>4. tr'[t].phase # "absent"
  BY <1>1, <1>3 DEF Settled, Gone, Absent, Exists
<1>5. QED
  BY <1>3, <1>4 DEF StoredStep

\* A host is given up by the reconcile that could not launch on it, taken by
\* one that deals with its failure, or released when the TaskRun is done.
LEMMA UpdateLoses ==
    ASSUME LeaseInv, NEW w \in Workers, NEW t \in Tasks, t = TaskOf(w),
           Exists(tr[t]),
           worker[w].pc \in {"wait", "assign", "unassign", "release",
                             "unassignFailed"}
    PROVE  LostForCause(t)
<1> DEFINE r == worker[w]
<1>1. r.pc # "idle"
  OBVIOUS
<1>2. CASE r.pc \in {"wait", "assign", "unassign"}
  <2>1. r.key = UserKey(t)
    BY <1>2, <1>1, KeyOf DEF Choosing
  <2>2. AllocatingOK(r, t)
    BY <1>2, <2>1, AtAllocating DEF Allocating, Writing, Choosing
  <2>3. QED
    BY <1>2, <2>1, <2>2, ConstantsAssumption
    DEF AllocatingOK, LostForCause, GivesUp
<1>3. CASE r.pc = "release"
  <2>1. r.key = UserKey(t)
    BY <1>3, <1>1, KeyOf DEF Releasing
  <2>2. ~Open(tr[t])
    BY <1>3, <2>1, UserReconcile DEF Releasing
  <2>3. QED
    BY <2>2 DEF LostForCause, Open, Done, Exists
<1>4. CASE r.pc = "unassignFailed"
  <2>1. PICK g \in Hosts : r.key = <<t, g>>
    BY <1>1, <1>4, KeyOf DEF Leases, TaskOf
  <2>2. Live(<<t, g>>) /\ prov[<<t, g>>] = "failed"
    BY <1>4, <2>1, FailedIsLive, ProvisionReconcile DEF OutcomeOK
  <2>3. Open(tr[t]) => tr[t].assigned = g
    BY <2>2 DEF LeaseInv, Held
  <2>4. QED
    BY <2>2, <2>3 DEF LostForCause, Open, Done, Exists
<1>5. QED
  BY <1>2, <1>3, <1>4

LEMMA WorkerUpdates ==
    ASSUME LeaseInv, NEW w \in Workers,
           \/ WaitForHost(w) \/ AssignHost(w) \/ UnassignHost(w)
           \/ ReleaseHost(w) \/ UnassignFailedHost(w)
    PROVE  UNCHANGED tr \/ \E t \in Tasks : StoredStep(t)
<1>1. worker[w].pc \in {"wait", "assign", "unassign", "release",
                        "unassignFailed"}
  BY DEF WaitForHost, AssignHost, UnassignHost, ReleaseHost,
         UnassignFailedHost, At
<1>2. PICK t \in Tasks : t = TaskOf(w)
  BY <1>1, KeyOf
<1>3. worker[w].obj \in Copy
  BY <1>1, BusyWorker DEF LeaseInv, CopiesConsistent
<1>4. \/ UNCHANGED tr
      \/ Exists(tr[t]) /\ UpdateTaskRunWithRetry(t, worker[w].obj)
  BY <1>2 DEF WaitForHost, AssignHost, UnassignHost, ReleaseHost,
              UnassignFailedHost, storeVars
<1>5. Exists(tr[t]) => LostForCause(t)
  BY <1>1, <1>2, UpdateLoses
<1>6. QED
  BY <1>3, <1>4, <1>5, UpdateStored DEF LeaseInv

\* createErrorSecret writes its copy only as the version it has seen.
LEMMA FinalizerStored ==
    ASSUME LeaseInv, NEW w \in Workers, AddErrorFinalizer(w)
    PROVE  UNCHANGED tr \/ \E t \in Tasks : StoredStep(t)
<1> DEFINE r == worker[w]
           o == [r.obj EXCEPT !.finalizer = TRUE]
<1>1. r.pc \in {"fail", "configFail"} /\ r.pc # "idle"
  BY DEF AddErrorFinalizer, At
<1>2. PICK t \in Tasks : t = TaskOf(w)
  BY <1>1, KeyOf
<1>3. r.obj \in Copy
  BY <1>1, BusyWorker DEF LeaseInv, CopiesConsistent
<1>4. /\ o \in Copy /\ o.assigned = r.obj.assigned
      /\ o.failed = r.obj.failed
      /\ o.phase = r.obj.phase /\ o.deleting = r.obj.deleting
  BY <1>3, UpdatedCopies DEF Copy, TaskRun
<1> HIDE DEF o
<1>5. UNCHANGED tr \/ (tr[t] = r.seen /\ Put(t, o))
  BY <1>2 DEF AddErrorFinalizer, storeVars, o
<1>6. CASE tr[t] = r.seen /\ Put(t, o)
  <2>1. /\ tr'[t] = Settled(o) /\ \A u \in Tasks \ {t} : tr'[u] = tr[u]
        /\ tr'[t].assigned = o.assigned
    BY <1>4, <1>6, PutFacts DEF LeaseInv
  <2>2. \/ tr'[t].phase = "gone"
        \/ /\ tr'[t].phase = o.phase /\ tr'[t].deleting = o.deleting
           /\ tr'[t].failed = o.failed
    BY <2>1 DEF Settled, Gone, Absent
  <2>3. CASE r.key = UserKey(t)
    <3>1. AllocatingOK(r, t)
      BY <1>1, <1>2, <2>3, AtAllocating DEF Allocating, Writing
    <3>2. LostForCause(t)
      BY <1>1, <2>3, <3>1, ConstantsAssumption
      DEF AllocatingOK, LostForCause, GivesUp
    <3>3. o.phase = "running"
      BY <1>1, <1>4, <3>1 DEF AllocatingOK, Writing, Runs
    <3>4. QED
      BY <2>1, <2>2, <3>2, <3>3 DEF StoredStep
  <2>4. CASE r.key \in Leases
    <3>1. r.obj = tr[t]
      BY <1>1, <1>6, <2>4, ProvisionReconcile DEF OutcomeOK
    <3>2. QED
      BY <1>4, <2>1, <2>2, <3>1 DEF StoredStep, LostForCause
  <2>5. QED
    BY <1>1, <1>2, <2>3, <2>4, KeyOf
<1>7. QED
  BY <1>5, <1>6

\* The label FinishedWaiting, users and Tekton.
LEMMA OthersStored ==
    ASSUME LeaseInv, NotCreated,
           \/ \E w \in Workers : WakeOldest(w)
           \/ \E t \in Tasks : User(t)
    PROVE  UNCHANGED tr \/ \E t \in Tasks : StoredStep(t)
<1>1. \A t \in Tasks : tr[t] \in Copy /\ tr[t] \in TaskRun
  BY Typed DEF LeaseInv
<1>2. ASSUME NEW t \in Tasks, NEW o \in Copy, Put(t, o),
             o.assigned = tr[t].assigned,
             \/ o.phase # "absent"
             \/ /\ o.phase = tr[t].phase /\ o.deleting = tr[t].deleting
                /\ o.failed = tr[t].failed
      PROVE  StoredStep(t)
  <2>1. /\ tr'[t] = Settled(o) /\ \A u \in Tasks \ {t} : tr'[u] = tr[u]
        /\ tr'[t].assigned = o.assigned
    BY <1>2, PutFacts DEF LeaseInv
  <2>2. \/ tr'[t].phase = "gone"
        \/ /\ tr'[t].phase = o.phase /\ tr'[t].deleting = o.deleting
           /\ tr'[t].failed = o.failed
    BY <2>1 DEF Settled, Gone, Absent
  <2>3. QED
    BY <1>2, <2>1, <2>2 DEF StoredStep, LostForCause
<1>3. CASE \E w \in Workers : WakeOldest(w)
  <2>1. CASE \E u \in Tasks : Put(u, [tr[u] EXCEPT !.woken = TRUE])
    <3>1. PICK u \in Tasks : Put(u, [tr[u] EXCEPT !.woken = TRUE])
      BY <2>1
    <3> DEFINE o == [tr[u] EXCEPT !.woken = TRUE]
    <3>2. /\ o \in Copy /\ o.assigned = tr[u].assigned
          /\ o.phase = tr[u].phase /\ o.deleting = tr[u].deleting
          /\ o.failed = tr[u].failed
      BY <1>1, UpdatedCopies DEF TaskRun
    <3> HIDE DEF o
    <3>3. QED
      BY <1>2, <3>1, <3>2 DEF o
  <2>2. QED
    BY <1>3, <2>1 DEF WakeOldest, storeVars
<1>4. ASSUME NEW t \in Tasks, User(t) PROVE StoredStep(t)
  <2>1. CASE CreateTask(t)
    <3>1. PICK valid \in BOOLEAN : Put(t, Created(valid))
      BY <2>1 DEF CreateTask
    <3>2. /\ Created(valid) \in Copy /\ Created(valid).assigned = None
          /\ Created(valid).phase = "running"
      BY <3>1, ConstantCopies DEF Created, Absent
    <3>3. tr[t].assigned = None
      BY <2>1 DEF CreateTask, NotCreated
    <3>4. QED
      BY <1>2, <3>1, <3>2, <3>3
  <2>2. CASE TaskCompletes(t) \/ TaskCancelled(t)
    <3> DEFINE o == [tr[t] EXCEPT !.phase = "completed"]
    <3>1. Put(t, o)
      BY <2>2 DEF TaskCompletes, TaskCancelled, Completes
    <3>2. o \in Copy /\ o.assigned = tr[t].assigned /\ o.phase = "completed"
      BY <1>1, UpdatedCopies DEF TaskRun
    <3> HIDE DEF o
    <3>3. QED
      BY <1>2, <3>1, <3>2
  <2>3. CASE DeleteTask(t)
    <3> DEFINE o == [tr[t] EXCEPT !.deleting = TRUE]
    <3>1. Put(t, o) /\ Exists(tr[t])
      BY <2>3 DEF DeleteTask
    <3>2. o \in Copy /\ o.assigned = tr[t].assigned /\ o.phase # "absent"
      BY <1>1, <3>1, UpdatedCopies DEF TaskRun, Exists
    <3> HIDE DEF o
    <3>3. QED
      BY <1>2, <3>1, <3>2
  <2>4. QED
    BY <1>4, <2>1, <2>2, <2>3 DEF User
<1>5. QED
  BY <1>3, <1>4

LEMMA NextStored ==
    ASSUME LeaseInv, NotCreated, Next
    PROVE  UNCHANGED tr \/ \E t \in Tasks : StoredStep(t)
<1>1. ASSUME NEW w \in Workers, WorkerStep(w)
      PROVE  UNCHANGED tr \/ \E t \in Tasks : StoredStep(t)
  <2>1. CASE LaunchProvision(w) \/ CreateErrorSecret(w) \/ Deallocate(w)
             \/ DeleteSecret(w) \/ MarkProcessed(w)
    BY <2>1 DEF LaunchProvision, CreateErrorSecret, Deallocate, DeleteSecret,
                MarkProcessed
  <2>2. QED
    BY <1>1, <2>1, WorkerUpdates, FinalizerStored, OthersStored DEF WorkerStep
<1>2. ASSUME NEW w \in Workers, WorkerFault(w) PROVE UNCHANGED tr
  BY <1>2 DEF WorkerFault, ErrorRequeues, ErrorSecretAgain,
              ErrorFailsAllocation, LaunchFails, KeyReadFails,
              DeallocateFails, SecretDeleteFails, WakeFails, UserReadFails,
              ProvisionReadFails
<1>3. CASE Deliver \/ Restart \/ \E t \in Tasks : TimerFires(t)
  BY <1>3 DEF Deliver, Restart, TimerFires
<1>4. ASSUME NEW w \in Workers, NEW t \in Tasks, ReconcileUser(w, t)
      PROVE  UNCHANGED tr
  BY <1>4 DEF ReconcileUser
<1>5. ASSUME NEW w \in Workers, NEW t \in Tasks, NEW h \in Hosts,
             ReconcileProvisionKey(w, t, h)
      PROVE  UNCHANGED tr
  BY <1>5 DEF ReconcileProvisionKey, ReconcileProvision, RemoveProvision
<1>6. ASSUME NEW t \in Tasks, NEW h \in Hosts,
             Job(t, h) \/ ReconcileClean(t, h)
      PROVE  UNCHANGED tr
  BY <1>6 DEF Job, ProvisionSucceeds, ProvisionFails, CleanSucceeds,
              CleanFails, ReconcileClean
<1>7. QED
  BY <1>1, <1>2, <1>3, <1>4, <1>5, <1>6, OthersStored DEF Next

(***************************************************************************)
(* The specification.                                                      *)
(***************************************************************************)

LEMMA InitLease == Init => LeaseInv /\ NotCreated
<1> SUFFICES ASSUME Init PROVE LeaseInv /\ NotCreated
  OBVIOUS
<1>1. CopiesConsistent
  BY InitOK
<1>2. \A w \in Workers : worker[w].pc = "idle"
  BY DEF Init, Idle
<1>3. \A t \in Tasks, h \in Hosts : ~Live(<<t, h>>)
  BY KeyKinds DEF Init, Live
<1>4. processed = {} /\ \A t \in Tasks : tr[t] = Absent
  BY DEF Init
<1>5. QED
  BY <1>1, <1>2, <1>3, <1>4
  DEF LeaseInv, KeysApart, OneLease, Held, ReconcileOK, NotCreated, Absent

LEMMA NextLease ==
    ASSUME OutcomeOnce, LeaseInv, NotCreated, [Next]_vars
    PROVE  LeaseInv' /\ NotCreated'
<1>1. CopiesConsistent'
  BY NextOK DEF LeaseInv
<1>2. CASE UNCHANGED vars
  <2>1. LeaseInv'
    BY <1>1, <1>2, SkipKeeps DEF vars
  <2>2. QED
    BY <1>2, <2>1 DEF vars, NotCreated
<1>3. CASE Next
  <2>1. NotCreated'
    <3>1. UNCHANGED tr \/ \E t \in Tasks : StoredStep(t)
      BY <1>3, NextStored
    <3>2. CASE UNCHANGED tr
      BY <3>2 DEF NotCreated
    <3>3. ASSUME NEW t \in Tasks, StoredStep(t),
                 NEW u \in Tasks, tr'[u].phase = "absent"
          PROVE  /\ tr'[u].assigned = None /\ tr'[u].failed = {}
                 /\ ~tr'[u].deleting
      <4>1. CASE u = t
        BY <3>3, <4>1 DEF StoredStep, NotCreated
      <4>2. CASE u # t
        BY <3>3, <4>2 DEF StoredStep, NotCreated
      <4>3. QED
        BY <4>1, <4>2
    <3>4. QED
      BY <3>1, <3>2, <3>3 DEF NotCreated
  <2>2. ASSUME NEW w \in Workers, WorkerStep(w) PROVE LeaseInv'
    BY <1>1, <2>2, WaitForHostKeeps, AssignHostKeeps, LaunchProvisionKeeps,
       UnassignHostKeeps, AddErrorFinalizerKeeps, CreateErrorSecretKeeps,
       ReleasingKeeps, WakeKeeps, UnassignFailedHostKeeps, MarkProcessedKeeps
    DEF WorkerStep
  <2>3. ASSUME NEW w \in Workers, WorkerFault(w) PROVE LeaseInv'
    BY <1>1, <2>3, ErrorRequeuesKeeps, AllocationErrorKeeps, ReleasingKeeps,
       WakeKeeps, ReconcileUserKeeps, ReconcileProvisionKeeps
    DEF WorkerFault
  <2>4. ASSUME NEW w \in Workers, NEW t \in Tasks, ReconcileUser(w, t)
        PROVE  LeaseInv'
    BY <1>1, <2>4, ReconcileUserKeeps
  <2>5. ASSUME NEW w \in Workers, NEW t \in Tasks, NEW h \in Hosts,
               ReconcileProvisionKey(w, t, h)
        PROVE  LeaseInv'
    BY <1>1, <2>5, ReconcileProvisionKeeps, JobKeeps
    DEF ReconcileProvisionKey
  <2>6. CASE Deliver \/ \E t \in Tasks : TimerFires(t)
    <3>1. UNCHANGED <<tr, prov, processed, worker>>
      BY <2>6 DEF Deliver, TimerFires, jobVars
    <3>2. QED
      BY <1>1, <2>1, <3>1, SkipKeeps
  <2>7. CASE Restart
    BY <2>7 DEF Restart, Fault, OutcomeOnce
  <2>8. ASSUME NEW t \in Tasks, User(t) PROVE LeaseInv'
    BY <1>1, <2>8, UserKeeps
  <2>9. ASSUME NEW t \in Tasks, NEW h \in Hosts,
               Job(t, h) \/ ReconcileClean(t, h)
        PROVE  LeaseInv'
    BY <1>1, <2>9, JobKeeps
  <2>10. QED
    BY <1>3, <2>1, <2>2, <2>3, <2>4, <2>5, <2>6, <2>7, <2>8, <2>9 DEF Next
<1>4. QED
  BY <1>2, <1>3

\* At every moment at most one provision TaskRun of a user TaskRun counts,
\* an open user TaskRun has the host of the one that does, and every
\* reconcile in progress suits that.
THEOREM LeasesKept ==
    ASSUME OutcomeOnce
    PROVE  Spec => [](LeaseInv /\ NotCreated)
<1>1. Init => LeaseInv /\ NotCreated
  BY InitLease
<1>2. LeaseInv /\ NotCreated /\ [Next]_vars => LeaseInv' /\ NotCreated'
  BY NextLease
<1>3. QED
  BY <1>1, <1>2, PTL DEF Spec

\* One host at a time is provisioned for a TaskRun (handleHostAllocation
\* runs only without AssignedHost, which handleProvisionTask removes only
\* after a failure), whatever the interleaving of the workers, the lag of
\* the cache and the calls that fail, as long as no outcome is redone.
THEOREM OneHost ==
    ASSUME OutcomeOnce
    PROVE  Spec => []OneHostPerTask
<1>1. LeaseInv => OneHostPerTask
  BY DEF LeaseInv, OneLease, OneHostPerTask, Live
<1>2. QED
  BY <1>1, LeasesKept, PTL

\* A TaskRun that is not done loses its host only to a failed provision
\* TaskRun on that host, or to the Allocate that could not launch one there:
\* no stale copy of it, in a cache or a worker, is ever written over it.
THEOREM HostLost ==
    ASSUME OutcomeOnce
    PROVE  Spec => HostLostForCause
<1> DEFINE Kept == \A t \in Tasks, h \in Hosts :
                       tr[t].assigned = h /\ tr'[t].assigned # h
                       => \/ Done(tr[t])
                          \/ prov[<<t, h>>] = "failed"
                          \/ \E w \in Workers : GivesUp(w, t, h)
<1>1. LeaseInv /\ NotCreated /\ [Next]_vars => [Kept]_vars
  <2> SUFFICES ASSUME LeaseInv, NotCreated, Next PROVE Kept
    OBVIOUS
  <2>1. UNCHANGED tr \/ \E t \in Tasks : StoredStep(t)
    BY NextStored
  <2>2. CASE UNCHANGED tr
    BY <2>2
  <2>3. ASSUME NEW t \in Tasks, StoredStep(t) PROVE Kept
    BY <2>3 DEF StoredStep, LostForCause
  <2>4. QED
    BY <2>1, <2>2, <2>3
<1>2. QED
  BY <1>1, LeasesKept, PTL DEF Spec, HostLostForCause

(***************************************************************************)
(* AssignedHasProvision: the versions of a TaskRun.                        *)
(***************************************************************************)

\* What a step that stores t does to its versions: an event for a new one,
\* and while t keeps its host it keeps its FailedHosts.
NewVersion(t) ==
    /\ UNCHANGED cache
    /\ \A u \in Tasks \ {t} : tr'[u] = tr[u]
    /\ NoHostIfAbsent(tr'[t])
    /\ Open(tr'[t]) => Open(tr[t])
    /\ /\ Open(tr'[t]) /\ tr[t].assigned # None
       /\ tr'[t].assigned = tr[t].assigned
       => tr'[t].failed = tr[t].failed
    /\ \/ UNCHANGED storeVars
       \/ watch' = Append(watch, [task |-> t, obj |-> tr'[t]])

LEMMA WatchTyped ==
    ASSUME CopiesConsistent
    PROVE  /\ watch \in Seq([task : Tasks, obj : Copy])
           /\ Len(watch) \in Nat
           /\ \A i \in 1..Len(watch) :
                 watch[i].task \in Tasks /\ watch[i].obj \in Copy
<1>1. watch \in Seq([task : Tasks, obj : Copy])
  BY DEF CopiesConsistent, StoreOK
<1> DEFINE E == [task : Tasks, obj : Copy]
<1>2. watch \in Seq(E)
  BY <1>1
<1> HIDE DEF E
<1>3. Len(watch) \in Nat /\ \A i \in 1..Len(watch) : watch[i] \in E
  BY <1>2, ElementOfSeq
<1>4. QED
  BY <1>1, <1>3 DEF E

\* Nothing is stored and nothing delivered.
LEMMA VersionsKept ==
    ASSUME VersionsOK, UNCHANGED <<tr, watch, cache>>
    PROVE  VersionsOK'
BY DEF VersionsOK, Newest, Fresh, SameFailed, SameHost

LEMMA VersionStored ==
    ASSUME CopiesConsistent, VersionsOK, NEW t \in Tasks, NewVersion(t)
    PROVE  VersionsOK'
<1> DEFINE n == Len(watch)
           e == [task |-> t, obj |-> tr'[t]]
<1>1. CASE UNCHANGED storeVars
  BY <1>1, VersionsKept DEF NewVersion, storeVars
<1>2. CASE watch' = Append(watch, e)
  <2>1. /\ n \in Nat /\ Len(watch') = n + 1 /\ watch'[n + 1] = e
        /\ \A i \in 1..n : watch'[i] = watch[i]
    BY <1>2, WatchTyped
  <2>2. e.task = t /\ e.obj = tr'[t]
    OBVIOUS
  <2> HIDE DEF e, n
  <2>3. UNCHANGED cache /\ \A u \in Tasks \ {t} : tr'[u] = tr[u]
    BY DEF NewVersion
  <2>4. Newest(t)'
    <3>1. n + 1 \in 1..Len(watch')
      BY <2>1
    <3>2. \A j \in (n + 2)..Len(watch') : watch'[j].task # t
      BY <2>1
    <3>3. QED
      BY <2>1, <2>2, <3>1, <3>2 DEF Newest
  <2>5. ASSUME NEW u \in Tasks, u # t PROVE Newest(u)'
    <3>1. Newest(u)
      BY DEF VersionsOK
    <3>2. tr'[u] = tr[u] /\ cache'[u] = cache[u]
      BY <2>3, <2>5
    <3>3. CASE cache[u] = tr[u] /\ Fresh(u)
      <4>1. \A i \in 1..Len(watch') : watch'[i].task # u
        BY <2>1, <2>2, <2>5, <3>3 DEF Fresh, n
      <4>2. QED
        BY <3>2, <3>3, <4>1 DEF Newest, Fresh
    <3>4. ASSUME NEW i \in 1..n, watch[i].task = u, watch[i].obj = tr[u],
                 \A j \in (i + 1)..n : watch[j].task # u
          PROVE  Newest(u)'
      <4>1. /\ i \in 1..Len(watch') /\ watch'[i].task = u
            /\ watch'[i].obj = tr'[u]
        BY <2>1, <3>2, <3>4
      <4>2. ASSUME NEW j \in (i + 1)..Len(watch') PROVE watch'[j].task # u
        <5>1. j \in (i + 1)..n \/ j = n + 1
          BY <2>1
        <5>2. QED
          BY <2>1, <2>2, <2>5, <3>4, <5>1
      <4>3. QED
        BY <4>1, <4>2 DEF Newest
    <3>5. QED
      BY <3>1, <3>3, <3>4 DEF Newest, n
  <2>6. ASSUME NEW u \in Tasks, u # t, Open(tr'[u]) PROVE SameFailed(u)'
    <3>1. tr'[u] = tr[u] /\ cache'[u] = cache[u] /\ SameFailed(u)
      BY <2>3, <2>6 DEF VersionsOK
    <3>2. ASSUME NEW i \in 1..(n + 1), SameHost(u, i)' PROVE SameHost(u, i)
      BY <2>1, <3>1, <3>2 DEF SameHost, n
    <3>3. \A i \in 1..(n + 1) : watch'[i].task = u => i \in 1..n
      BY <2>1, <2>2, <2>6
    <3>4. 1 \in 1..(n + 1)
      BY <2>1
    <3>5. QED
      BY <2>1, <3>1, <3>2, <3>3, <3>4 DEF SameFailed, n
  <2>7. ASSUME Open(tr'[t]) PROVE SameFailed(t)'
    <3> SUFFICES ASSUME tr'[t].assigned # None PROVE SameFailed(t)'
      BY DEF SameFailed
    <3>1. CASE tr'[t].assigned = tr[t].assigned
      <4>1. tr'[t].failed = tr[t].failed /\ SameFailed(t)
        BY <2>7, <3>1 DEF NewVersion, VersionsOK
      <4>2. ASSUME NEW i \in 1..(n + 1), SameHost(t, i)' PROVE SameHost(t, i)
        BY <2>1, <3>1, <4>2 DEF SameHost, n
      <4>3. 1 \in 1..(n + 1)
        BY <2>1
      <4>4. SameHost(t, 1)' /\ cache'[t].assigned = tr'[t].assigned
            => cache'[t].failed = tr'[t].failed
        BY <2>3, <3>1, <4>1, <4>2, <4>3 DEF SameFailed
      <4>5. ASSUME NEW i \in 1..Len(watch'), watch'[i].task = t,
                   SameHost(t, i)'
            PROVE  watch'[i].obj.failed = tr'[t].failed
        <5>1. CASE i = n + 1
          BY <2>1, <2>2, <5>1
        <5>2. CASE i \in 1..n
          <6>1. SameHost(t, i)
            BY <2>1, <4>2, <4>5
          <6>2. QED
            BY <2>1, <3>1, <4>1, <4>5, <5>2, <6>1 DEF SameFailed, n
        <5>3. QED
          BY <2>1, <5>1, <5>2
      <4>6. QED
        BY <4>4, <4>5 DEF SameFailed
    <3>2. CASE tr'[t].assigned # tr[t].assigned
      <4>1. Newest(t)
        BY DEF VersionsOK
      <4>2. CASE cache[t] = tr[t] /\ Fresh(t)
        <5>1. cache'[t].assigned # tr'[t].assigned
          BY <2>3, <3>2, <4>2
        <5>2. \A i \in 1..Len(watch') : watch'[i].task = t => i = n + 1
          BY <2>1, <4>2 DEF Fresh, n
        <5>3. QED
          BY <2>1, <2>2, <5>1, <5>2 DEF SameFailed
      <4>3. ASSUME NEW k \in 1..n, watch[k].task = t, watch[k].obj = tr[t],
                   \A j \in (k + 1)..n : watch[j].task # t
            PROVE  SameFailed(t)'
        <5>1. /\ k \in 1..Len(watch') /\ watch'[k].task = t
              /\ watch'[k].obj.assigned # tr'[t].assigned
          BY <2>1, <3>2, <4>3
        <5>2. \A i \in 1..k : ~SameHost(t, i)'
          BY <2>1, <5>1 DEF SameHost
        <5>3. ASSUME NEW i \in 1..Len(watch'), watch'[i].task = t,
                     SameHost(t, i)'
              PROVE  i = n + 1
          <6>1. i \in 1..k \/ i \in (k + 1)..n \/ i = n + 1
            BY <2>1
          <6>2. QED
            BY <2>1, <4>3, <5>2, <5>3, <6>1
        <5>4. ~SameHost(t, 1)'
          BY <2>1, <5>2
        <5>5. QED
          BY <2>1, <2>2, <5>3, <5>4 DEF SameFailed
      <4>4. QED
        BY <4>1, <4>2, <4>3 DEF Newest, n
    <3>3. QED
      BY <3>1, <3>2
  <2>8. /\ \A u \in Tasks : /\ NoHostIfAbsent(tr'[u])
                            /\ NoHostIfAbsent(cache'[u])
        /\ \A i \in 1..Len(watch') : NoHostIfAbsent(watch'[i].obj)
    <3>1. \A u \in Tasks : NoHostIfAbsent(tr'[u])
      BY <2>3 DEF VersionsOK, NewVersion
    <3>2. \A u \in Tasks : NoHostIfAbsent(cache'[u])
      BY <2>3 DEF VersionsOK
    <3>3. ASSUME NEW i \in 1..Len(watch') PROVE NoHostIfAbsent(watch'[i].obj)
      <4>1. i \in 1..n \/ i = n + 1
        BY <2>1
      <4>2. QED
        BY <2>1, <2>2, <3>1, <4>1 DEF VersionsOK, n
    <3>4. QED
      BY <3>1, <3>2, <3>3
  <2>9. \A u \in Tasks : Newest(u)' /\ (Open(tr'[u]) => SameFailed(u)')
    BY <2>4, <2>5, <2>6, <2>7
  <2>10. QED
    BY <2>8, <2>9 DEF VersionsOK, NoHostIfAbsent
<1>3. QED
  BY <1>1, <1>2 DEF NewVersion

LEMMA VersionDelivered ==
    ASSUME CopiesConsistent, VersionsOK, Deliver
    PROVE  VersionsOK'
<1> DEFINE n == Len(watch)
           t == watch[1].task
<1>1. /\ n \in Nat /\ n >= 1 /\ Len(watch') = n - 1
      /\ \A i \in 1..(n - 1) : watch'[i] = watch[i + 1]
      /\ Head(watch) = watch[1] /\ t \in Tasks
  <2>1. watch # <<>> /\ watch' = Tail(watch)
    BY DEF Deliver
  <2>2. QED
    BY <2>1, WatchTyped
<1>2. /\ UNCHANGED tr /\ cache'[t] = watch[1].obj
      /\ \A u \in Tasks \ {t} : cache'[u] = cache[u]
  BY <1>1 DEF Deliver, CopiesConsistent, StoreOK
<1> HIDE DEF n
<1>3. ASSUME NEW u \in Tasks PROVE Newest(u)'
  <2>1. Newest(u)
    BY DEF VersionsOK
  <2>2. CASE cache[u] = tr[u] /\ Fresh(u)
    <3>1. u # t
      BY <1>1, <2>2 DEF Fresh, n
    <3>2. \A i \in 1..Len(watch') : watch'[i].task # u
      BY <1>1, <2>2 DEF Fresh, n
    <3>3. QED
      BY <1>2, <2>2, <3>1, <3>2 DEF Newest, Fresh
  <2>3. ASSUME NEW i \in 1..n, watch[i].task = u, watch[i].obj = tr[u],
               \A j \in (i + 1)..n : watch[j].task # u
        PROVE  Newest(u)'
    <3>1. CASE i = 1
      <4>1. \A j \in 1..Len(watch') : watch'[j].task # u
        BY <1>1, <2>3, <3>1
      <4>2. cache'[u] = tr'[u]
        BY <1>2, <2>3, <3>1
      <4>3. QED
        BY <4>1, <4>2 DEF Newest, Fresh
    <3>2. CASE i > 1
      <4>1. /\ i - 1 \in 1..Len(watch') /\ watch'[i - 1].task = u
            /\ watch'[i - 1].obj = tr'[u]
        BY <1>1, <1>2, <2>3, <3>2
      <4>2. \A j \in i..Len(watch') : watch'[j].task # u
        BY <1>1, <2>3, <3>2, SMTT(30)
      <4>3. QED
        BY <1>1, <4>1, <4>2 DEF Newest
    <3>3. QED
      BY <3>1, <3>2
  <2>4. QED
    BY <2>1, <2>2, <2>3 DEF Newest, n
<1>4. ASSUME NEW u \in Tasks, Open(tr'[u]) PROVE SameFailed(u)'
  <2> SUFFICES ASSUME tr'[u].assigned # None PROVE SameFailed(u)'
    BY DEF SameFailed
  <2>1. /\ SameHost(u, 1) /\ cache[u].assigned = tr[u].assigned
           => cache[u].failed = tr[u].failed
        /\ \A i \in 1..n : watch[i].task = u /\ SameHost(u, i)
                           => watch[i].obj.failed = tr[u].failed
    BY <1>2, <1>4 DEF VersionsOK, SameFailed, n
  <2>2. ASSUME NEW i \in 1..n, SameHost(u, i)' PROVE SameHost(u, i + 1)
    <3> SUFFICES ASSUME NEW j \in (i + 1)..n, watch[j].task = u
                 PROVE  watch[j].obj.assigned = tr[u].assigned
      BY DEF SameHost, n
    <3>1. j - 1 \in i..Len(watch') /\ watch'[j - 1] = watch[j]
      BY <1>1
    <3>2. QED
      BY <1>2, <2>2, <3>1 DEF SameHost
  <2>3. ASSUME SameHost(u, 1)', cache'[u].assigned = tr'[u].assigned
        PROVE  cache'[u].failed = tr'[u].failed
    <3>1. SameHost(u, 2)
      BY <1>1, <2>2, <2>3
    <3>2. (u = t => watch[1].obj.assigned = tr[u].assigned) => SameHost(u, 1)
      BY <1>1, <3>1 DEF SameHost, n
    <3>3. CASE u = t
      <4>1. SameHost(u, 1) /\ 1 \in 1..n
        BY <1>1, <1>2, <2>3, <3>2, <3>3
      <4>2. QED
        BY <1>2, <2>1, <3>3, <4>1
    <3>4. CASE u # t
      BY <1>2, <2>1, <2>3, <3>2, <3>4
    <3>5. QED
      BY <3>3, <3>4
  <2>4. ASSUME NEW i \in 1..Len(watch'), watch'[i].task = u, SameHost(u, i)'
        PROVE  watch'[i].obj.failed = tr'[u].failed
    <3>1. i \in 1..n /\ i + 1 \in 1..n /\ watch'[i] = watch[i + 1]
      BY <1>1
    <3>2. SameHost(u, i + 1)
      BY <2>2, <2>4, <3>1
    <3>3. QED
      BY <1>2, <2>1, <2>4, <3>1, <3>2
  <2>5. QED
    BY <2>3, <2>4 DEF SameFailed
<1>5. /\ \A u \in Tasks : /\ NoHostIfAbsent(tr'[u])
                          /\ NoHostIfAbsent(cache'[u])
      /\ \A i \in 1..Len(watch') : NoHostIfAbsent(watch'[i].obj)
  <2>1. 1 \in 1..n /\ \A i \in 1..Len(watch') : i + 1 \in 1..n
    BY <1>1
  <2>2. \A i \in 1..n : NoHostIfAbsent(watch[i].obj)
    BY DEF VersionsOK, n
  <2>3. \A i \in 1..Len(watch') : NoHostIfAbsent(watch'[i].obj)
    BY <1>1, <2>1, <2>2
  <2>4. \A u \in Tasks : NoHostIfAbsent(cache'[u])
    BY <1>2, <2>1, <2>2 DEF VersionsOK
  <2>5. QED
    BY <1>2, <2>3, <2>4 DEF VersionsOK
<1>6. QED
  BY <1>3, <1>4, <1>5 DEF VersionsOK, NoHostIfAbsent

LEMMA PutVersion ==
    ASSUME CopiesConsistent, NEW t \in Tasks, NEW o \in Copy, Put(t, o),
           UNCHANGED cache, NoHostIfAbsent(o), Open(o) => Open(tr[t]),
           Open(o) /\ tr[t].assigned # None /\ o.assigned = tr[t].assigned
           => o.failed = tr[t].failed
    PROVE  NewVersion(t)
<1>1. /\ tr'[t] = Settled(o) /\ \A u \in Tasks \ {t} : tr'[u] = tr[u]
      /\ tr'[t].assigned = o.assigned /\ (Open(tr'[t]) <=> Open(o))
  BY PutFacts
<1>2. \/ UNCHANGED storeVars
      \/ watch' = Append(watch, [task |-> t, obj |-> tr'[t]])
  BY <1>1 DEF Put
<1>3. NoHostIfAbsent(tr'[t])
  BY <1>1 DEF NoHostIfAbsent, Settled, Gone, Absent
<1>4. Open(o) => tr'[t] = o
  BY <1>1 DEF Settled, Open
<1>5. QED
  BY <1>1, <1>2, <1>3, <1>4 DEF NewVersion

\* Each store of a worker: a new host, no host, or what is stored already.
LEMMA UpdateVersions ==
    ASSUME LeaseInv, NEW w \in Workers,
           \/ WaitForHost(w) \/ AssignHost(w) \/ UnassignHost(w)
           \/ ReleaseHost(w) \/ UnassignFailedHost(w)
    PROVE  UNCHANGED <<tr, watch, cache>> \/ \E t \in Tasks : NewVersion(t)
<1> DEFINE r == worker[w]
<1>1. /\ r.pc \in {"wait", "assign", "unassign", "release", "unassignFailed"}
      /\ r.pc # "idle" /\ UNCHANGED cache
  BY DEF WaitForHost, AssignHost, UnassignHost, ReleaseHost,
         UnassignFailedHost, At
<1>2. PICK t \in Tasks : t = TaskOf(w)
  BY <1>1, KeyOf
<1>3. r.obj \in Copy /\ tr[t] \in Copy
  BY <1>1, BusyWorker, Typed DEF LeaseInv, CopiesConsistent
<1>4. CASE Exists(tr[t]) /\ UpdateTaskRunWithRetry(t, r.obj)
  <2> DEFINE m == Merged(tr[t], r.obj)
  <2>1. m \in Copy /\ Put(t, m)
    BY <1>3, <1>4, MergedCopy DEF UpdateTaskRunWithRetry
  <2>2. /\ m.phase = tr[t].phase /\ m.deleting = tr[t].deleting
        /\ m.assigned = r.obj.assigned
    BY <1>3 DEF Merged, Copy, TaskRun
  <2> HIDE DEF m
  <2>3. NoHostIfAbsent(m) /\ (Open(m) <=> Open(tr[t]))
    BY <1>4, <2>2 DEF NoHostIfAbsent, Exists, Open
  <2>4. Open(tr[t]) => tr[t].assigned = None \/ r.obj.assigned = None
    <3>1. CASE r.pc \in {"wait", "assign", "unassign"}
      <4>1. r.key = UserKey(t)
        BY <1>1, <1>2, <3>1, KeyOf DEF Choosing
      <4>2. AllocatingOK(r, t)
        BY <1>2, <3>1, <4>1, AtAllocating DEF Allocating, Writing, Choosing
      <4>3. QED
        BY <3>1, <4>2 DEF AllocatingOK
    <3>2. CASE r.pc = "release"
      BY <1>1, <1>2, <3>2, KeyOf, UserReconcile DEF Releasing
    <3>3. CASE r.pc = "unassignFailed"
      BY <3>3, FailedIsLive, ProvisionReconcile DEF OutcomeOK
    <3>4. QED
      BY <1>1, <3>1, <3>2, <3>3
  <2>5. QED
    BY <1>1, <2>1, <2>2, <2>3, <2>4, PutVersion DEF LeaseInv
<1>5. QED
  BY <1>1, <1>2, <1>4
  DEF WaitForHost, AssignHost, UnassignHost, ReleaseHost,
      UnassignFailedHost, storeVars

LEMMA FinalizerVersions ==
    ASSUME LeaseInv, VersionsOK, NEW w \in Workers, AddErrorFinalizer(w)
    PROVE  UNCHANGED <<tr, watch, cache>> \/ \E t \in Tasks : NewVersion(t)
<1> DEFINE r == worker[w]
           o == [r.obj EXCEPT !.finalizer = TRUE]
<1>1. r.pc \in {"fail", "configFail"} /\ r.pc # "idle" /\ UNCHANGED cache
  BY DEF AddErrorFinalizer, At
<1>2. PICK t \in Tasks : t = TaskOf(w)
  BY <1>1, KeyOf
<1>3. r.obj \in Copy
  BY <1>1, BusyWorker DEF LeaseInv, CopiesConsistent
<1>4. /\ o \in Copy /\ o.assigned = r.obj.assigned
      /\ o.failed = r.obj.failed
      /\ o.phase = r.obj.phase /\ o.deleting = r.obj.deleting
  BY <1>3, UpdatedCopies DEF Copy, TaskRun
<1> HIDE DEF o
<1>5. \/ UNCHANGED <<tr, watch>>
      \/ tr[t] = r.seen /\ Put(t, o)
  BY <1>2 DEF AddErrorFinalizer, storeVars, o
<1>6. CASE tr[t] = r.seen /\ Put(t, o)
  <2>1. CASE r.key = UserKey(t)
    <3>1. AllocatingOK(r, t)
      BY <1>1, <1>2, <2>1, AtAllocating DEF Allocating, Writing
    <3>2. /\ Open(tr[t]) /\ r.obj.assigned = None
          /\ NoHostIfAbsent(o)
      BY <1>1, <1>4, <1>6, <3>1
      DEF AllocatingOK, Writing, Runs, Open, NoHostIfAbsent
    <3>3. QED
      BY <1>1, <1>4, <1>6, <3>2, PutVersion DEF LeaseInv
  <2>2. CASE r.key \in Leases
    <3>1. r.obj = tr[t]
      BY <1>1, <1>6, <2>2, ProvisionReconcile DEF OutcomeOK
    <3>2. NoHostIfAbsent(o) /\ (Open(o) <=> Open(tr[t]))
      BY <1>4, <3>1 DEF NoHostIfAbsent, Exists, Open, VersionsOK
    <3>3. QED
      BY <1>1, <1>4, <1>6, <3>1, <3>2, PutVersion DEF LeaseInv
  <2>3. QED
    BY <1>1, <1>2, <2>1, <2>2, KeyOf
<1>7. QED
  BY <1>1, <1>5, <1>6

LEMMA OtherVersions ==
    ASSUME LeaseInv, NotCreated, VersionsOK,
           \/ \E w \in Workers : WakeOldest(w)
           \/ \E t \in Tasks : User(t)
    PROVE  UNCHANGED <<tr, watch, cache>> \/ \E t \in Tasks : NewVersion(t)
<1>1. \A t \in Tasks : /\ tr[t] \in Copy /\ tr[t] \in TaskRun
                       /\ NoHostIfAbsent(tr[t])
  BY Typed DEF LeaseInv, VersionsOK
<1>2. UNCHANGED cache
  BY DEF WakeOldest, User, CreateTask, TaskCompletes, TaskCancelled,
         Completes, DeleteTask
<1>3. CASE \E u \in Tasks : Put(u, [tr[u] EXCEPT !.woken = TRUE])
  <2>1. PICK u \in Tasks : Put(u, [tr[u] EXCEPT !.woken = TRUE])
    BY <1>3
  <2> DEFINE o == [tr[u] EXCEPT !.woken = TRUE]
  <2>2. /\ o \in Copy /\ o.assigned = tr[u].assigned
        /\ o.phase = tr[u].phase /\ o.deleting = tr[u].deleting
        /\ o.failed = tr[u].failed
    BY <1>1, UpdatedCopies DEF TaskRun
  <2>3. Put(u, o)
    BY <2>1
  <2> HIDE DEF o
  <2>4. NoHostIfAbsent(o) /\ (Open(o) <=> Open(tr[u]))
    BY <1>1, <2>2 DEF NoHostIfAbsent, Exists, Open
  <2>5. QED
    BY <1>2, <2>2, <2>3, <2>4, PutVersion DEF LeaseInv
<1>4. ASSUME NEW t \in Tasks, User(t) PROVE NewVersion(t)
  <2>1. CASE CreateTask(t)
    <3>1. PICK valid \in BOOLEAN : Put(t, Created(valid))
      BY <2>1 DEF CreateTask
    <3>2. /\ Created(valid) \in Copy /\ NoHostIfAbsent(Created(valid))
      BY <3>1, ConstantCopies DEF Created, Absent, NoHostIfAbsent
    <3>3. tr[t].assigned = None /\ Open(tr[t])
      BY <2>1 DEF CreateTask, NotCreated, Open
    <3>4. QED
      BY <1>2, <3>1, <3>2, <3>3, PutVersion DEF LeaseInv
  <2>2. CASE TaskCompletes(t) \/ TaskCancelled(t)
    <3> DEFINE o == [tr[t] EXCEPT !.phase = "completed"]
    <3>1. Put(t, o)
      BY <2>2 DEF TaskCompletes, TaskCancelled, Completes
    <3>2. o \in Copy /\ o.phase = "completed"
      BY <1>1, UpdatedCopies DEF TaskRun
    <3> HIDE DEF o
    <3>3. NoHostIfAbsent(o) /\ ~Open(o)
      BY <3>2 DEF NoHostIfAbsent, Exists, Open
    <3>4. QED
      BY <1>2, <3>1, <3>2, <3>3, PutVersion DEF LeaseInv
  <2>3. CASE DeleteTask(t)
    <3> DEFINE o == [tr[t] EXCEPT !.deleting = TRUE]
    <3>1. Put(t, o) /\ Exists(tr[t])
      BY <2>3 DEF DeleteTask
    <3>2. o \in Copy /\ o.phase = tr[t].phase /\ o.deleting
      BY <1>1, UpdatedCopies DEF TaskRun
    <3> HIDE DEF o
    <3>3. NoHostIfAbsent(o) /\ ~Open(o)
      BY <3>1, <3>2 DEF NoHostIfAbsent, Exists, Open
    <3>4. QED
      BY <1>2, <3>1, <3>2, <3>3, PutVersion DEF LeaseInv
  <2>4. QED
    BY <1>4, <2>1, <2>2, <2>3 DEF User
<1>5. QED
  BY <1>2, <1>3, <1>4 DEF WakeOldest, storeVars

LEMMA NextVersions ==
    ASSUME OutcomeOnce, LeaseInv, NotCreated, VersionsOK, [Next]_vars
    PROVE  VersionsOK'
<1> DEFINE Kept == UNCHANGED <<tr, watch, cache>>
<1>1. ASSUME Kept \/ \E t \in Tasks : NewVersion(t) PROVE VersionsOK'
  BY <1>1, VersionsKept, VersionStored DEF LeaseInv
<1>2. ASSUME NEW w \in Workers, WorkerStep(w)
      PROVE  Kept \/ \E t \in Tasks : NewVersion(t)
  <2>1. CASE LaunchProvision(w) \/ CreateErrorSecret(w) \/ Deallocate(w)
             \/ DeleteSecret(w) \/ MarkProcessed(w)
    BY <2>1 DEF LaunchProvision, CreateErrorSecret, Deallocate, DeleteSecret,
                MarkProcessed
  <2>2. QED
    BY <1>2, <2>1, UpdateVersions, FinalizerVersions, OtherVersions
    DEF WorkerStep
<1>3. ASSUME NEW w \in Workers, WorkerFault(w) PROVE Kept
  BY <1>3 DEF WorkerFault, ErrorRequeues, ErrorSecretAgain,
              ErrorFailsAllocation, LaunchFails, KeyReadFails,
              DeallocateFails, SecretDeleteFails, WakeFails, UserReadFails,
              ProvisionReadFails
<1>4. CASE Deliver
  BY <1>4, VersionDelivered DEF LeaseInv
<1>5. CASE Restart
  BY <1>5 DEF Restart, Fault, OutcomeOnce
<1>6. CASE UNCHANGED vars \/ \E t \in Tasks : TimerFires(t)
  BY <1>1, <1>6 DEF vars, TimerFires
<1>7. ASSUME NEW w \in Workers, NEW t \in Tasks, ReconcileUser(w, t)
      PROVE  Kept
  BY <1>7 DEF ReconcileUser
<1>8. ASSUME NEW w \in Workers, NEW t \in Tasks, NEW h \in Hosts,
             ReconcileProvisionKey(w, t, h)
      PROVE  Kept
  BY <1>8 DEF ReconcileProvisionKey, ReconcileProvision, RemoveProvision
<1>9. ASSUME NEW t \in Tasks, NEW h \in Hosts,
             Job(t, h) \/ ReconcileClean(t, h)
      PROVE  Kept
  BY <1>9 DEF Job, ProvisionSucceeds, ProvisionFails, CleanSucceeds,
              CleanFails, ReconcileClean
<1> HIDE DEF Kept
<1>10. QED
  BY <1>1, <1>2, <1>3, <1>4, <1>5, <1>6, <1>7, <1>8, <1>9, OtherVersions
  DEF Next, Kept

(***************************************************************************)
(* AssignedHasProvision: the steps.                                        *)
(***************************************************************************)

\* A step of workers that neither mark an outcome nor are to, which leaves
\* the provision TaskRuns alone.
LEMMA LiveSame ==
    ASSUME NEW W \in SUBSET Workers,
           \A v \in Workers \ W : worker'[v] = worker[v],
           \A v \in W : worker[v].pc # "mark" /\ worker'[v].pc # "mark",
           UNCHANGED <<prov, processed>>, NEW l \in Leases
    PROVE  Live(l)' <=> Live(l)
BY DEF Live, Marking

\* What ServedTask says of t does not change.
SameLease(t) ==
    /\ tr'[t] = tr[t] /\ secret'[t] = secret[t]
    /\ \A h \in Hosts :
          /\ prov'[<<t, h>>] = prov[<<t, h>>]
          /\ <<t, h>> \in processed' <=> <<t, h>> \in processed

\* A step on t, of the workers of W, which have no key of another TaskRun,
\* except that one of a TaskRun that is done may end.
LEMMA ServedFrame ==
    ASSUME ServedInv, LeaseInv', NotCreated', VersionsOK', NEW t \in Tasks,
           NEW W \in SUBSET Workers,
           \A v \in Workers \ W : worker'[v] = worker[v],
           \A v \in W, u \in Tasks \ {t} :
               /\ \A h \in Hosts : /\ worker[v].key # <<u, h>>
                                   /\ worker'[v].key # <<u, h>>
               /\ worker'[v].key # UserKey(u)
               /\ worker[v].key = UserKey(u) => ~Open(tr[u]),
           \A u \in Tasks \ {t} : SameLease(u),
           Open(tr'[t]) => ServedTask(t)'
    PROVE  ServedInv'
<1> SUFFICES ASSUME NEW u \in Tasks, u # t, Open(tr'[u])
             PROVE  ServedTask(u)'
  BY DEF ServedInv
<1>1. SameLease(u) /\ Open(tr[u]) /\ ServedTask(u)
  BY DEF ServedInv, SameLease
<1>2. \A v \in W : /\ \A h \in Hosts : /\ worker[v].key # <<u, h>>
                                       /\ worker'[v].key # <<u, h>>
                   /\ worker'[v].key # UserKey(u)
                   /\ worker[v].key # UserKey(u)
  BY <1>1
<1>3. \A h \in Hosts : Live(<<u, h>>)' <=> Live(<<u, h>>)
  BY <1>1, <1>2 DEF Live, Marking, SameLease
<1>4. FailuresKnown(u)' /\ ProcessedServed(u)'
  BY <1>1, <1>3 DEF ServedTask, FailuresKnown, ProcessedServed, SameLease
<1>5. Provided(u)'
  BY <1>1, <1>2, <1>3 DEF ServedTask, Provided, SameLease
<1>6. ReconcilesKnow(u)'
  <2>1. ASSUME NEW v \in Workers \ W
        PROVE  /\ worker'[v].key = UserKey(u) => KnowsFailures(worker[v], u)'
               /\ \A h \in Hosts : worker'[v].key = <<u, h>>
                                   => KnowsOutcome(worker[v], u, h)'
    <3>1. worker'[v] = worker[v]
      OBVIOUS
    <3>2. CASE worker[v].key = UserKey(u)
      <4>1. KnowsFailures(worker[v], u)
        BY <1>1, <3>2 DEF ServedTask, ReconcilesKnow
      <4>2. worker[v].pc \in {"assign", "launch"} => worker[v].host \in Hosts
        BY <3>2, UserReconcile
        DEF ServedInv, AllocatingOK, Allocating, Writing, Choosing
      <4>3. KnowsFailures(worker[v], u)'
        BY <1>1, <3>1, <4>1, <4>2 DEF KnowsFailures, SameLease
      <4>4. QED
        BY <3>1, <3>2, <4>3, KeyKinds
    <3>3. ASSUME NEW h \in Hosts, worker[v].key = <<u, h>>
          PROVE  KnowsOutcome(worker[v], u, h)'
      <4>1. KnowsOutcome(worker[v], u, h)
        BY <1>1, <3>3 DEF ServedTask, ReconcilesKnow
      <4>2. QED
        BY <1>1, <3>1, <4>1 DEF KnowsOutcome, SameLease
    <3>4. QED
      BY <3>1, <3>2, <3>3
  <2>2. QED
    BY <1>2, <2>1 DEF ReconcilesKnow
<1>7. QED
  BY <1>4, <1>5, <1>6 DEF ServedTask

\* A step that changes no secret and no provision TaskRun, and of t neither
\* its host nor its failed hosts: the workers of W, which may have had the
\* key of t if t has no host or is done, know what they have to.
LEMMA QuietServed ==
    ASSUME ServedInv, LeaseInv', NotCreated', VersionsOK', NEW t \in Tasks,
           NEW W \in SUBSET Workers,
           \A v \in Workers \ W : worker'[v] = worker[v],
           \A v \in W :
               /\ worker[v].pc # "mark" /\ worker'[v].pc # "mark"
               /\ \A u \in Tasks \ {t} :
                     /\ \A h \in Hosts : /\ worker[v].key # <<u, h>>
                                         /\ worker'[v].key # <<u, h>>
                     /\ worker'[v].key # UserKey(u)
                     /\ worker[v].key = UserKey(u) => ~Open(tr[u])
               /\ worker[v].key = UserKey(t) /\ worker'[v].key # UserKey(t)
                  => ~Open(tr[t]) \/ tr[t].assigned = None
               /\ worker'[v].key = UserKey(t) /\ Open(tr'[t])
                  => KnowsFailures(worker[v], t)'
               /\ \A h \in Hosts : worker'[v].key = <<t, h>> /\ Open(tr'[t])
                                   => KnowsOutcome(worker[v], t, h)',
           \A u \in Tasks \ {t} : tr'[u] = tr[u],
           Open(tr'[t]) => /\ Open(tr[t])
                           /\ tr'[t].assigned = tr[t].assigned
                           /\ tr'[t].failed = tr[t].failed,
           UNCHANGED <<secret, prov, processed>>
    PROVE  ServedInv'
<1>1. \A u \in Tasks \ {t} : SameLease(u)
  BY DEF SameLease
<1>2. ASSUME Open(tr'[t]) PROVE ServedTask(t)'
  <2>1. /\ ServedTask(t) /\ Open(tr[t])
        /\ tr'[t].assigned = tr[t].assigned /\ tr'[t].failed = tr[t].failed
    BY <1>2 DEF ServedInv
  <2>2. \A l \in Leases : Live(l)' <=> Live(l)
    BY LiveSame
  <2>3. \A h \in Hosts : Live(<<t, h>>)' <=> Live(<<t, h>>)
    BY <2>2, KeyKinds
  <2>4. FailuresKnown(t)' /\ ProcessedServed(t)'
    BY <2>1, <2>3 DEF ServedTask, FailuresKnown, ProcessedServed
  <2>5. Provided(t)'
    <3> SUFFICES ASSUME NEW h \in Hosts, tr'[t].assigned = h,
                        secret'[t] = "none", ~Live(<<t, h>>)'
                 PROVE  \E w \in Workers : worker'[w].key = UserKey(t)
      BY DEF Provided
    <3>1. PICK w \in Workers : worker[w].key = UserKey(t)
      BY <2>1, <2>3 DEF ServedTask, Provided
    <3>2. tr[t].assigned # None
      BY <2>1, ConstantsAssumption
    <3>3. QED
      BY <2>1, <3>1, <3>2
  <2>6. ReconcilesKnow(t)'
    <3>1. ASSUME NEW v \in Workers \ W
          PROVE  /\ worker'[v].key = UserKey(t)
                    => KnowsFailures(worker[v], t)'
                 /\ \A h \in Hosts : worker'[v].key = <<t, h>>
                                     => KnowsOutcome(worker[v], t, h)'
      <4>1. /\ worker[v].key = UserKey(t) => KnowsFailures(worker[v], t)
            /\ \A h \in Hosts : worker[v].key = <<t, h>>
                                => KnowsOutcome(worker[v], t, h)
        BY <2>1 DEF ServedTask, ReconcilesKnow
      <4>2. QED
        BY <2>1, <4>1 DEF KnowsFailures, KnowsOutcome
    <3>2. QED
      BY <1>2, <3>1 DEF ReconcilesKnow
  <2>7. QED
    BY <2>4, <2>5, <2>6 DEF ServedTask
<1>3. QED
  BY <1>1, <1>2, ServedFrame, SMTT(30)

\* The keys of one TaskRun are not keys of another.
LEMMA OtherKeys ==
    ASSUME NEW t \in Tasks, NEW u \in Tasks \ {t}, NEW k,
           k = UserKey(t) \/ \E g \in Hosts : k = <<t, g>>
    PROVE  k # UserKey(u) /\ \A h \in Hosts : k # <<u, h>>
BY DEF UserKey

\* An idle worker has no key at all.
LEMMA IdleNoKey ==
    ASSUME NEW r, r = Idle, NEW u \in Tasks
    PROVE  r.key # UserKey(u) /\ \A h \in Hosts : r.key # <<u, h>>
BY ConstantsAssumption DEF Idle, NoKey, UserKey, Tasks

\* A worker about t moves, ends or starts, and nothing else changes but t,
\* which stays as it is or ends.
LEMMA ServedMove ==
    ASSUME ServedInv, LeaseInv', NotCreated', VersionsOK', NEW w \in Workers,
           NEW t \in Tasks,
           \A v \in Workers \ {w} : worker'[v] = worker[v],
           worker[w].pc # "mark", worker'[w].pc # "mark",
           \/ worker[w] = Idle \/ worker[w].key = UserKey(t)
           \/ \E h \in Hosts : worker[w].key = <<t, h>>,
           \/ worker'[w] = Idle \/ worker'[w].key = UserKey(t)
           \/ \E h \in Hosts : worker'[w].key = <<t, h>>,
           worker[w].key = UserKey(t) /\ worker'[w].key # UserKey(t)
           => ~Open(tr[t]) \/ tr[t].assigned = None,
           worker'[w].key = UserKey(t) /\ Open(tr'[t])
           => KnowsFailures(worker[w], t)',
           \A h \in Hosts : worker'[w].key = <<t, h>> /\ Open(tr'[t])
                            => KnowsOutcome(worker[w], t, h)',
           \A u \in Tasks \ {t} : tr'[u] = tr[u],
           Open(tr'[t]) => /\ Open(tr[t])
                           /\ tr'[t].assigned = tr[t].assigned
                           /\ tr'[t].failed = tr[t].failed,
           UNCHANGED <<secret, prov, processed>>
    PROVE  ServedInv'
<1> DEFINE W == {w}
<1>1. \A u \in Tasks \ {t} :
         /\ \A h \in Hosts : worker[w].key # <<u, h>> /\ worker'[w].key # <<u, h>>
         /\ worker'[w].key # UserKey(u) /\ worker[w].key # UserKey(u)
  <2> SUFFICES ASSUME NEW u \in Tasks \ {t}
               PROVE  /\ \A h \in Hosts : /\ worker[w].key # <<u, h>>
                                          /\ worker'[w].key # <<u, h>>
                      /\ worker'[w].key # UserKey(u)
                      /\ worker[w].key # UserKey(u)
    OBVIOUS
  <2>1. worker[w].key # UserKey(u) /\ \A h \in Hosts : worker[w].key # <<u, h>>
    <3>1. CASE worker[w] = Idle
      BY <3>1, IdleNoKey
    <3>2. CASE worker[w] # Idle
      BY <3>2, OtherKeys
    <3>3. QED
      BY <3>1, <3>2
  <2>2. /\ worker'[w].key # UserKey(u)
        /\ \A h \in Hosts : worker'[w].key # <<u, h>>
    <3>1. CASE worker'[w] = Idle
      BY <3>1, IdleNoKey
    <3>2. CASE worker'[w] # Idle
      BY <3>2, OtherKeys
    <3>3. QED
      BY <3>1, <3>2
  <2>3. QED
    BY <2>1, <2>2
<1>2. W \in SUBSET Workers /\ \A v \in Workers \ W : worker'[v] = worker[v]
  OBVIOUS
<1>3. \A v \in W :
         /\ worker[v].pc # "mark" /\ worker'[v].pc # "mark"
         /\ \A u \in Tasks \ {t} :
               /\ \A h \in Hosts : /\ worker[v].key # <<u, h>>
                                   /\ worker'[v].key # <<u, h>>
               /\ worker'[v].key # UserKey(u)
               /\ worker[v].key # UserKey(u)
         /\ worker[v].key = UserKey(t) /\ worker'[v].key # UserKey(t)
            => ~Open(tr[t]) \/ tr[t].assigned = None
         /\ worker'[v].key = UserKey(t) /\ Open(tr'[t])
            => KnowsFailures(worker[v], t)'
         /\ \A h \in Hosts : worker'[v].key = <<t, h>> /\ Open(tr'[t])
                             => KnowsOutcome(worker[v], t, h)'
  BY <1>1
<1> HIDE DEF W
<1>4. QED
  BY <1>2, <1>3, QuietServed

\* Nothing changes that the invariant is about.
LEMMA ServedSkip ==
    ASSUME ServedInv, LeaseInv', NotCreated', VersionsOK',
           UNCHANGED <<tr, secret, prov, processed, worker>>
    PROVE  ServedInv'
<1> SUFFICES ASSUME NEW t \in Tasks, Open(tr'[t]) PROVE ServedTask(t)'
  BY DEF ServedInv
<1>1. ServedTask(t)
  BY DEF ServedInv
<1>2. QED
  BY <1>1 DEF ServedTask, FailuresKnown, ProcessedServed, Provided,
              ReconcilesKnow, KnowsFailures, KnowsOutcome, Live, Marking

\* While a reconcile allocates for t, no other is about t's failures.
LEMMA NoOtherFailure ==
    ASSUME LeaseInv, NEW t \in Tasks, NoLive(t), NEW v \in Workers,
           NEW h \in Hosts, worker[v].key = <<t, h>>
    PROVE  worker[v].pc # "unassignFailed"
BY FailedIsLive DEF NoLive

\* A reconcile that allocates stores its copy: the copy knows the failures,
\* and it has no host, or the reconcile goes on.
LEMMA ServedWrite ==
    ASSUME ServedInv, LeaseInv', NotCreated', VersionsOK', NEW w \in Workers,
           NEW t \in Tasks, worker[w].key = UserKey(t),
           worker[w].pc \in Writing,
           \A v \in Workers \ {w} : worker'[v] = worker[v],
           \/ worker'[w] = Idle /\ tr'[t].assigned = None
           \/ /\ worker'[w].key = UserKey(t) /\ worker'[w].pc # "mark"
              /\ Open(tr'[t]) => KnowsFailures(worker[w], t)',
           \A u \in Tasks \ {t} : tr'[u] = tr[u],
           Open(tr'[t]) <=> Open(tr[t]),
           Open(tr[t]) => tr'[t].failed = worker[w].obj.failed,
           UNCHANGED <<secret, prov, processed>>
    PROVE  ServedInv'
<1> DEFINE W == {w}
<1>1. worker[w].pc # "mark" /\ worker'[w].pc # "mark"
  BY DEF Writing, Choosing, Idle
<1>2. worker'[w] = Idle => worker'[w].key # UserKey(t)
  BY IdleNoKey
<1>3. \A h \in Hosts : worker'[w].key # <<t, h>> /\ worker[w].key # <<t, h>>
  BY IdleNoKey, ConstantsAssumption DEF UserKey
<1>4. CASE ~Open(tr[t])
  BY <1>1, <1>3, <1>4, ServedMove
<1>5. CASE Open(tr[t])
  <2>1. NoLive(t) /\ ServedTask(t) /\ KnowsFailures(worker[w], t)
    BY <1>5, UserReconcile
    DEF ServedInv, AllocatingOK, Allocating, ServedTask, ReconcilesKnow
  <2>2. \A v \in Workers \ W : worker[v].key # UserKey(t)
    BY Alone DEF ServedInv
  <2>3. FailuresKnown(t)' /\ ProcessedServed(t)'
    BY <1>5, <2>1
    DEF ServedTask, KnowsFailures, FailuresKnown, ProcessedServed
  <2>4. Provided(t)'
    BY ConstantsAssumption DEF Provided
  <2>5. ReconcilesKnow(t)'
    <3>1. ASSUME NEW v \in Workers \ W, NEW h \in Hosts,
                 worker'[v].key = <<t, h>>
          PROVE  KnowsOutcome(worker[v], t, h)'
      <4>1. worker'[v] = worker[v] /\ KnowsOutcome(worker[v], t, h)
        BY <2>1, <3>1 DEF ServedTask, ReconcilesKnow
      <4>2. worker[v].pc # "unassignFailed"
        BY <2>1, <3>1, <4>1, NoOtherFailure DEF ServedInv
      <4>3. QED
        BY <4>1, <4>2 DEF KnowsOutcome
    <3>2. QED
      BY <1>2, <1>3, <1>5, <2>2, <3>1 DEF ReconcilesKnow
  <2>6. ServedTask(t)'
    BY <2>3, <2>4, <2>5 DEF ServedTask
  <2>7. \A u \in Tasks \ {t} : SameLease(u)
    BY DEF SameLease
  <2>8. \A u \in Tasks \ {t} :
           /\ \A h \in Hosts : /\ worker[w].key # <<u, h>>
                               /\ worker'[w].key # <<u, h>>
           /\ worker'[w].key # UserKey(u) /\ worker[w].key # UserKey(u)
    BY OtherKeys, IdleNoKey
  <2>9. /\ W \in SUBSET Workers
        /\ \A v \in Workers \ W : worker'[v] = worker[v]
        /\ \A v \in W, u \in Tasks \ {t} :
              /\ \A h \in Hosts : /\ worker[v].key # <<u, h>>
                                  /\ worker'[v].key # <<u, h>>
              /\ worker'[v].key # UserKey(u) /\ worker[v].key # UserKey(u)
    BY <2>8
  <2> HIDE DEF W
  <2>10. QED
    BY <2>6, <2>7, <2>9, ServedFrame, SMTT(30)
<1>6. QED
  BY <1>4, <1>5

LEMMA ServedAllocating ==
    ASSUME ServedInv, LeaseInv', NotCreated', VersionsOK', NEW w \in Workers,
           WaitForHost(w) \/ AssignHost(w) \/ UnassignHost(w)
    PROVE  ServedInv'
<1> DEFINE r == worker[w]
<1>1. /\ r.pc \in {"wait", "assign", "unassign"}
      /\ r.pc \in Choosing /\ r.pc \in Writing /\ r.pc \in Allocating
      /\ r.pc # "idle" /\ r.pc # "mark"
      /\ UNCHANGED <<secret, prov, processed>>
  BY DEF WaitForHost, AssignHost, UnassignHost, At, jobVars, Choosing,
         Writing, Allocating
<1>2. PICK t \in Tasks : t = TaskOf(w) /\ r.key = UserKey(t)
  BY <1>1, KeyOf DEF ServedInv
<1>3. r.obj \in Copy /\ AllocatingOK(r, t)
  BY <1>1, <1>2, AtAllocating DEF ServedInv
<1>4. Open(tr[t]) => KnowsFailures(r, t)
  BY <1>2 DEF ServedInv, ServedTask, ReconcilesKnow
<1>5. Open(tr[t]) /\ ~Exists(tr[t]) => tr[t].assigned = None
  BY DEF ServedInv, VersionsOK, NoHostIfAbsent
<1>6. CASE Exists(tr[t])
  <2>1. UpdateTaskRunWithRetry(t, r.obj)
    BY <1>2, <1>6 DEF WaitForHost, AssignHost, UnassignHost
  <2>2. /\ \A u \in Tasks \ {t} : tr'[u] = tr[u]
        /\ tr'[t].assigned = r.obj.assigned
        /\ Open(tr'[t]) <=> Open(tr[t])
        /\ Open(tr[t]) => tr'[t].failed = r.obj.failed
    BY <1>3, <2>1, UpdateFacts DEF ServedInv, LeaseInv
  <2>3. CASE WaitForHost(w)
    <3>1. Requeue(w) /\ r.pc = "wait"
      BY <1>2, <1>6, <2>3 DEF WaitForHost, At
    <3>2. /\ \A v \in Workers \ {w} : worker'[v] = worker[v]
          /\ worker'[w] = Idle
      BY <3>1, RequeueMove DEF ServedInv, LeaseInv
    <3>3. r.obj.assigned = None
      BY <1>3, <3>1 DEF AllocatingOK
    <3>4. QED
      BY <1>1, <1>2, <2>2, <3>2, <3>3, ServedWrite
  <2>4. CASE AssignHost(w)
    <3>1. Keep(w, "launch", r.obj) /\ r.pc = "assign"
      BY <1>2, <1>6, <2>4 DEF AssignHost, At
    <3>2. /\ \A v \in Workers \ {w} : worker'[v] = worker[v]
          /\ worker'[w].pc = "launch" /\ worker'[w].key = r.key
          /\ worker'[w].obj = r.obj /\ worker'[w].host = r.host
      BY <1>1, <3>1, KeepMove DEF ServedInv, LeaseInv
    <3>3. Open(tr'[t]) => KnowsFailures(worker[w], t)'
      BY <1>1, <1>4, <2>2, <3>1, <3>2 DEF KnowsFailures, Choosing
    <3>4. QED
      BY <1>1, <1>2, <2>2, <3>2, <3>3, ServedWrite
  <2>5. CASE UnassignHost(w)
    <3>1. Keep(w, "fail", r.obj) /\ r.pc = "unassign"
      BY <2>5 DEF UnassignHost, At
    <3>2. /\ \A v \in Workers \ {w} : worker'[v] = worker[v]
          /\ worker'[w].pc = "fail" /\ worker'[w].key = r.key
          /\ worker'[w].obj = r.obj /\ worker'[w].host = r.host
      BY <1>1, <3>1, KeepMove DEF ServedInv, LeaseInv
    <3>3. r.obj.assigned = None
      BY <1>3, <3>1 DEF AllocatingOK
    <3>4. Open(tr'[t]) => KnowsFailures(worker[w], t)'
      BY <1>1, <1>4, <2>2, <3>2, <3>3 DEF KnowsFailures
    <3>5. QED
      BY <1>1, <1>2, <2>2, <3>2, <3>4, ServedWrite
  <2>6. QED
    BY <2>3, <2>4, <2>5
<1>7. CASE ~Exists(tr[t])
  <2>1. /\ UNCHANGED tr
        /\ \/ Keep(w, FailPC(r.obj), r.obj) \/ Goto(w, "errorSecret")
           \/ Keep(w, "fail", r.obj)
    BY <1>2, <1>7 DEF WaitForHost, AssignHost, UnassignHost, storeVars
  <2>2. /\ \A v \in Workers \ {w} : worker'[v] = worker[v]
        /\ worker'[w].key = r.key
        /\ \/ worker'[w].pc = "fail" /\ worker'[w].obj = r.obj
           \/ worker'[w].pc = "errorSecret"
    BY <1>1, <2>1, GotoMove, KeepMove DEF ServedInv, LeaseInv, FailPC
  <2>3. Open(tr'[t]) => KnowsFailures(worker[w], t)'
    BY <1>1, <1>4, <1>5, <1>7, <2>1, <2>2
    DEF KnowsFailures, Writing, Choosing
  <2>4. \A h \in Hosts : worker'[w].key # <<t, h>>
    BY <1>2, <2>2, ConstantsAssumption DEF UserKey
  <2>5. QED
    BY <1>1, <1>2, <2>1, <2>2, <2>3, <2>4, ServedMove
<1>8. QED
  BY <1>6, <1>7

\* createErrorSecret's first step.
LEMMA ServedFinalizer ==
    ASSUME ServedInv, LeaseInv', NotCreated', VersionsOK', NEW w \in Workers,
           AddErrorFinalizer(w)
    PROVE  ServedInv'
<1> DEFINE r == worker[w]
           o == [r.obj EXCEPT !.finalizer = TRUE]
<1>1. /\ r.pc \in {"fail", "configFail"} /\ r.pc # "idle" /\ r.pc # "mark"
      /\ r.pc \in Writing /\ r.pc \in Allocating \ Choosing
      /\ UNCHANGED <<secret, prov, processed>>
  BY DEF AddErrorFinalizer, At, jobVars, Writing, Allocating, Choosing
<1>2. PICK t \in Tasks : t = TaskOf(w)
  BY <1>1, KeyOf DEF ServedInv
<1>3. /\ o \in Copy /\ o.assigned = r.obj.assigned
      /\ o.failed = r.obj.failed
      /\ o.phase = r.obj.phase /\ o.deleting = r.obj.deleting
  <2>1. r.obj \in Copy
    BY <1>1, BusyWorker DEF ServedInv, LeaseInv, CopiesConsistent
  <2>2. QED
    BY <2>1, UpdatedCopies DEF Copy, TaskRun
<1> HIDE DEF o
<1>4. \/ r.key = UserKey(t) \/ \E h \in Hosts : r.key = <<t, h>>
  BY <1>1, <1>2, KeyOf DEF ServedInv, Leases, TaskOf
<1>5. r.key = UserKey(t) /\ Open(tr[t]) => tr[t].assigned = None
  BY <1>1 DEF ServedInv, ServedTask, ReconcilesKnow, KnowsFailures
<1>6. CASE NotServed(w) /\ UNCHANGED storeVars
  <2>1. /\ \A v \in Workers \ {w} : worker'[v] = worker[v]
        /\ worker'[w] = Idle /\ worker'[w].pc # "mark" /\ UNCHANGED tr
    BY <1>6, RequeueMove DEF ServedInv, LeaseInv, storeVars
  <2>2. worker'[w].key # UserKey(t) /\ \A h \in Hosts : worker'[w].key # <<t, h>>
    BY <2>1, IdleNoKey
  <2>3. QED
    BY <1>1, <1>4, <1>5, <2>1, <2>2, ServedMove
<1>7. ASSUME tr[t] = r.seen, Put(t, o),
             NEW pc \in {"errorSecret", "configSecret"}, Goto(w, pc)
      PROVE  ServedInv'
  <2>1. /\ tr'[t] = Settled(o) /\ \A u \in Tasks \ {t} : tr'[u] = tr[u]
        /\ tr'[t].assigned = o.assigned /\ (Open(tr'[t]) <=> Open(o))
    BY <1>3, <1>7, PutFacts DEF ServedInv, LeaseInv
  <2>2. Open(o) => tr'[t] = o
    BY <2>1 DEF Settled, Open
  <2>3. /\ \A v \in Workers \ {w} : worker'[v] = worker[v]
        /\ worker'[w].pc = pc /\ worker'[w].key = r.key
    BY <1>1, <1>7, GotoMove DEF ServedInv, LeaseInv
  <2>4. CASE r.key = UserKey(t)
    <3>1. AllocatingOK(r, t)
      BY <1>1, <1>2, <2>4, AtAllocating DEF ServedInv
    <3>2. r.obj.assigned = None /\ Open(tr[t]) /\ Open(o)
      BY <1>1, <1>3, <1>7, <3>1 DEF AllocatingOK, Runs, Open
    <3>3. KnowsFailures(worker[w], t)'
      BY <1>3, <2>1, <2>3, <3>2 DEF KnowsFailures, Writing, Choosing
    <3>4. tr'[t].failed = r.obj.failed
      BY <1>3, <2>2, <3>2
    <3>5. QED
      BY <1>1, <2>1, <2>3, <2>4, <3>2, <3>3, <3>4, ServedWrite
  <2>5. CASE \E h \in Hosts : r.key = <<t, h>>
    <3>1. PICK h \in Hosts : r.key = <<t, h>>
      BY <2>5
    <3>2. r.obj = tr[t]
      <4>1. r.key \in Leases
        BY <3>1, KeyKinds
      <4>2. /\ r.pc \in {"fail", "errorSecret", "unassignFailed", "mark"}
            /\ r.pc = "fail" => r.obj = r.seen
        BY <4>1, ProvisionReconcile DEF ServedInv, OutcomeOK
      <4>3. QED
        BY <1>1, <1>7, <4>2
    <3>3. Open(tr'[t]) => /\ Open(tr[t])
                          /\ tr'[t].assigned = tr[t].assigned
                          /\ tr'[t].failed = tr[t].failed
      BY <1>3, <2>1, <2>2, <3>2 DEF Open
    <3>4. \A g \in Hosts : KnowsOutcome(worker[w], t, g)'
      BY <2>3 DEF KnowsOutcome
    <3>5. worker'[w].key # UserKey(t) /\ r.key # UserKey(t)
      BY <2>3, <3>1, ConstantsAssumption DEF UserKey
    <3>6. QED
      BY <1>1, <2>1, <2>3, <3>1, <3>3, <3>4, <3>5, ServedMove
  <2>6. QED
    BY <1>4, <2>4, <2>5
<1>8. QED
  BY <1>2, <1>6, <1>7 DEF AddErrorFinalizer, At, o

\* A step on t, of a worker that is about t.
LEMMA ServedStep ==
    ASSUME ServedInv, LeaseInv', NotCreated', VersionsOK', NEW w \in Workers,
           NEW t \in Tasks,
           \A v \in Workers \ {w} : worker'[v] = worker[v],
           \/ worker[w] = Idle \/ worker[w].key = UserKey(t)
           \/ \E h \in Hosts : worker[w].key = <<t, h>>,
           \/ worker'[w] = Idle \/ worker'[w].key = UserKey(t)
           \/ \E h \in Hosts : worker'[w].key = <<t, h>>,
           \A u \in Tasks \ {t} : SameLease(u),
           Open(tr'[t]) => ServedTask(t)'
    PROVE  ServedInv'
<1> DEFINE W == {w}
<1>1. ASSUME NEW u \in Tasks \ {t}
      PROVE  /\ worker[w].key # UserKey(u)
             /\ \A h \in Hosts : worker[w].key # <<u, h>>
  <2>1. CASE worker[w] = Idle
    BY <2>1, IdleNoKey
  <2>2. CASE worker[w] # Idle
    BY <2>2, OtherKeys
  <2>3. QED
    BY <2>1, <2>2
<1>2. ASSUME NEW u \in Tasks \ {t}
      PROVE  /\ worker'[w].key # UserKey(u)
             /\ \A h \in Hosts : worker'[w].key # <<u, h>>
  <2>1. CASE worker'[w] = Idle
    BY <2>1, IdleNoKey
  <2>2. CASE worker'[w] # Idle
    BY <2>2, OtherKeys
  <2>3. QED
    BY <2>1, <2>2
<1>3. W \in SUBSET Workers /\ \A v \in Workers \ W : worker'[v] = worker[v]
  OBVIOUS
<1>4. \A v \in W, u \in Tasks \ {t} :
         /\ \A h \in Hosts : /\ worker[v].key # <<u, h>>
                             /\ worker'[v].key # <<u, h>>
         /\ worker'[v].key # UserKey(u)
         /\ worker[v].key = UserKey(u) => ~Open(tr[u])
  BY <1>1, <1>2
<1> HIDE DEF W
<1>5. QED
  BY <1>3, <1>4, ServedFrame

\* A TaskRun for which something is provisioned exists while it is open.
LEMMA LiveExists ==
    ASSUME ServedInv, NEW t \in Tasks, NEW h \in Hosts, Open(tr[t]),
           Live(<<t, h>>)
    PROVE  tr[t].assigned = h /\ Exists(tr[t])
BY ConstantsAssumption DEF ServedInv, LeaseInv, Held, VersionsOK, NoHostIfAbsent

\* The error secret is created.
LEMMA ServedError ==
    ASSUME ServedInv, LeaseInv', NotCreated', VersionsOK', NEW w \in Workers,
           \/ CreateErrorSecret(w) \/ KeyReadFails(w)
           \/ LaunchProvision(w) /\ worker[w].host \in MissingKey
    PROVE  ServedInv'
<1> DEFINE r == worker[w]
<1>1. /\ r.pc \in {"errorSecret", "configSecret", "launch"}
      /\ r.pc # "idle" /\ r.pc # "mark" /\ r.pc \in Allocating
      /\ r.pc # "launch" => r.pc \in Allocating \ Choosing
      /\ ErrorSecret(TaskOf(w)) /\ UNCHANGED <<tr, prov, processed>>
      /\ \/ NotServed(w) \/ Return(w)
         \/ Reconciles(w, "provision") /\ Goto(w, "mark")
  <2>1. r.pc \in {"errorSecret", "configSecret", "launch"}
    BY DEF CreateErrorSecret, KeyReadFails, LaunchProvision, At
  <2>2. /\ r.pc # "idle" /\ r.pc # "mark" /\ r.pc \in Allocating
        /\ r.pc # "launch" => r.pc \in Allocating \ Choosing
    BY <2>1 DEF Allocating, Writing, Choosing
  <2>3. ErrorSecret(TaskOf(w)) /\ UNCHANGED <<tr, prov, processed>>
    BY DEF CreateErrorSecret, KeyReadFails, LaunchProvision, jobVars
  <2>4. \/ NotServed(w) \/ Return(w)
        \/ Reconciles(w, "provision") /\ Goto(w, "mark")
    BY DEF CreateErrorSecret, KeyReadFails, LaunchProvision
  <2>5. QED
    BY <2>1, <2>2, <2>3, <2>4
<1>2. PICK t \in Tasks : t = TaskOf(w)
  BY <1>1, KeyOf DEF ServedInv
<1>3. \/ r.key = UserKey(t) \/ \E h \in Hosts : r.key = <<t, h>>
  BY <1>1, <1>2, KeyOf DEF ServedInv, Leases, TaskOf
<1>4. /\ \A v \in Workers \ {w} : worker'[v] = worker[v]
      /\ \/ worker'[w] = Idle
         \/ /\ worker'[w].pc = "mark" /\ worker'[w].key = r.key
            /\ r.key # UserKey(t)
  BY <1>1, <1>2, ReturnMove, RequeueMove, GotoMove, KeyKinds
  DEF ServedInv, LeaseInv, Reconciles
<1>5. /\ \A u \in Tasks \ {t} : secret'[u] = secret[u]
      /\ secret[t] # "none" => secret'[t] # "none"
      /\ Exists(tr[t]) => secret'[t] # "none"
  BY <1>1, <1>2 DEF ErrorSecret, ServedInv, LeaseInv, CopiesConsistent, RestOK
<1>6. \A u \in Tasks \ {t} : SameLease(u)
  BY <1>1, <1>5 DEF SameLease
<1>7. ASSUME NEW h \in Hosts, r.key = <<t, h>>
      PROVE  prov[<<t, h>>] = "succeeded" /\ Live(<<t, h>>)
  <2>1. r.key \in Leases /\ r.key # UserKey(t)
    BY <1>7, KeyKinds
  <2>2. OutcomeOK(r)
    BY <2>1, ProvisionReconcile DEF ServedInv
  <2>3. r.pc = "errorSecret"
    BY <1>1, <2>2 DEF OutcomeOK
  <2>4. QED
    BY <1>7, <2>2, <2>3 DEF OutcomeOK, Live
<1>8. ASSUME Open(tr'[t]) PROVE ServedTask(t)'
  <2>1. ServedTask(t) /\ Open(tr[t])
    BY <1>1, <1>8 DEF ServedInv
  <2>2. tr[t].assigned = None \/ secret'[t] # "none"
    <3>1. CASE \E h \in Hosts : r.key = <<t, h>>
      BY <1>5, <1>7, <2>1, <3>1, LiveExists
    <3>2. CASE r.key = UserKey(t) /\ r.pc # "launch"
      BY <1>1, <2>1, <3>2 DEF ServedTask, ReconcilesKnow, KnowsFailures
    <3>3. CASE r.key = UserKey(t) /\ r.pc = "launch"
      <4>1. AllocatingOK(r, t)
        BY <1>1, <1>2, <3>3, AtAllocating DEF ServedInv
      <4>2. tr[t].assigned # None
        BY <3>3, <4>1, ConstantsAssumption DEF AllocatingOK
      <4>3. QED
        BY <1>5, <4>2 DEF ServedInv, VersionsOK, NoHostIfAbsent
    <3>4. QED
      BY <1>3, <3>1, <3>2, <3>3
  <2>3. \A h \in Hosts : r.key = <<t, h>> => secret'[t] # "none"
    BY <1>5, <1>7, <2>1, LiveExists
  <2>4. \A h \in Hosts : prov[<<t, h>>] = "failed" =>
           worker'[w].pc # "mark" \/ worker'[w].key # <<t, h>>
    BY <1>4, <1>7, IdleNoKey
  <2>5. \A h \in Hosts : Live(<<t, h>>) => Live(<<t, h>>)'
    <3> SUFFICES ASSUME NEW h \in Hosts, Live(<<t, h>>),
                        prov[<<t, h>>] = "failed"
                 PROVE  ~Marking(<<t, h>>)'
      BY <1>1 DEF Live
    <3>1. ~Marking(<<t, h>>)
      BY DEF Live
    <3>2. QED
      BY <1>4, <2>4, <3>1 DEF Marking
  <2>6. FailuresKnown(t)' /\ ProcessedServed(t)'
    BY <1>1, <1>5, <2>1, <2>5
    DEF ServedTask, FailuresKnown, ProcessedServed
  <2>7. Provided(t)'
    BY <1>1, <2>2, ConstantsAssumption DEF Provided
  <2>8. ReconcilesKnow(t)'
    <3>1. ASSUME NEW v \in Workers \ {w}
          PROVE  /\ worker'[v].key = UserKey(t)
                    => KnowsFailures(worker[v], t)'
                 /\ \A h \in Hosts : worker'[v].key = <<t, h>>
                                     => KnowsOutcome(worker[v], t, h)'
      <4>1. /\ worker'[v] = worker[v]
            /\ worker[v].key = UserKey(t) => KnowsFailures(worker[v], t)
            /\ \A h \in Hosts : worker[v].key = <<t, h>>
                                => KnowsOutcome(worker[v], t, h)
        BY <1>4, <2>1 DEF ServedTask, ReconcilesKnow
      <4>2. QED
        BY <1>1, <1>5, <4>1 DEF KnowsFailures, KnowsOutcome
    <3>2. worker'[w].key # UserKey(t)
      BY <1>4, IdleNoKey
    <3>3. \A h \in Hosts : worker'[w].key = <<t, h>>
                           => KnowsOutcome(worker[w], t, h)'
      BY <1>4, <2>3, IdleNoKey DEF KnowsOutcome
    <3>4. QED
      BY <3>1, <3>2, <3>3 DEF ReconcilesKnow
  <2>9. QED
    BY <2>6, <2>7, <2>8 DEF ServedTask
<1>9. QED
  BY <1>3, <1>4, <1>6, <1>8, ServedStep

\* The provision TaskRun is created: the host is one that did not fail.
LEMMA ServedLaunch ==
    ASSUME ServedInv, LeaseInv', NotCreated', VersionsOK', NEW w \in Workers,
           LaunchProvision(w)
    PROVE  ServedInv'
<1> DEFINE r == worker[w]
<1>1. CASE r.host \in MissingKey
  BY <1>1, ServedError
<1>2. CASE r.host \notin MissingKey
  <2>1. /\ r.pc = "launch" /\ r.pc # "idle" /\ r.pc # "mark"
        /\ r.pc \in Choosing /\ r.pc \in Allocating
        /\ UNCHANGED <<tr, secret, processed>> /\ Return(w)
    BY <1>2 DEF LaunchProvision, At, Choosing, Writing, Allocating
  <2>2. PICK t \in Tasks : t = TaskOf(w) /\ r.key = UserKey(t)
    BY <2>1, KeyOf DEF ServedInv
  <2>3. AllocatingOK(r, t) /\ NoLive(t)
    BY <2>1, <2>2, AtAllocating DEF ServedInv
  <2>4. PICK h \in Hosts : h = r.host /\ tr[t].assigned = h
    BY <2>1, <2>3 DEF AllocatingOK
  <2>5. prov' = IF prov[<<t, h>>] = "none"
                THEN [prov EXCEPT ![<<t, h>>] = "running"] ELSE prov
    BY <1>2, <2>2, <2>4 DEF LaunchProvision
  <2>6. \A v \in Workers \ {w} : worker'[v] = worker[v]
    BY <2>1, ReturnMove DEF ServedInv, LeaseInv
  <2>7. worker'[w] = Idle
    BY <2>1, ReturnMove DEF ServedInv, LeaseInv
  <2>8. prov \in [Leases -> JobState] /\ <<t, h>> \in Leases
    BY Typed, KeyKinds DEF ServedInv, LeaseInv
  <2>9. \A u \in Tasks \ {t} : SameLease(u)
    <3>1. \A u \in Tasks \ {t}, g \in Hosts : prov'[<<u, g>>] = prov[<<u, g>>]
      BY <2>5, <2>8, KeyKinds
    <3>2. QED
      BY <2>1, <3>1 DEF SameLease
  <2>10. ASSUME Open(tr'[t]) PROVE ServedTask(t)'
    <3>1. ServedTask(t) /\ Open(tr[t]) /\ KnowsFailures(r, t)
      BY <2>1, <2>2, <2>10 DEF ServedInv, ServedTask, ReconcilesKnow
    <3>2. /\ prov'[<<t, h>>] = "running"
          /\ \A g \in Hosts \ {h} : prov'[<<t, g>>] = prov[<<t, g>>]
      BY <2>1, <2>4, <2>5, <2>8, <3>1, KeyKinds DEF KnowsFailures
    <3>3. FailuresKnown(t)'
      BY <2>1, <2>3, <3>1, <3>2 DEF ServedTask, FailuresKnown, NoLive
    <3>4. ProcessedServed(t)'
      BY <2>1, <3>1, <3>2 DEF ServedTask, ProcessedServed
    <3>5. Provided(t)'
      BY <2>1, <2>4, <3>2 DEF Provided, Live
    <3>6. ReconcilesKnow(t)'
      <4>1. ASSUME NEW v \in Workers \ {w}, NEW g \in Hosts,
                   worker'[v].key = <<t, g>>
            PROVE  KnowsOutcome(worker[v], t, g)'
        <5>1. worker'[v] = worker[v] /\ KnowsOutcome(worker[v], t, g)
          BY <2>6, <3>1, <4>1 DEF ServedTask, ReconcilesKnow
        <5>2. worker[v].pc # "unassignFailed"
          BY <2>3, <4>1, <5>1, NoOtherFailure DEF ServedInv
        <5>3. prov'[<<t, g>>] = "succeeded" => prov[<<t, g>>] = "succeeded"
          BY <3>2
        <5>4. QED
          BY <2>1, <5>1, <5>2, <5>3 DEF KnowsOutcome
      <4>2. \A v \in Workers \ {w} : worker'[v].key # UserKey(t)
        BY <2>2, <2>6, Alone DEF ServedInv
      <4>3. /\ worker'[w].key # UserKey(t)
            /\ \A g \in Hosts : worker'[w].key # <<t, g>>
        BY <2>7, IdleNoKey
      <4>4. QED
        BY <4>1, <4>2, <4>3 DEF ReconcilesKnow
    <3>7. QED
      BY <3>3, <3>4, <3>5, <3>6 DEF ServedTask
  <2>11. QED
    BY <2>2, <2>6, <2>7, <2>9, <2>10, ServedStep
<1>3. QED
  BY <1>1, <1>2

\* The host is taken away after its provisioning failed.
LEMMA ServedUnassignFailed ==
    ASSUME ServedInv, LeaseInv', NotCreated', VersionsOK', NEW w \in Workers,
           UnassignFailedHost(w)
    PROVE  ServedInv'
<1> DEFINE r == worker[w]
<1>1. /\ r.pc = "unassignFailed" /\ r.pc # "idle" /\ r.pc # "mark"
      /\ UNCHANGED <<secret, prov, processed>>
  BY DEF UnassignFailedHost, At, jobVars
<1>2. r.key \in Leases /\ Live(r.key) /\ OutcomeOK(r) /\ r.obj \in Copy
  BY <1>1, FailedIsLive, ProvisionReconcile, BusyWorker
  DEF ServedInv, LeaseInv, CopiesConsistent
<1>3. PICK t \in Tasks, h \in Hosts : r.key = <<t, h>> /\ t = TaskOf(w)
  BY <1>2 DEF Leases, TaskOf
<1>4. /\ prov[<<t, h>>] = "failed" /\ r.obj.assigned = None
      /\ Live(<<t, h>>) /\ r.key # UserKey(t)
  BY <1>1, <1>2, <1>3, KeyKinds DEF OutcomeOK
<1>5. CASE ~Exists(tr[t])
  <2>1. Requeue(w) /\ UNCHANGED tr
    BY <1>3, <1>5 DEF UnassignFailedHost, storeVars
  <2>2. \A v \in Workers \ {w} : worker'[v] = worker[v]
    BY <2>1, RequeueMove DEF ServedInv, LeaseInv
  <2>3. worker'[w] = Idle /\ worker'[w].pc # "mark"
    BY <2>1, RequeueMove DEF ServedInv, LeaseInv
  <2>4. worker'[w].key # UserKey(t) /\ \A g \in Hosts : worker'[w].key # <<t, g>>
    BY <2>3, IdleNoKey
  <2>5. QED
    BY <1>1, <1>3, <1>4, <2>1, <2>2, <2>3, <2>4, ServedMove
<1>6. CASE Exists(tr[t])
  <2>1. UpdateTaskRunWithRetry(t, r.obj) /\ Goto(w, "mark")
    BY <1>3, <1>6 DEF UnassignFailedHost
  <2>2. /\ \A u \in Tasks \ {t} : tr'[u] = tr[u]
        /\ tr'[t].assigned = None /\ (Open(tr'[t]) <=> Open(tr[t]))
        /\ Open(tr[t]) => tr'[t].failed = r.obj.failed
    BY <1>2, <1>4, <2>1, UpdateFacts DEF ServedInv, LeaseInv
  <2>3. /\ \A v \in Workers \ {w} : worker'[v] = worker[v]
        /\ worker'[w].pc = "mark" /\ worker'[w].key = r.key
    BY <1>1, <2>1, GotoMove DEF ServedInv, LeaseInv
  <2>4. \A u \in Tasks \ {t} : SameLease(u)
    BY <1>1, <2>2 DEF SameLease
  <2>5. ASSUME Open(tr'[t]) PROVE ServedTask(t)'
    <3>1. ServedTask(t) /\ Open(tr[t]) /\ KnowsOutcome(r, t, h)
      BY <1>3, <2>2, <2>5 DEF ServedInv, ServedTask, ReconcilesKnow
    <3>2. tr[t].failed \subseteq tr'[t].failed /\ h \in tr'[t].failed
      BY <1>1, <2>2, <3>1 DEF KnowsOutcome
    <3>3. \A g \in Hosts : Live(<<t, g>>) => g = h
      BY <1>4 DEF ServedInv, LeaseInv, OneLease
    <3>4. FailuresKnown(t)' /\ ProcessedServed(t)'
      BY <1>1, <3>1, <3>2, <3>3
      DEF ServedTask, FailuresKnown, ProcessedServed
    <3>5. Provided(t)'
      BY <2>2, ConstantsAssumption DEF Provided
    <3>6. ReconcilesKnow(t)'
      <4>1. ASSUME NEW v \in Workers \ {w}
            PROVE  worker'[v].key # UserKey(t)
        <5>1. CASE worker[v].key = UserKey(t)
          <6>1. worker[v].pc \in Allocating => NoLive(t)
            BY <5>1, UserReconcile DEF ServedInv, AllocatingOK
          <6>2. QED
            BY <1>4, <3>1, <5>1, <6>1, UserReconcile DEF ServedInv, NoLive
        <5>2. QED
          BY <2>3, <5>1
      <4>2. ASSUME NEW v \in Workers \ {w}, NEW g \in Hosts,
                   worker'[v].key = <<t, g>>
            PROVE  KnowsOutcome(worker[v], t, g)'
        <5>1. worker'[v] = worker[v] /\ KnowsOutcome(worker[v], t, g)
          BY <2>3, <3>1, <4>2 DEF ServedTask, ReconcilesKnow
        <5>2. worker[v].pc # "unassignFailed"
          <6>1. CASE worker[v].pc = "unassignFailed"
            <7>1. g = h
              BY <3>3, <4>2, <5>1, <6>1, FailedIsLive DEF ServedInv
            <7>2. v = w
              BY <1>1, <1>3, <4>2, <5>1, <7>1
              DEF ServedInv, LeaseInv, KeysApart
            <7>3. QED
              BY <7>2
          <6>2. QED
            BY <6>1
        <5>3. QED
          BY <1>1, <5>1, <5>2 DEF KnowsOutcome
      <4>3. \A g \in Hosts : worker'[w].key = <<t, g>>
                             => KnowsOutcome(worker[w], t, g)'
        BY <1>1, <1>3, <1>4, <2>3 DEF KnowsOutcome
      <4>4. worker'[w].key # UserKey(t)
        BY <1>4, <2>3
      <4>5. QED
        BY <4>1, <4>2, <4>3, <4>4 DEF ReconcilesKnow
    <3>7. QED
      BY <3>4, <3>5, <3>6 DEF ServedTask
  <2>6. QED
    BY <1>3, <2>3, <2>4, <2>5, ServedStep
<1>7. QED
  BY <1>5, <1>6

\* An outcome is marked: what counts stays the same, and a success has left
\* its secret.
LEMMA ServedMark ==
    ASSUME ServedInv, LeaseInv', NotCreated', VersionsOK', NEW w \in Workers,
           MarkProcessed(w)
    PROVE  ServedInv'
<1> DEFINE r == worker[w]
<1>1. /\ r.pc = "mark" /\ r.pc # "idle" /\ UNCHANGED <<tr, secret, prov>>
      /\ processed' = processed \cup {r.key} /\ Return(w)
  BY DEF MarkProcessed, At
<1>2. r.key \in Leases /\ OutcomeOK(r)
  BY <1>1, KeyOf, ProvisionReconcile DEF ServedInv
<1>3. PICK t \in Tasks, h \in Hosts : r.key = <<t, h>>
  BY <1>2 DEF Leases
<1>4. \A v \in Workers \ {w} : worker'[v] = worker[v]
  BY <1>1, ReturnMove DEF ServedInv, LeaseInv
<1>5. worker'[w] = Idle /\ worker'[w].pc # "mark"
  BY <1>1, ReturnMove DEF ServedInv, LeaseInv
<1>6. \A u \in Tasks \ {t} : SameLease(u)
  BY <1>1, <1>3 DEF SameLease
<1>7. ASSUME Open(tr'[t]) PROVE ServedTask(t)'
  <2>1. ServedTask(t)
    BY <1>1, <1>7 DEF ServedInv
  <2>2. KnowsOutcome(r, t, h)
    BY <1>3, <2>1 DEF ServedTask, ReconcilesKnow
  <2>3. ASSUME NEW g \in Hosts PROVE Live(<<t, g>>)' <=> Live(<<t, g>>)
    <3>1. CASE g = h
      <4>1. Marking(<<t, g>>) /\ <<t, g>> \in processed'
        BY <1>1, <1>3, <3>1 DEF Marking
      <4>2. QED
        BY <1>1, <4>1 DEF Live
    <3>2. CASE g # h
      <4>1. r.key # <<t, g>>
        BY <1>3, <3>2
      <4>2. Marking(<<t, g>>)' <=> Marking(<<t, g>>)
        BY <1>4, <1>5, <4>1 DEF Marking
      <4>3. <<t, g>> \in processed' <=> <<t, g>> \in processed
        BY <1>1, <4>1
      <4>4. QED
        BY <1>1, <4>2, <4>3 DEF Live
    <3>3. QED
      BY <3>1, <3>2
  <2>4. FailuresKnown(t)' /\ ProcessedServed(t)'
    BY <1>1, <1>3, <2>1, <2>2, <2>3
    DEF ServedTask, FailuresKnown, ProcessedServed, KnowsOutcome
  <2>5. r.key # UserKey(t) /\ worker'[w].key # UserKey(t)
    BY <1>2, <1>5, KeyKinds, IdleNoKey
  <2>6. Provided(t)'
    BY <1>1, <1>4, <2>1, <2>3, <2>5 DEF ServedTask, Provided
  <2>7. \A g \in Hosts : worker'[w].key # <<t, g>>
    BY <1>5, IdleNoKey
  <2>8. ReconcilesKnow(t)'
    BY <1>1, <1>4, <2>1, <2>5, <2>7
    DEF ServedTask, ReconcilesKnow, KnowsFailures, KnowsOutcome
  <2>9. QED
    BY <2>4, <2>6, <2>8 DEF ServedTask
<1>8. QED
  BY <1>3, <1>4, <1>5, <1>6, <1>7, ServedStep

\* A processed provision TaskRun is deleted: it counted only if it succeeded,
\* and then the TaskRun has its secret.
LEMMA ServedRemove ==
    ASSUME ServedInv, LeaseInv', NotCreated', VersionsOK', NEW w \in Workers,
           NEW t \in Tasks, NEW h \in Hosts, RemoveProvision(w, t, h)
    PROVE  ServedInv'
<1>1. /\ <<t, h>> \in processed /\ UNCHANGED <<tr, secret, worker>>
      /\ prov' = [prov EXCEPT ![<<t, h>>] = "none"]
      /\ processed' = processed \ {<<t, h>>} /\ worker[w].pc = "idle"
  BY DEF RemoveProvision, Available
<1>2. prov \in [Leases -> JobState] /\ worker[w] = Idle
  BY <1>1, Typed DEF ServedInv, LeaseInv
<1>3. \A u \in Tasks \ {t}, g \in Hosts : prov'[<<u, g>>] = prov[<<u, g>>]
  BY <1>1, <1>2, KeyKinds
<1>4. \A u \in Tasks \ {t} : SameLease(u)
  BY <1>1, <1>3 DEF SameLease
<1>5. /\ prov'[<<t, h>>] = "none"
      /\ \A g \in Hosts \ {h} : prov'[<<t, g>>] = prov[<<t, g>>]
  BY <1>1, <1>2, KeyKinds
<1>6. ASSUME Open(tr'[t]) PROVE ServedTask(t)'
  <2>1. ServedTask(t)
    BY <1>1, <1>6 DEF ServedInv
  <2>2. \A g \in Hosts \ {h} : Live(<<t, g>>)' <=> Live(<<t, g>>)
    <3> SUFFICES ASSUME NEW g \in Hosts \ {h}
                 PROVE  Live(<<t, g>>)' <=> Live(<<t, g>>)
      OBVIOUS
    <3>1. <<t, g>> \in processed' <=> <<t, g>> \in processed
      BY <1>1
    <3>2. QED
      BY <1>1, <1>5, <3>1 DEF Live, Marking
  <2>3. Live(<<t, h>>) => secret[t] # "none"
    <3>1. prov[<<t, h>>] \in Finished
      BY <1>1 DEF ServedInv, LeaseInv
    <3>2. QED
      BY <1>1, <2>1, <3>1 DEF Live, Finished, ServedTask, ProcessedServed
  <2>4. FailuresKnown(t)' /\ ProcessedServed(t)'
    BY <1>1, <1>5, <2>1, <2>2
    DEF ServedTask, FailuresKnown, ProcessedServed
  <2>5. Provided(t)'
    BY <1>1, <2>1, <2>2, <2>3 DEF ServedTask, Provided
  <2>6. ReconcilesKnow(t)'
    <3>1. ASSUME NEW v \in Workers, worker[v].key = UserKey(t)
          PROVE  KnowsFailures(worker[v], t)'
      <4>1. KnowsFailures(worker[v], t)
        BY <2>1, <3>1 DEF ServedTask, ReconcilesKnow
      <4>2. worker[v].pc \in {"assign", "launch"} => worker[v].host \in Hosts
        BY <3>1, UserReconcile
        DEF ServedInv, AllocatingOK, Allocating, Writing, Choosing
      <4>3. QED
        BY <1>1, <1>5, <4>1, <4>2 DEF KnowsFailures
    <3>2. ASSUME NEW v \in Workers, NEW g \in Hosts, worker[v].key = <<t, g>>
          PROVE  KnowsOutcome(worker[v], t, g)'
      <4>1. KnowsOutcome(worker[v], t, g)
        BY <2>1, <3>2 DEF ServedTask, ReconcilesKnow
      <4>2. QED
        BY <1>1, <1>5, <4>1 DEF KnowsOutcome
    <3>3. QED
      BY <1>1, <3>1, <3>2 DEF ReconcilesKnow
  <2>7. QED
    BY <2>4, <2>5, <2>6 DEF ServedTask
<1>7. QED
  BY <1>1, <1>2, <1>4, <1>6, ServedStep

\* A reconcile that releases is about a TaskRun that is done.
LEMMA ServedReleasing ==
    ASSUME ServedInv, LeaseInv', NotCreated', VersionsOK', NEW w \in Workers,
           \/ Deallocate(w) \/ DeallocateFails(w) \/ ReleaseHost(w)
           \/ DeleteSecret(w) \/ SecretDeleteFails(w)
    PROVE  ServedInv'
<1> DEFINE r == worker[w]
<1>1. /\ r.pc \in {"deallocate", "release", "deleteSecret"}
      /\ r.pc # "idle" /\ UNCHANGED <<prov, processed>>
  BY DEF Deallocate, DeallocateFails, ReleaseHost, DeleteSecret,
         SecretDeleteFails, At, jobVars
<1>2. PICK t \in Tasks : t = TaskOf(w) /\ r.key = UserKey(t)
  BY <1>1, KeyOf DEF Releasing, ServedInv
<1>3. ~Open(tr[t]) /\ r.obj \in Copy
  BY <1>1, <1>2, UserReconcile, BusyWorker
  DEF Releasing, ServedInv, LeaseInv, CopiesConsistent
<1>4. /\ \A u \in Tasks \ {t} : tr'[u] = tr[u]
      /\ Open(tr'[t]) <=> Open(tr[t])
  BY <1>2, <1>3, UpdateFacts
  DEF Deallocate, DeallocateFails, ReleaseHost, DeleteSecret,
      SecretDeleteFails, storeVars, ServedInv, LeaseInv
<1>5. \A u \in Tasks \ {t} : secret'[u] = secret[u]
  BY <1>2 DEF Deallocate, DeallocateFails, ReleaseHost, DeleteSecret,
      SecretDeleteFails, ServedInv, LeaseInv, CopiesConsistent, RestOK
<1>6. \A u \in Tasks \ {t} : SameLease(u)
  BY <1>1, <1>4, <1>5 DEF SameLease
<1>7. \/ Requeue(w)
      \/ Goto(w, "deleteSecret") \/ Goto(w, "wake")
      \/ Keep(w, "release", Released(r.obj))
  BY DEF Deallocate, DeallocateFails, ReleaseHost, DeleteSecret,
         SecretDeleteFails
<1>8. /\ \A v \in Workers \ {w} : worker'[v] = worker[v]
      /\ worker'[w] = Idle \/ worker'[w].key = r.key
  BY <1>1, <1>7, RequeueMove, GotoMove, KeepMove DEF ServedInv, LeaseInv
<1>9. QED
  BY <1>2, <1>3, <1>4, <1>6, <1>8, ServedStep

\* The oldest waiting TaskRun is woken, if its copy is fresh.
LEMMA ServedWake ==
    ASSUME ServedInv, LeaseInv', NotCreated', VersionsOK', NEW w \in Workers,
           WakeOldest(w) \/ WakeFails(w)
    PROVE  ServedInv'
<1> DEFINE r == worker[w]
           W == {w}
<1>1. /\ r.pc = "wake" /\ r.pc # "idle" /\ r.pc # "mark"
      /\ UNCHANGED <<secret, prov, processed>> /\ Return(w)
  BY DEF WakeOldest, WakeFails, At, jobVars
<1>2. PICK t \in Tasks : t = TaskOf(w) /\ r.key = UserKey(t)
  BY <1>1, KeyOf DEF Releasing, ServedInv
<1>3. ~Open(tr[t])
  BY <1>1, <1>2, UserReconcile DEF Releasing, ServedInv
<1>4. \A v \in Workers \ W : worker'[v] = worker[v]
  BY <1>1, ReturnMove DEF ServedInv, LeaseInv
<1>5. worker'[w] = Idle /\ worker'[w].pc # "mark"
  BY <1>1, ReturnMove DEF ServedInv, LeaseInv
<1>6. \A x \in Tasks :
         /\ \A h \in Hosts : r.key # <<x, h>> /\ worker'[w].key # <<x, h>>
         /\ worker'[w].key # UserKey(x)
         /\ r.key = UserKey(x) => ~Open(tr[x])
  BY <1>2, <1>3, <1>5, IdleNoKey, ConstantsAssumption DEF UserKey
<1>7. PICK u \in Tasks :
         UNCHANGED tr \/ Put(u, [tr[u] EXCEPT !.woken = TRUE])
  BY <1>2 DEF WakeOldest, WakeFails, storeVars
<1>8. /\ \A x \in Tasks \ {u} : tr'[x] = tr[x]
      /\ Open(tr'[u]) => /\ Open(tr[u]) /\ tr'[u].assigned = tr[u].assigned
                         /\ tr'[u].failed = tr[u].failed
  <2>1. CASE UNCHANGED tr
    BY <2>1
  <2>2. CASE Put(u, [tr[u] EXCEPT !.woken = TRUE])
    <3> DEFINE o == [tr[u] EXCEPT !.woken = TRUE]
    <3>1. /\ o \in Copy /\ o.assigned = tr[u].assigned
          /\ o.failed = tr[u].failed /\ (Open(o) <=> Open(tr[u]))
      BY Typed, UpdatedCopies DEF ServedInv, LeaseInv, TaskRun, Open
    <3> HIDE DEF o
    <3>2. /\ \A x \in Tasks \ {u} : tr'[x] = tr[x]
          /\ tr'[u] = Settled(o)
          /\ tr'[u].assigned = o.assigned /\ (Open(tr'[u]) <=> Open(o))
      BY <2>2, <3>1, PutFacts DEF ServedInv, LeaseInv, o
    <3>3. Open(o) => tr'[u] = o
      BY <3>2 DEF Settled, Open
    <3>4. QED
      BY <3>1, <3>2, <3>3
  <2>3. QED
    BY <1>7, <2>1, <2>2
<1>9. W \in SUBSET Workers
  OBVIOUS
<1>10. \A v \in W :
          /\ worker[v].pc # "mark" /\ worker'[v].pc # "mark"
          /\ \A x \in Tasks :
                /\ \A h \in Hosts : /\ worker[v].key # <<x, h>>
                                    /\ worker'[v].key # <<x, h>>
                /\ worker'[v].key # UserKey(x)
                /\ worker[v].key = UserKey(x) => ~Open(tr[x])
  BY <1>1, <1>5, <1>6
<1> HIDE DEF W
<1>11. \A v \in W :
          /\ worker[v].pc # "mark" /\ worker'[v].pc # "mark"
          /\ \A x \in Tasks \ {u} :
                /\ \A h \in Hosts : /\ worker[v].key # <<x, h>>
                                    /\ worker'[v].key # <<x, h>>
                /\ worker'[v].key # UserKey(x)
                /\ worker[v].key = UserKey(x) => ~Open(tr[x])
          /\ worker[v].key = UserKey(u) /\ worker'[v].key # UserKey(u)
             => ~Open(tr[u]) \/ tr[u].assigned = None
          /\ worker'[v].key = UserKey(u) /\ Open(tr'[u])
             => KnowsFailures(worker[v], u)'
          /\ \A h \in Hosts : worker'[v].key = <<u, h>> /\ Open(tr'[u])
                              => KnowsOutcome(worker[v], u, h)'
  BY <1>10
<1>12. UNCHANGED <<secret, prov, processed>>
  BY <1>1
<1>13. QED
  BY <1>4, <1>8, <1>9, <1>11, <1>12, QuietServed

\* A reconcile of a user TaskRun starts: what failed is on FailedHosts.
LEMMA ServedStart ==
    ASSUME ServedInv, LeaseInv', NotCreated', VersionsOK', NEW w \in Workers,
           NEW t \in Tasks, ReconcileUser(w, t)
    PROVE  ServedInv'
<1> DEFINE o == tr[t]
<1>1. /\ worker[w].pc = "idle" /\ UNCHANGED <<tr, secret, prov, processed>>
  BY DEF ReconcileUser, Available, jobVars
<1>2. /\ worker[w] = Idle /\ worker[w].pc # "mark" /\ o \in Copy
      /\ prov \in [Leases -> JobState]
      /\ worker[w].key # UserKey(t)
  BY <1>1, Typed, IdleNoKey DEF ServedInv, LeaseInv
<1>3. CASE UNCHANGED worker
  BY <1>1, <1>3, ServedSkip
<1>4. ASSUME NEW pc, NEW m, NEW h, Begin(w, pc, UserKey(t), o, m, h),
             pc # "mark",
             \/ ~Open(o)
             \/ /\ \A g \in Hosts : prov[<<t, g>>] = "failed" => g \in m.failed
                /\ pc \in {"assign", "launch"} => prov[<<t, h>>] = "none"
                /\ o.assigned = None
      PROVE  ServedInv'
  <2>1. /\ \A v \in Workers \ {w} : worker'[v] = worker[v]
        /\ worker'[w].pc = pc /\ worker'[w].key = UserKey(t)
        /\ worker'[w].obj = m /\ worker'[w].host = h
    BY <1>4, BeginMove DEF ServedInv, LeaseInv
  <2>2. Open(tr'[t]) => KnowsFailures(worker[w], t)'
    BY <1>1, <1>4, <2>1 DEF KnowsFailures
  <2>3. \A g \in Hosts : worker'[w].key # <<t, g>>
    BY <2>1, ConstantsAssumption DEF UserKey
  <2>4. QED
    BY <1>1, <1>2, <1>4, <2>1, <2>2, <2>3, ServedMove
<1>5. CASE /\ Done(o)
           /\ Begin(w, "deallocate", UserKey(t), o, o, o.assigned)
  <2>1. ~Open(o)
    BY <1>5 DEF Done, Open
  <2>2. QED
    BY <1>4, <1>5, <2>1
<1>6. ASSUME ~Ignored(o), ~Done(o)
      PROVE  /\ o.assigned = None /\ NoLive(t)
             /\ \A g \in Hosts : prov[<<t, g>>] = "failed" => g \in o.failed
  <2>1. o.assigned = None /\ Open(o) /\ NoLive(t)
    BY <1>6, ToAllocate DEF ServedInv, Runs, Open
  <2>2. FailuresKnown(t)
    BY <2>1 DEF ServedInv, ServedTask
  <2>3. QED
    BY <2>1, <2>2 DEF FailuresKnown, NoLive
<1>7. CASE /\ ~Ignored(o) /\ ~Done(o)
           /\ Begin(w, FailPC(o), UserKey(t), o, o, None)
  <2>1. FailPC(o) \notin {"mark", "assign", "launch"}
    BY DEF FailPC
  <2>2. QED
    BY <1>4, <1>6, <1>7, <2>1
<1>8. CASE ~Ignored(o) /\ ~Done(o) /\ Allocates(w, t, o)
  <2>1. CASE Begin(w, "wait", UserKey(t), o, [o EXCEPT !.waiting = TRUE], None)
    <3> DEFINE m == [o EXCEPT !.waiting = TRUE]
    <3>1. m.failed = o.failed
      BY <1>2 DEF Copy, TaskRun
    <3> HIDE DEF m
    <3>2. \A g \in Hosts : prov[<<t, g>>] = "failed" => g \in m.failed
      BY <1>6, <1>8, <3>1
    <3>3. QED
      BY <1>4, <1>6, <1>8, <2>1, <3>2 DEF m
  <2>2. ASSUME NEW h \in MostFree(Hosts \ o.failed),
               Begin(w, "assign", UserKey(t), o,
                     [o EXCEPT !.assigned = h, !.waiting = FALSE,
                               !.finalizer = TRUE], h)
        PROVE  ServedInv'
    <3> DEFINE m == [o EXCEPT !.assigned = h, !.waiting = FALSE,
                              !.finalizer = TRUE]
    <3>1. m.failed = o.failed
      BY <1>2 DEF Copy, TaskRun
    <3>2. h \in Hosts \ o.failed
      BY DEF MostFree
    <3>3. prov[<<t, h>>] = "none"
      BY <1>2, <1>6, <1>8, <3>2, KeyKinds DEF NoLive, Live, JobState
    <3> HIDE DEF m
    <3>4. \A g \in Hosts : prov[<<t, g>>] = "failed" => g \in m.failed
      BY <1>6, <1>8, <3>1
    <3>5. QED
      BY <1>4, <1>6, <1>8, <2>2, <3>3, <3>4 DEF m
  <2>3. QED
    BY <1>3, <1>7, <1>8, <2>1, <2>2 DEF Allocates
<1>9. QED
  BY <1>3, <1>5, <1>7, <1>8 DEF ReconcileUser

\* What the cache shows of an open TaskRun when the outcome of its provision
\* TaskRun is handled: the host, and all failures that were stored.
LEMMA CacheKnows ==
    ASSUME ServedInv, NEW t \in Tasks, NEW h \in Hosts, Open(tr[t]),
           Live(<<t, h>>), Delivered(t, h)
    PROVE  /\ Exists(cache[t]) /\ cache[t].failed = tr[t].failed
           /\ cache[t].assigned = h
<1>1. tr[t].assigned = h /\ h # None
  BY LiveExists, ConstantsAssumption
<1>2. Newest(t) /\ SameFailed(t) /\ NoHostIfAbsent(cache[t])
  BY DEF ServedInv, VersionsOK
<1>3. SameHost(t, 1) /\ cache[t].assigned = h
  <2>1. CASE cache[t] = tr[t] /\ Fresh(t)
    BY <1>1, <2>1 DEF SameHost, Fresh
  <2>2. ASSUME NEW i \in 1..Len(watch), watch[i].task = t,
               watch[i].obj = tr[t],
               \A j \in (i + 1)..Len(watch) : watch[j].task # t
        PROVE  SameHost(t, 1) /\ cache[t].assigned = h
    <3>1. /\ cache[t].assigned = h
          /\ \A j \in 1..(i - 1) :
                watch[j].task = t => watch[j].obj.assigned = h
      BY <1>1, <2>2 DEF Delivered
    <3>2. Len(watch) \in Nat
      BY DEF ServedInv, LeaseInv, CopiesConsistent, StoreOK
    <3>3. \A j \in 1..Len(watch) :
             j \in 1..(i - 1) \/ j = i \/ j \in (i + 1)..Len(watch)
      BY <3>2
    <3>4. QED
      BY <1>1, <2>2, <3>1, <3>3 DEF SameHost
  <2>3. QED
    BY <1>2, <2>1, <2>2 DEF Newest
<1>4. QED
  BY <1>1, <1>2, <1>3 DEF SameFailed, NoHostIfAbsent

\* A reconcile of a finished provision TaskRun starts.
LEMMA ServedProvisionStart ==
    ASSUME ServedInv, LeaseInv', NotCreated', VersionsOK', NEW w \in Workers,
           NEW t \in Tasks, NEW h \in Hosts, ReconcileProvision(w, t, h)
    PROVE  ServedInv'
<1> DEFINE l == <<t, h>>
           mine == cache[t]
<1>1. /\ worker[w].pc = "idle" /\ UNCHANGED <<tr, secret, prov, processed>>
      /\ prov[l] \in Finished /\ l \notin processed /\ Delivered(t, h)
      /\ \A v \in Workers : worker[v].key # l
  BY DEF ReconcileProvision, Available, jobVars
<1>2. /\ worker[w] = Idle /\ worker[w].pc # "mark" /\ mine \in TaskRun
      /\ worker[w].key # UserKey(t)
  BY <1>1, Typed, IdleNoKey, CopyIsTaskRun
  DEF ServedInv, LeaseInv, CopiesConsistent, StoreOK
<1>3. Live(l)
  BY <1>1 DEF Live, Marking, Finished
<1>4. Open(tr[t]) => Exists(mine) /\ mine.failed = tr[t].failed
  BY <1>1, <1>3, CacheKnows
<1>5. /\ \A v \in Workers \ {w} : worker'[v] = worker[v]
      /\ worker'[w].key = l
      /\ \/ /\ worker'[w].pc = "unassignFailed"
            /\ worker'[w].obj
                  = [mine EXCEPT !.failed = @ \cup {h}, !.assigned = None]
         \/ worker'[w].pc = FailPC(mine)
         \/ /\ worker'[w].pc = "mark"
            /\ Exists(mine) => prov[l] = "succeeded" /\ secret[t] # "none"
  BY BeginMove DEF ReconcileProvision, ServedInv, LeaseInv
<1>6. worker'[w].key # UserKey(t) /\ \A g \in Hosts \ {h} : worker'[w].key # <<t, g>>
  BY <1>5, KeyKinds
<1>7. Open(tr'[t]) => KnowsOutcome(worker[w], t, h)'
  <2> SUFFICES ASSUME Open(tr[t]) PROVE KnowsOutcome(worker[w], t, h)'
    BY <1>1
  <2>1. worker'[w].pc = "unassignFailed" =>
           tr[t].failed \subseteq worker'[w].obj.failed
           /\ h \in worker'[w].obj.failed
    <3> SUFFICES ASSUME worker'[w].pc = "unassignFailed"
                 PROVE  /\ tr[t].failed \subseteq worker'[w].obj.failed
                        /\ h \in worker'[w].obj.failed
      OBVIOUS
    <3>1. worker'[w].obj
             = [mine EXCEPT !.failed = @ \cup {h}, !.assigned = None]
      BY <1>5 DEF FailPC
    <3>2. worker'[w].obj.failed = mine.failed \cup {h}
      BY <1>2, <3>1 DEF TaskRun
    <3>3. QED
      BY <1>4, <3>2
  <2>2. worker'[w].pc = "mark" => secret[t] # "none"
    BY <1>4, <1>5 DEF FailPC
  <2>3. QED
    BY <1>1, <2>1, <2>2 DEF KnowsOutcome
<1>8. CASE worker'[w].pc # "mark"
  BY <1>1, <1>2, <1>5, <1>6, <1>7, <1>8, ServedMove
<1>9. CASE worker'[w].pc = "mark"
  <2>1. \A u \in Tasks \ {t} : SameLease(u)
    BY <1>1 DEF SameLease
  <2>2. ASSUME Open(tr'[t]) PROVE ServedTask(t)'
    <3>1. ServedTask(t) /\ Open(tr[t])
      BY <1>1, <2>2 DEF ServedInv
    <3>2. prov[l] = "succeeded"
      BY <1>4, <1>5, <1>9, <3>1 DEF FailPC
    <3>3. ASSUME NEW g \in Hosts, Live(<<t, g>>) PROVE Live(<<t, g>>)'
      <4>1. CASE g = h
        BY <1>1, <3>2, <4>1 DEF Live
      <4>2. CASE g # h
        <5>1. worker'[w].key # <<t, g>>
          BY <1>6, <4>2
        <5>2. QED
          BY <1>1, <1>5, <3>3, <5>1 DEF Live, Marking
      <4>3. QED
        BY <4>1, <4>2
    <3>4. FailuresKnown(t)' /\ ProcessedServed(t)'
      BY <1>1, <3>1, <3>3 DEF ServedTask, FailuresKnown, ProcessedServed
    <3>5. Provided(t)'
      BY <1>1, <1>2, <1>5, <3>1, <3>3 DEF ServedTask, Provided
    <3>6. ReconcilesKnow(t)'
      <4>1. ASSUME NEW v \in Workers \ {w}
            PROVE  /\ worker'[v].key = UserKey(t)
                      => KnowsFailures(worker[v], t)'
                   /\ \A g \in Hosts : worker'[v].key = <<t, g>>
                                       => KnowsOutcome(worker[v], t, g)'
        BY <1>1, <1>5, <3>1
        DEF ServedTask, ReconcilesKnow, KnowsFailures, KnowsOutcome
      <4>2. QED
        BY <1>6, <1>7, <2>2, <4>1 DEF ReconcilesKnow
    <3>7. QED
      BY <3>4, <3>5, <3>6 DEF ServedTask
  <2>3. QED
    BY <1>2, <1>5, <2>1, <2>2, ServedStep
<1>10. QED
  BY <1>8, <1>9

\* A call fails and the reconcile ends: its TaskRun has no host, or is done.
LEMMA ServedErrorEnds ==
    ASSUME OutcomeOnce, ServedInv, LeaseInv', NotCreated', VersionsOK',
           NEW w \in Workers, ErrorRequeues(w)
    PROVE  ServedInv'
<1> DEFINE r == worker[w]
<1>1. /\ r.pc \in {"assign", "wait", "fail", "errorSecret", "release",
                   "deleteSecret", "unassignFailed"}
      /\ r.pc # "idle" /\ r.pc # "mark"
      /\ UNCHANGED <<tr, secret, prov, processed>> /\ NotServed(w)
  BY DEF ErrorRequeues, Fault, OutcomeOnce, jobVars
<1>2. PICK t \in Tasks : t = TaskOf(w)
  BY <1>1, KeyOf DEF ServedInv
<1>3. \/ r.key = UserKey(t) \/ \E h \in Hosts : r.key = <<t, h>>
  BY <1>1, <1>2, KeyOf DEF ServedInv, Leases, TaskOf
<1>4. \A v \in Workers \ {w} : worker'[v] = worker[v]
  BY <1>1, RequeueMove DEF ServedInv, LeaseInv
<1>5. worker'[w] = Idle /\ worker'[w].pc # "mark"
  BY <1>1, RequeueMove DEF ServedInv, LeaseInv
<1>6. worker'[w].key # UserKey(t) /\ \A h \in Hosts : worker'[w].key # <<t, h>>
  BY <1>5, IdleNoKey
<1>7. ASSUME r.key = UserKey(t)
      PROVE  ~Open(tr[t]) \/ tr[t].assigned = None
  <2>1. /\ r.pc \in Releasing => ~Open(tr[t])
        /\ r.pc \in Allocating => AllocatingOK(r, t)
        /\ r.pc \in Allocating \cup Releasing
    BY <1>7, UserReconcile DEF ServedInv
  <2>2. CASE r.pc \in {"assign", "wait"}
    <3>1. AllocatingOK(r, t)
      BY <2>1, <2>2 DEF Allocating, Writing, Choosing
    <3>2. QED
      BY <2>2, <3>1 DEF AllocatingOK
  <2>3. CASE r.pc \in {"fail", "errorSecret"}
    <3>1. r.pc \in Allocating \ Choosing
      BY <2>3 DEF Allocating, Writing, Choosing
    <3>2. QED
      BY <1>7, <3>1 DEF ServedInv, ServedTask, ReconcilesKnow, KnowsFailures
  <2>4. CASE r.pc \in {"release", "deleteSecret"}
    BY <2>1, <2>4 DEF Releasing
  <2>5. QED
    BY <1>1, <2>1, <2>2, <2>3, <2>4
    DEF Releasing, Allocating, Writing, Choosing
<1>8. QED
  BY <1>1, <1>3, <1>4, <1>5, <1>6, <1>7, ServedMove

\* A call of Allocate fails and the reconcile goes on.
LEMMA ServedErrorGoesOn ==
    ASSUME NoHostKept, ServedInv, LeaseInv', NotCreated', VersionsOK',
           NEW w \in Workers,
           ErrorFailsAllocation(w) \/ LaunchFails(w) \/ ErrorSecretAgain(w)
    PROVE  ServedInv'
<1> DEFINE r == worker[w]
<1>1. \/ r.pc \in {"assign", "wait"} /\ Keep(w, FailPC(r.obj), r.obj)
      \/ r.pc = "launch" /\ Keep(w, "unassign", Released(r.obj))
      \/ r.pc \in {"configFail", "configSecret"} /\ Goto(w, "errorSecret")
  BY DEF ErrorFailsAllocation, LaunchFails, ErrorSecretAgain, At, Fault,
         NoHostKept
<1>2. UNCHANGED <<tr, secret, prov, processed>>
  BY DEF ErrorFailsAllocation, LaunchFails, ErrorSecretAgain, jobVars
<1>3. /\ r.pc \in Choosing \cup {"configFail", "configSecret"}
      /\ r.pc \in Allocating /\ r.pc # "idle" /\ r.pc # "mark"
      /\ r.pc \in {"configFail", "configSecret"}
         => r.pc \in Allocating \ Choosing
      /\ r.pc \in {"assign", "wait", "launch"} => r.pc \in Writing
  BY <1>1 DEF Allocating, Writing, Choosing
<1>4. PICK t \in Tasks : t = TaskOf(w) /\ r.key = UserKey(t)
  BY <1>3, KeyOf DEF ServedInv
<1>5. r.obj \in Copy /\ AllocatingOK(r, t)
  BY <1>3, <1>4, AtAllocating DEF ServedInv
<1>6. Open(tr[t]) => KnowsFailures(r, t)
  BY <1>4 DEF ServedInv, ServedTask, ReconcilesKnow
<1>7. Released(r.obj).failed = r.obj.failed
  BY <1>5 DEF Released, Copy, TaskRun
<1>8. /\ \A v \in Workers \ {w} : worker'[v] = worker[v]
      /\ worker'[w].key = r.key
      /\ \/ /\ worker'[w].pc \in {"fail", "errorSecret"}
            /\ worker'[w].obj = r.obj /\ r.pc \in {"assign", "wait"}
         \/ /\ worker'[w].pc = "unassign"
            /\ worker'[w].obj = Released(r.obj) /\ r.pc = "launch"
         \/ /\ worker'[w].pc = "errorSecret"
            /\ r.pc \in {"configFail", "configSecret"}
  BY <1>1, <1>3, GotoMove, KeepMove DEF ServedInv, LeaseInv, FailPC
<1>9. worker'[w].pc # "mark" /\ \A h \in Hosts : worker'[w].key # <<t, h>>
  BY <1>4, <1>8, ConstantsAssumption DEF UserKey
<1>10. ASSUME Open(tr'[t]) PROVE KnowsFailures(worker[w], t)'
  <2>1. KnowsFailures(r, t)
    BY <1>2, <1>6, <1>10
  <2>2. worker'[w].pc # "unassign" => tr'[t].assigned = None
    BY <1>2, <1>3, <1>5, <1>8, <2>1 DEF AllocatingOK, KnowsFailures
  <2>3. worker'[w].pc \in Writing => worker'[w].obj.failed = r.obj.failed
                                      /\ r.pc \in Writing
    BY <1>3, <1>7, <1>8 DEF Writing, Choosing
  <2>4. worker'[w].pc \notin {"assign", "launch"} /\ "unassign" \in Choosing
    BY <1>8 DEF Choosing
  <2>5. QED
    BY <1>2, <2>1, <2>2, <2>3, <2>4 DEF KnowsFailures
<1>11. QED
  BY <1>2, <1>3, <1>4, <1>8, <1>9, <1>10, ServedMove

\* A user's or Tekton's step on a user TaskRun.
LEMMA ServedUser ==
    ASSUME ServedInv, LeaseInv', NotCreated', VersionsOK', NEW t \in Tasks,
           User(t)
    PROVE  ServedInv'
<1> DEFINE W == {}
<1>1. UNCHANGED <<secret, prov, processed, worker>>
  BY DEF User, CreateTask, TaskCompletes, TaskCancelled, Completes,
         DeleteTask, jobVars
<1>2. PICK o \in Copy :
         /\ Put(t, o)
         /\ Open(o) => /\ Open(tr[t]) /\ o.assigned = tr[t].assigned
                       /\ o.failed = tr[t].failed
  <2>1. tr[t] \in Copy /\ tr[t] \in TaskRun
    BY Typed DEF ServedInv, LeaseInv
  <2>2. CASE CreateTask(t)
    <3>1. PICK valid \in BOOLEAN : Put(t, Created(valid))
      BY <2>2 DEF CreateTask
    <3>2. /\ Created(valid) \in Copy /\ Created(valid).assigned = None
          /\ Created(valid).failed = {}
      BY <3>1, ConstantCopies DEF Created, Absent
    <3>3. tr[t].assigned = None /\ tr[t].failed = {} /\ Open(tr[t])
      BY <2>2 DEF CreateTask, ServedInv, NotCreated, Open
    <3>4. QED
      BY <3>1, <3>2, <3>3
  <2>3. CASE TaskCompletes(t) \/ TaskCancelled(t)
    <3> DEFINE o == [tr[t] EXCEPT !.phase = "completed"]
    <3>1. Put(t, o)
      BY <2>3 DEF TaskCompletes, TaskCancelled, Completes
    <3>2. o \in Copy /\ ~Open(o)
      BY <2>1, UpdatedCopies DEF TaskRun, Open
    <3>3. QED
      BY <3>1, <3>2
  <2>4. CASE DeleteTask(t)
    <3> DEFINE o == [tr[t] EXCEPT !.deleting = TRUE]
    <3>1. Put(t, o)
      BY <2>4 DEF DeleteTask
    <3>2. o \in Copy /\ ~Open(o)
      BY <2>1, UpdatedCopies DEF TaskRun, Open
    <3>3. QED
      BY <3>1, <3>2
  <2>5. QED
    BY <2>2, <2>3, <2>4 DEF User
<1>3. /\ \A u \in Tasks \ {t} : tr'[u] = tr[u]
      /\ tr'[t] = Settled(o) /\ (Open(tr'[t]) <=> Open(o))
  BY <1>2, PutFacts DEF ServedInv, LeaseInv
<1>4. Open(o) => tr'[t] = o
  BY <1>3 DEF Settled, Open
<1>5. /\ W \in SUBSET Workers /\ \A v \in W : FALSE
      /\ \A v \in Workers \ W : worker'[v] = worker[v]
  BY <1>1
<1> HIDE DEF W
<1>6. QED
  BY <1>1, <1>2, <1>3, <1>4, <1>5, QuietServed

\* A provision TaskRun finishes: nobody has dealt with its outcome yet.
LEMMA ServedProvisioned ==
    ASSUME ServedInv, LeaseInv', NotCreated', VersionsOK', NEW t \in Tasks,
           NEW h \in Hosts, ProvisionSucceeds(t, h) \/ ProvisionFails(t, h)
    PROVE  ServedInv'
<1> DEFINE l == <<t, h>>
           W == {}
<1>1. /\ prov[l] = "running" /\ UNCHANGED <<tr, processed, worker>>
      /\ secret' = secret \/ secret' = [secret EXCEPT ![t] = "ssh"]
  BY DEF ProvisionSucceeds, ProvisionFails
<1>2. PICK s \in Finished : prov' = [prov EXCEPT ![l] = s]
  BY DEF ProvisionSucceeds, ProvisionFails, Finished
<1>3. /\ l \in Leases /\ prov \in [Leases -> JobState]
      /\ secret \in [Tasks -> {"none", "ssh", "error"}]
  BY KeyKinds, Typed DEF ServedInv, LeaseInv, CopiesConsistent, RestOK
<1>4. /\ prov'[l] = s
      /\ \A u \in Tasks \ {t}, g \in Hosts : prov'[<<u, g>>] = prov[<<u, g>>]
      /\ \A g \in Hosts \ {h} : prov'[<<t, g>>] = prov[<<t, g>>]
  BY <1>2, <1>3, KeyKinds
<1>5. /\ \A u \in Tasks \ {t} : secret'[u] = secret[u]
      /\ secret[t] # "none" => secret'[t] # "none"
  BY <1>1, <1>3
<1>6. \A v \in Workers : worker[v].key # l
  BY <1>1, <1>3, ProvisionReconcile DEF ServedInv, OutcomeOK, Finished
<1>7. l \notin processed
  BY <1>1 DEF ServedInv, LeaseInv, Finished
<1>8. Live(l) /\ Live(l)'
  BY <1>1, <1>4, <1>6, <1>7 DEF Live, Marking, Finished
<1>9. \A u \in Tasks \ {t} : SameLease(u)
  BY <1>1, <1>4, <1>5 DEF SameLease
<1>10. ASSUME Open(tr'[t]) PROVE ServedTask(t)'
  <2>1. ServedTask(t) /\ Open(tr[t])
    BY <1>1, <1>10 DEF ServedInv
  <2>2. \A g \in Hosts : Live(<<t, g>>) => Live(<<t, g>>)'
    BY <1>1, <1>4, <1>8 DEF Live, Marking
  <2>3. FailuresKnown(t)'
    BY <1>1, <1>4, <1>8, <2>1, <2>2 DEF ServedTask, FailuresKnown
  <2>4. ProcessedServed(t)'
    BY <1>1, <1>4, <1>5, <1>7, <2>1 DEF ServedTask, ProcessedServed
  <2>5. Provided(t)'
    BY <1>1, <1>5, <2>1, <2>2 DEF ServedTask, Provided
  <2>6. ReconcilesKnow(t)'
    <3>1. ASSUME NEW v \in Workers PROVE worker[v].key # UserKey(t)
      <4>1. CASE worker[v].key = UserKey(t)
        <5>1. worker[v].pc \in Allocating => NoLive(t)
          BY <4>1, UserReconcile DEF ServedInv, AllocatingOK
        <5>2. QED
          BY <1>8, <2>1, <4>1, <5>1, UserReconcile DEF ServedInv, NoLive
      <4>2. QED
        BY <4>1
    <3>2. ASSUME NEW v \in Workers, NEW g \in Hosts, worker[v].key = <<t, g>>
          PROVE  KnowsOutcome(worker[v], t, g)'
      <4>1. KnowsOutcome(worker[v], t, g)
        BY <2>1, <3>2 DEF ServedTask, ReconcilesKnow
      <4>2. prov'[<<t, g>>] = prov[<<t, g>>]
        BY <1>4, <1>6, <3>2
      <4>3. QED
        BY <1>1, <1>5, <4>1, <4>2 DEF KnowsOutcome
    <3>3. QED
      BY <1>1, <3>1, <3>2 DEF ReconcilesKnow
  <2>7. QED
    BY <2>3, <2>4, <2>5, <2>6 DEF ServedTask
<1>11. /\ W \in SUBSET Workers /\ \A v \in W : FALSE
       /\ \A v \in Workers \ W : worker'[v] = worker[v]
  BY <1>1
<1> HIDE DEF W
<1>12. QED
  BY <1>9, <1>10, <1>11, ServedFrame

(***************************************************************************)
(* AssignedHasProvision: the theorem.                                      *)
(***************************************************************************)

LEMMA InitServed == Init => ServedInv
<1> SUFFICES ASSUME Init PROVE ServedInv
  OBVIOUS
<1>1. LeaseInv /\ NotCreated
  BY InitLease
<1>2. /\ \A t \in Tasks : tr[t] = Absent /\ cache[t] = Absent
      /\ watch = <<>> /\ processed = {}
      /\ \A w \in Workers : worker[w] = Idle
      /\ \A t \in Tasks, h \in Hosts : prov[<<t, h>>] = "none"
  BY KeyKinds DEF Init
<1>3. VersionsOK
  BY <1>2 DEF VersionsOK, Newest, Fresh, SameFailed, NoHostIfAbsent, Absent
<1>4. ASSUME NEW t \in Tasks PROVE ServedTask(t)
  <2>1. \A w \in Workers : /\ worker[w].key # UserKey(t)
                           /\ \A h \in Hosts : worker[w].key # <<t, h>>
    BY <1>2, IdleNoKey
  <2>2. QED
    BY <1>2, <2>1, ConstantsAssumption
    DEF ServedTask, FailuresKnown, ProcessedServed, Provided, ReconcilesKnow,
        Absent
<1>5. QED
  BY <1>1, <1>3, <1>4 DEF ServedInv

LEMMA NextServed ==
    ASSUME NoHostKept, ServedInv, [Next]_vars
    PROVE  ServedInv'
<1>1. LeaseInv' /\ NotCreated' /\ VersionsOK' /\ OutcomeOnce
  BY NextLease, NextVersions DEF NoHostKept, ServedInv
<1>2. CASE UNCHANGED vars \/ Deliver \/ \E t \in Tasks : TimerFires(t)
  <2>1. UNCHANGED <<tr, secret, prov, processed, worker>>
    BY <1>2 DEF vars, Deliver, TimerFires, jobVars
  <2>2. QED
    BY <1>1, <2>1, ServedSkip
<1>3. ASSUME NEW w \in Workers, WorkerStep(w) PROVE ServedInv'
  BY <1>1, <1>3, ServedAllocating, ServedLaunch, ServedFinalizer, ServedError,
     ServedReleasing, ServedWake, ServedUnassignFailed, ServedMark
  DEF WorkerStep
<1>4. ASSUME NEW w \in Workers, WorkerFault(w) PROVE ServedInv'
  <2>1. /\ \A t \in Tasks : ~UserReadFails(w, t)
        /\ \A t \in Tasks, h \in Hosts : ~ProvisionReadFails(w, t, h)
    BY DEF UserReadFails, ProvisionReadFails, Fault, NoHostKept
  <2>2. QED
    BY <1>1, <1>4, <2>1, ServedErrorEnds, ServedErrorGoesOn, ServedError,
       ServedReleasing, ServedWake
    DEF WorkerFault
<1>5. ASSUME NEW w \in Workers, NEW t \in Tasks, ReconcileUser(w, t)
      PROVE  ServedInv'
  BY <1>1, <1>5, ServedStart
<1>6. ASSUME NEW w \in Workers, NEW t \in Tasks, NEW h \in Hosts,
             ReconcileProvisionKey(w, t, h)
      PROVE  ServedInv'
  BY <1>1, <1>6, ServedProvisionStart, ServedRemove DEF ReconcileProvisionKey
<1>7. CASE Restart
  BY <1>1, <1>7 DEF Restart, Fault, OutcomeOnce
<1>8. ASSUME NEW t \in Tasks, User(t) PROVE ServedInv'
  BY <1>1, <1>8, ServedUser
<1>9. ASSUME NEW t \in Tasks, NEW h \in Hosts,
             Job(t, h) \/ ReconcileClean(t, h)
      PROVE  ServedInv'
  <2>1. CASE CleanSucceeds(t, h) \/ CleanFails(t, h) \/ ReconcileClean(t, h)
    <3>1. UNCHANGED <<tr, secret, prov, processed, worker>>
      BY <2>1 DEF CleanSucceeds, CleanFails, ReconcileClean
    <3>2. QED
      BY <1>1, <3>1, ServedSkip
  <2>2. QED
    BY <1>1, <1>9, <2>1, ServedProvisioned DEF Job
<1>10. QED
  BY <1>2, <1>3, <1>4, <1>5, <1>6, <1>7, <1>8, <1>9 DEF Next

\* A running TaskRun that holds a host has its secret, or a provision TaskRun
\* on that host, or a reconcile that is about to launch one or give the host
\* up: handleHostAllocation never sees an assigned TaskRun again, so nothing
\* else would serve it.  Neither the order in which outcomes and updates are
\* seen nor a stale cache makes an assignment whose provisioning is over.
THEOREM HostProvisioned ==
    ASSUME NoHostKept
    PROVE  Spec => []AssignedHasProvision
<1>1. Init => ServedInv
  BY InitServed
<1>2. ServedInv /\ [Next]_vars => ServedInv'
  BY NextServed
<1>3. ServedInv => AssignedHasProvision
  <2> SUFFICES ASSUME ServedInv, NEW t \in Tasks, NEW h \in Hosts,
                      tr[t].assigned = h, ~Done(tr[t]), secret[t] = "none"
               PROVE  \/ prov[<<t, h>>] # "none"
                      \/ \E w \in Workers : worker[w].key = UserKey(t)
    BY DEF AssignedHasProvision
  <2>1. Exists(tr[t])
    BY ConstantsAssumption DEF ServedInv, VersionsOK, NoHostIfAbsent
  <2>2. Open(tr[t])
    BY <2>1 DEF Exists, Done, Open
  <2>3. Provided(t)
    BY <2>2 DEF ServedInv, ServedTask
  <2>4. QED
    BY <2>3 DEF Provided, Live
<1>4. QED
  BY <1>1, <1>2, <1>3, PTL DEF Spec

(***************************************************************************)
(* NoLeftovers.                                                            *)
(***************************************************************************)

\* No provision TaskRun comes to count.
LiveLess == \A l \in Leases : Live(l)' => Live(l)

\* Nothing more is owed for t; a provision TaskRun of t fails only if nothing
\* is owed on its host.
Lesser(t) ==
    /\ OwesSecret(t)' => OwesSecret(t)
    /\ \A h \in Hosts :
          /\ Owed(t, h)' => Owed(t, h)
          /\ Live(<<t, h>>)' => Live(<<t, h>>)
          /\ \/ prov'[<<t, h>>] \in {prov[<<t, h>>], "none", "succeeded"}
             \/ prov[<<t, h>>] = "running" /\ ~Owed(t, h)'

\* Nor does t change, or its cleanup TaskRuns.
Same(t) ==
    /\ Lesser(t) /\ tr'[t] = tr[t]
    /\ \A h \in Hosts : clean'[<<t, h>>] = clean[<<t, h>>]

\* Only LaunchProvision makes a provision TaskRun count.
LEMMA LiveStep ==
    ASSUME OutcomeOnce, LeaseInv, [Next]_vars,
           \A w \in Workers : ~LaunchProvision(w)
    PROVE  LiveLess
<1> SUFFICES ASSUME NEW l \in Leases, Live(l)' PROVE Live(l)
  BY DEF LiveLess
<1>1. ASSUME NEW w \in Workers, worker[w].pc # "mark",
             \A v \in Workers \ {w} : worker'[v] = worker[v],
             UNCHANGED <<prov, processed>>
      PROVE  Live(l)
  <2> DEFINE W == {w}
  <2>1. /\ W \in SUBSET Workers /\ \A v \in W : worker[v].pc # "mark"
        /\ \A v \in Workers \ W : worker'[v] = worker[v]
    BY <1>1
  <2> HIDE DEF W
  <2>2. QED
    BY <1>1, <2>1, LiveKept
<1>2. ASSUME UNCHANGED <<prov, processed, worker>> PROVE Live(l)
  BY <1>2 DEF Live, Marking
<1>3. ASSUME NEW w \in Workers, MarkProcessed(w) PROVE Live(l)
  <2>1. /\ UNCHANGED prov /\ processed' = processed \cup {worker[w].key}
        /\ \A v \in Workers \ {w} : worker'[v] = worker[v]
    BY <1>3, ReturnMove DEF MarkProcessed, LeaseInv
  <2>2. QED
    BY <2>1 DEF Live, Marking
<1>4. ASSUME NEW w \in Workers, WorkerStep(w) PROVE Live(l)
  <2>1. CASE \/ WaitForHost(w) \/ AssignHost(w) \/ UnassignHost(w)
             \/ AddErrorFinalizer(w) \/ CreateErrorSecret(w) \/ WakeOldest(w)
    <3>1. worker[w].pc \notin {"idle", "mark"} /\ UNCHANGED <<prov, processed>>
      BY <2>1 DEF WaitForHost, AssignHost, UnassignHost, AddErrorFinalizer,
                  CreateErrorSecret, WakeOldest, At, jobVars
    <3>2. \A v \in Workers \ {w} : worker'[v] = worker[v]
      BY <2>1, <3>1, RequeueMove, ReturnMove, GotoMove, KeepMove
      DEF WaitForHost, AssignHost, UnassignHost, AddErrorFinalizer,
          CreateErrorSecret, WakeOldest, LeaseInv
    <3>3. QED
      BY <1>1, <3>1, <3>2
  <2>2. CASE \/ Deallocate(w) \/ ReleaseHost(w) \/ DeleteSecret(w)
             \/ UnassignFailedHost(w)
    <3>1. worker[w].pc \notin {"idle", "mark"} /\ UNCHANGED <<prov, processed>>
      BY <2>2 DEF Deallocate, ReleaseHost, DeleteSecret, UnassignFailedHost,
                  At, jobVars
    <3>2. \A v \in Workers \ {w} : worker'[v] = worker[v]
      BY <2>2, <3>1, RequeueMove, GotoMove, KeepMove
      DEF Deallocate, ReleaseHost, DeleteSecret, UnassignFailedHost, LeaseInv
    <3>3. QED
      BY <1>1, <3>1, <3>2
  <2>3. QED
    BY <1>3, <1>4, <2>1, <2>2 DEF WorkerStep
<1>5. ASSUME NEW w \in Workers, NEW t \in Tasks,
             ReconcileUser(w, t) \/ UserReadFails(w, t)
      PROVE  Live(l)
  <2>1. worker[w].pc # "mark" /\ UNCHANGED <<prov, processed>>
    BY <1>5 DEF ReconcileUser, UserReadFails, Available, jobVars
  <2>2. \A v \in Workers \ {w} : worker'[v] = worker[v]
    BY <1>5, BeginMove DEF ReconcileUser, UserReadFails, Allocates, LeaseInv
  <2>3. QED
    BY <1>1, <2>1, <2>2
<1>6. ASSUME NEW w \in Workers, NEW t \in Tasks, NEW h \in Hosts,
             ReconcileProvision(w, t, h) \/ ProvisionReadFails(w, t, h)
      PROVE  Live(l)
  <2>1. worker[w].pc # "mark" /\ UNCHANGED <<prov, processed>>
    BY <1>6 DEF ReconcileProvision, ProvisionReadFails, Available, jobVars
  <2>2. \A v \in Workers \ {w} : worker'[v] = worker[v]
    BY <1>6, BeginMove DEF ReconcileProvision, ProvisionReadFails, LeaseInv
  <2>3. QED
    BY <1>1, <2>1, <2>2
<1>7. ASSUME NEW w \in Workers, WorkerFault(w) PROVE Live(l)
  <2>1. CASE \/ ErrorRequeues(w) \/ ErrorSecretAgain(w) \/ WakeFails(w)
             \/ ErrorFailsAllocation(w) \/ LaunchFails(w) \/ KeyReadFails(w)
             \/ DeallocateFails(w) \/ SecretDeleteFails(w)
    <3>1. worker[w].pc \notin {"idle", "mark"} /\ UNCHANGED <<prov, processed>>
      BY <2>1 DEF ErrorRequeues, ErrorSecretAgain, WakeFails, LaunchFails,
                  ErrorFailsAllocation, KeyReadFails, DeallocateFails,
                  SecretDeleteFails, At, jobVars, Fault, OutcomeOnce
    <3>2. \A v \in Workers \ {w} : worker'[v] = worker[v]
      BY <2>1, <3>1, RequeueMove, ReturnMove, GotoMove, KeepMove
      DEF ErrorRequeues, ErrorSecretAgain, WakeFails, LaunchFails,
          ErrorFailsAllocation, KeyReadFails, DeallocateFails,
          SecretDeleteFails, LeaseInv
    <3>3. QED
      BY <1>1, <3>1, <3>2
  <2>2. QED
    BY <1>5, <1>6, <1>7, <2>1 DEF WorkerFault
<1>8. ASSUME NEW w \in Workers, NEW t \in Tasks, NEW h \in Hosts,
             RemoveProvision(w, t, h)
      PROVE  Live(l)
  <2>1. /\ prov' = [prov EXCEPT ![<<t, h>>] = "none"]
        /\ processed' = processed \ {<<t, h>>} /\ UNCHANGED worker
    BY <1>8 DEF RemoveProvision
  <2>2. CASE l = <<t, h>>
    BY <2>1, <2>2, Typed DEF LeaseInv, Live
  <2>3. CASE l # <<t, h>>
    BY <2>1, <2>3, Typed DEF LeaseInv, Live, Marking
  <2>4. QED
    BY <2>2, <2>3
<1>9. ASSUME NEW t \in Tasks, NEW h \in Hosts,
             ProvisionSucceeds(t, h) \/ ProvisionFails(t, h)
      PROVE  Live(l)
  <2>1. /\ prov[<<t, h>>] = "running" /\ UNCHANGED <<processed, worker>>
        /\ l # <<t, h>> => prov'[l] = prov[l]
    BY <1>9, Typed DEF ProvisionSucceeds, ProvisionFails, LeaseInv
  <2>2. QED
    BY <2>1 DEF Live, Marking
<1>10. CASE \/ UNCHANGED vars \/ Deliver \/ \E t \in Tasks : TimerFires(t)
            \/ \E t \in Tasks : User(t)
            \/ \E t \in Tasks, h \in Hosts :
                  CleanSucceeds(t, h) \/ CleanFails(t, h) \/ ReconcileClean(t, h)
  <2>1. UNCHANGED <<prov, processed, worker>>
    BY <1>10 DEF vars, Deliver, TimerFires, User, CreateTask, TaskCompletes,
                 TaskCancelled, Completes, DeleteTask, jobVars, CleanSucceeds,
                 CleanFails, ReconcileClean
  <2>2. QED
    BY <1>2, <2>1
<1>11. ~Restart
  BY DEF Restart, Fault, OutcomeOnce
<1>12. QED
  BY <1>4, <1>5, <1>6, <1>7, <1>8, <1>9, <1>10, <1>11
  DEF Next, ReconcileProvisionKey, Job

\* A TaskRun that does not change keeps what the invariant says of it, as
\* long as its release is not disturbed.
LEMMA ProvisionKept ==
    ASSUME NEW t \in Tasks, ProvisionOK(t), Lesser(t),
           Open(tr'[t]) => \A h \in Hosts : clean'[<<t, h>>] = "none"
    PROVE  ProvisionOK(t)'
<1> SUFFICES ASSUME NEW h \in Hosts
             PROVE  /\ prov'[<<t, h>>] = "failed" => ~Owed(t, h)'
                    /\ Live(<<t, h>>)' =>
                          /\ \A g \in Hosts : Owed(t, g)' => g = h
                          /\ OwesSecret(t)' => prov'[<<t, h>>] = "succeeded"
  BY DEF ProvisionOK
<1>1. /\ Owed(t, h)' => Owed(t, h)
      /\ Live(<<t, h>>)' => Live(<<t, h>>)
      /\ OwesSecret(t)' => OwesSecret(t)
      /\ \/ prov'[<<t, h>>] \in {prov[<<t, h>>], "none", "succeeded"}
         \/ prov[<<t, h>>] = "running" /\ ~Owed(t, h)'
  BY DEF Lesser
<1>2. prov'[<<t, h>>] = "failed" => ~Owed(t, h)'
  BY <1>1 DEF ProvisionOK
<1>3. ASSUME Live(<<t, h>>)', NEW g \in Hosts, Owed(t, g)' PROVE g = h
  BY <1>1, <1>3 DEF Lesser, ProvisionOK
<1>4. ASSUME Live(<<t, h>>)', OwesSecret(t)'
      PROVE  prov'[<<t, h>>] = "succeeded"
  <2>1. prov[<<t, h>>] = "succeeded"
    BY <1>1, <1>4 DEF ProvisionOK
  <2>2. prov'[<<t, h>>] # "none"
    BY <1>4 DEF Live
  <2>3. QED
    BY <1>1, <2>1, <2>2
<1>5. QED
  BY <1>2, <1>3, <1>4

LEMMA SameTask ==
    ASSUME NEW t \in Tasks, CleanTask(t), Same(t),
           \A v \in Workers : worker[v].pc = "deleteSecret"
                              /\ worker[v].key = UserKey(t)
                              => worker'[v] = worker[v]
    PROVE  CleanTask(t)'
<1>1. ProvisionOK(t)'
  BY ProvisionKept DEF CleanTask, Same, ProvisionOK
<1>2. AccountsOK(t)'
  BY DEF CleanTask, AccountsOK, Same, Lesser
<1>3. SecretOK(t)'
  BY DEF CleanTask, SecretOK, Same, Lesser
<1>4. QED
  BY <1>1, <1>2, <1>3 DEF CleanTask

\* A step on t, of the workers of W.
LEMMA CleanFrame ==
    ASSUME CleanInv, LeaseInv', NotCreated', NEW t \in Tasks,
           NEW W \in SUBSET Workers,
           \A v \in Workers \ W : worker'[v] = worker[v],
           \A v \in W : worker[v].pc = "deleteSecret"
                        => worker[v].key = UserKey(t),
           \A v \in W, u \in Tasks :
               worker'[v].key = UserKey(u) => Cleans(worker[v], u)',
           \A v \in Workers \ W :
               worker[v].key = UserKey(t) => Cleans(worker[v], t)',
           \A u \in Tasks \ {t} : Same(u),
           CleanTask(t)'
    PROVE  CleanInv'
<1>1. ASSUME NEW u \in Tasks, u # t PROVE CleanTask(u)'
  <2>1. CleanTask(u) /\ Same(u)
    BY <1>1 DEF CleanInv
  <2>2. UserKey(u) # UserKey(t)
    BY <1>1 DEF UserKey
  <2>3. QED
    BY <2>1, <2>2, SameTask
<1>2. ASSUME NEW w \in Workers, NEW u \in Tasks, worker'[w].key = UserKey(u)
      PROVE  Cleans(worker[w], u)'
  <2>1. CASE w \in W
    BY <1>2, <2>1
  <2>2. CASE w \notin W /\ u = t
    BY <1>2, <2>2
  <2>3. CASE w \notin W /\ u # t
    <3>1. Cleans(worker[w], u) /\ worker'[w] = worker[w] /\ Same(u)
      BY <1>2, <2>3 DEF CleanInv
    <3>2. QED
      BY <3>1, ZenonT(40) DEF Cleans, Same, Lesser, Clear
  <2>4. QED
    BY <2>1, <2>2, <2>3
<1>3. QED
  BY <1>1, <1>2 DEF CleanInv

\* A step that changes no secret, job or account.
LEMMA AllLesser ==
    ASSUME LiveLess, UNCHANGED <<secret, prov, accounts, abandoned>>
    PROVE  \A t \in Tasks : Lesser(t)
BY KeyKinds DEF LiveLess, Lesser, Owed, OwesSecret

\* The TaskRun t changes in nothing that matters here.
LEMMA QuietClean ==
    ASSUME CleanInv, LeaseInv', NotCreated', LiveLess, NEW t \in Tasks,
           NEW W \in SUBSET Workers,
           \A v \in Workers \ W : worker'[v] = worker[v],
           \A v \in W : worker[v].pc # "deleteSecret",
           \A v \in W, u \in Tasks :
               worker'[v].key = UserKey(u) => Cleans(worker[v], u)',
           \A u \in Tasks \ {t} : tr'[u] = tr[u],
           tr'[t].assigned = tr[t].assigned, Open(tr'[t]) => Open(tr[t]),
           UNCHANGED <<secret, prov, clean, accounts, abandoned>>
    PROVE  CleanInv'
<1>1. Lesser(t) /\ \A u \in Tasks \ {t} : Same(u)
  BY AllLesser DEF Same
<1>2. CleanTask(t)
  BY DEF CleanInv
<1>3. ProvisionOK(t)'
  BY <1>1, <1>2, ProvisionKept DEF CleanTask, ProvisionOK
<1>4. AccountsOK(t)' /\ SecretOK(t)'
  BY <1>1, <1>2 DEF CleanTask, Lesser, AccountsOK, SecretOK
<1>5. ASSUME NEW v \in Workers \ W, worker[v].key = UserKey(t)
      PROVE  Cleans(worker[v], t)'
  <2>1. Cleans(worker[v], t)
    BY <1>5 DEF CleanInv
  <2>2. QED
    BY <1>1, <2>1 DEF Cleans, Lesser, Clear
<1>6. QED
  BY <1>1, <1>3, <1>4, <1>5, CleanFrame DEF CleanTask

\* Only the worker w moves, or none.
LEMMA CleanMove ==
    ASSUME CleanInv, LeaseInv', NotCreated', NEW w \in Workers,
           \A v \in Workers \ {w} : worker'[v] = worker[v],
           worker[w].pc # "deleteSecret",
           \A u \in Tasks :
               worker'[w].key = UserKey(u) => Cleans(worker[w], u)',
           \A u \in Tasks : Same(u)
    PROVE  CleanInv'
<1> DEFINE W == {w}
<1>1. CASE Tasks = {}
  BY <1>1 DEF CleanInv
<1>2. ASSUME NEW t \in Tasks PROVE CleanInv'
  <2>1. CleanTask(t)'
    BY SameTask DEF CleanInv
  <2>2. ASSUME NEW v \in Workers \ W, worker[v].key = UserKey(t)
        PROVE  Cleans(worker[v], t)'
    <3>1. Cleans(worker[v], t) /\ worker'[v] = worker[v] /\ Same(t)
      BY <2>2 DEF CleanInv
    <3>2. QED
      BY <3>1, ZenonT(40) DEF Cleans, Same, Lesser, Clear
  <2>3. /\ W \in SUBSET Workers
        /\ \A v \in Workers \ W : worker'[v] = worker[v]
        /\ \A v \in W : worker[v].pc # "deleteSecret"
        /\ \A v \in W, u \in Tasks :
              worker'[v].key = UserKey(u) => Cleans(worker[v], u)'
    OBVIOUS
  <2> HIDE DEF W
  <2>4. QED
    BY <2>1, <2>2, <2>3, CleanFrame
<1>3. QED
  BY <1>1, <1>2

LEMMA CleanSkip ==
    ASSUME CleanInv, LeaseInv', NotCreated', UNCHANGED worker,
           \A t \in Tasks : Same(t)
    PROVE  CleanInv'
<1>1. ASSUME NEW t \in Tasks PROVE CleanTask(t)'
  BY SameTask DEF CleanInv
<1>2. ASSUME NEW w \in Workers, NEW t \in Tasks, worker'[w].key = UserKey(t)
      PROVE  Cleans(worker[w], t)'
  <2>1. Cleans(worker[w], t) /\ Same(t)
    BY <1>2 DEF CleanInv
  <2>2. QED
    BY <2>1 DEF Cleans, Same, Lesser, Clear
<1>3. QED
  BY <1>1, <1>2 DEF CleanInv

\* Nothing is owed for t after the step of its worker w.
LEMMA ClearStep ==
    ASSUME CleanInv, LeaseInv', NotCreated', NEW t \in Tasks,
           NEW w \in Workers,
           \A v \in Workers \ {w} : worker'[v] = worker[v],
           worker[w].pc # "deleteSecret",
           \A u \in Tasks : worker'[w].key = UserKey(u) => u = t,
           \A u \in Tasks \ {t} : Same(u), Clear(t)',
           Open(tr'[t]) => \A h \in Hosts : clean'[<<t, h>>] = "none"
    PROVE  CleanInv'
<1> DEFINE W == {w}
<1>1. CleanTask(t)'
  BY DEF CleanTask, ProvisionOK, AccountsOK, SecretOK, Clear
<1>2. \A v \in Workers : Cleans(worker[v], t)'
  BY DEF Cleans, Clear
<1>3. /\ W \in SUBSET Workers
      /\ \A v \in Workers \ W : worker'[v] = worker[v]
      /\ \A v \in W : worker[v].pc # "deleteSecret"
      /\ \A v \in W, u \in Tasks :
            worker'[v].key = UserKey(u) => Cleans(worker[v], u)'
      /\ \A v \in Workers \ W :
            worker[v].key = UserKey(t) => Cleans(worker[v], t)'
  BY <1>2
<1> HIDE DEF W
<1>4. QED
  BY <1>1, <1>3, CleanFrame

\* A worker that is idle, or becomes it, has no key of a TaskRun.
LEMMA IdleKey ==
    ASSUME CopiesConsistent', NEW w \in Workers, worker'[w].pc = "idle",
           NEW t \in Tasks
    PROVE  worker'[w].key # UserKey(t)
<1>1. worker'[w] \in Busy \cup {Idle}
  BY DEF CopiesConsistent, WorkersOK
<1>2. UserKey(t) # NoKey
  BY ConstantsAssumption DEF UserKey, NoKey, Tasks
<1>3. QED
  BY <1>1, <1>2 DEF Busy, Idle

\* A reconcile ends, and nothing else changes.
LEMMA CleanEnd ==
    ASSUME CleanInv, LeaseInv', NotCreated', LiveLess, NEW w \in Workers,
           \A v \in Workers \ {w} : worker'[v] = worker[v],
           worker'[w].pc = "idle", worker[w].pc # "deleteSecret",
           UNCHANGED <<tr, secret, prov, clean, accounts, abandoned>>
    PROVE  CleanInv'
<1>1. \A u \in Tasks : worker'[w].key # UserKey(u)
  BY IdleKey DEF LeaseInv
<1>2. \A u \in Tasks : Same(u)
  BY AllLesser DEF Same
<1>3. QED
  BY <1>1, <1>2, CleanMove

\* The steps of Allocate: nothing is owed for the TaskRun.
LEMMA CleanAllocating ==
    ASSUME CleanInv, LeaseInv', NotCreated', LiveLess, NEW w \in Workers,
           WaitForHost(w) \/ AssignHost(w) \/ UnassignHost(w)
    PROVE  CleanInv'
<1> DEFINE r == worker[w]
<1>1. /\ r.pc \in {"wait", "assign", "unassign"}
      /\ r.pc \in Choosing /\ r.pc \in Writing /\ r.pc # "idle"
      /\ UNCHANGED <<secret, prov, clean, accounts, abandoned>>
  BY DEF WaitForHost, AssignHost, UnassignHost, At, jobVars, Choosing,
         Writing
<1>2. PICK t \in Tasks : t = TaskOf(w) /\ r.key = UserKey(t)
  BY <1>1, KeyOf DEF CleanInv
<1>3. Clear(t) /\ r.obj \in Copy /\ CleanTask(t)
  BY <1>1, <1>2, BusyWorker DEF CleanInv, Cleans, LeaseInv, CopiesConsistent
<1>4. /\ \A u \in Tasks \ {t} : tr'[u] = tr[u]
      /\ Open(tr'[t]) => Open(tr[t])
  BY <1>2, <1>3, UpdateFacts
  DEF WaitForHost, AssignHost, UnassignHost, storeVars, CleanInv, LeaseInv
<1>5. /\ \A v \in Workers \ {w} : worker'[v] = worker[v]
      /\ worker'[w].pc = "idle" \/ worker'[w].key = r.key
  BY <1>1, <1>2, RequeueMove, KeepMove, GotoMove
  DEF WaitForHost, AssignHost, UnassignHost, CleanInv, LeaseInv, FailPC
<1>6. \A u \in Tasks : worker'[w].key = UserKey(u) => u = t
  BY <1>2, <1>5, IdleKey, KeyKinds DEF LeaseInv
<1>7. \A u \in Tasks \ {t} : Same(u)
  BY <1>1, <1>4, AllLesser DEF Same
<1>8. Clear(t)'
  BY <1>1, <1>3 DEF Clear, Owed, OwesSecret
<1>9. Open(tr'[t]) => \A h \in Hosts : clean'[<<t, h>>] = "none"
  BY <1>1, <1>3, <1>4 DEF CleanTask, ProvisionOK
<1> HIDE DEF r
<1>10. QED
  BY <1>1, <1>5, <1>6, <1>7, <1>8, <1>9, ClearStep DEF r

\* The SSH key is missing or cannot be read, or the provision TaskRun is
\* created: for a TaskRun for which nothing is owed.
LEMMA CleanLaunch ==
    ASSUME CleanInv, LeaseInv', NotCreated', NEW w \in Workers,
           LaunchProvision(w) \/ KeyReadFails(w)
    PROVE  CleanInv'
<1> DEFINE r == worker[w]
<1>1. /\ r.pc = "launch" /\ r.pc \in Choosing /\ r.pc \in Writing
      /\ r.pc # "idle" /\ Return(w)
      /\ UNCHANGED <<tr, clean, accounts, abandoned, processed>>
  BY DEF LaunchProvision, KeyReadFails, At, jobVars, Choosing, Writing
<1>2. PICK t \in Tasks : t = TaskOf(w) /\ r.key = UserKey(t)
  BY <1>1, KeyOf DEF CleanInv
<1>3. Clear(t) /\ CleanTask(t)
  BY <1>1, <1>2 DEF CleanInv, Cleans
<1>4. /\ prov \in [Leases -> JobState]
      /\ secret \in [Tasks -> {"none", "ssh", "error"}]
  BY DEF CleanInv, LeaseInv, CopiesConsistent, RestOK
<1>5. /\ secret'[t] \in {secret[t], "error"}
      /\ \A u \in Tasks \ {t} : secret'[u] = secret[u]
  <2>1. UNCHANGED secret \/ ErrorSecret(t)
    BY <1>2 DEF LaunchProvision, KeyReadFails
  <2>2. QED
    BY <1>4, <2>1 DEF ErrorSecret
<1>6. \A u \in Tasks \ {t}, h \in Hosts : prov'[<<u, h>>] = prov[<<u, h>>]
  <2>1. \/ UNCHANGED prov
        \/ prov' = [prov EXCEPT ![<<t, r.host>>] = "running"]
    BY <1>2 DEF LaunchProvision, KeyReadFails, jobVars
  <2>2. ASSUME NEW u \in Tasks \ {t}, NEW h \in Hosts
        PROVE  prov'[<<u, h>>] = prov[<<u, h>>]
    <3>1. <<u, h>> \in Leases /\ <<u, h>> # <<t, r.host>>
      BY <2>2 DEF Leases
    <3>2. QED
      BY <1>4, <2>1, <3>1
  <2>3. QED
    BY <2>2
<1>7. /\ \A v \in Workers \ {w} : worker'[v] = worker[v]
      /\ worker'[w].pc = "idle"
  BY <1>1, ReturnMove DEF CleanInv, LeaseInv
<1>8. \A u \in Tasks : worker'[w].key # UserKey(u)
  BY <1>7, IdleKey DEF LeaseInv
<1>9. ASSUME NEW u \in Tasks \ {t} PROVE Same(u)
  <2>1. \A h \in Hosts : Live(<<u, h>>)' => Live(<<u, h>>)
    BY <1>1, <1>6, <1>7 DEF Live, Marking
  <2>2. QED
    BY <1>1, <1>5, <1>6, <2>1 DEF Same, Lesser, Owed, OwesSecret
<1>10. Clear(t)'
  BY <1>1, <1>3, <1>5 DEF Clear, Owed, OwesSecret
<1>11. Open(tr'[t]) => \A h \in Hosts : clean'[<<t, h>>] = "none"
  BY <1>1, <1>3 DEF CleanTask, ProvisionOK
<1> HIDE DEF r
<1>12. QED
  BY <1>1, <1>7, <1>8, <1>9, <1>10, <1>11, ClearStep DEF r

\* createErrorSecret's first step.
LEMMA CleanFinalizer ==
    ASSUME CleanInv, LeaseInv', NotCreated', LiveLess, NEW w \in Workers,
           AddErrorFinalizer(w)
    PROVE  CleanInv'
<1> DEFINE r == worker[w]
           W == {w}
           o == [r.obj EXCEPT !.finalizer = TRUE]
<1>1. /\ r.pc \in {"fail", "configFail"} /\ r.pc # "idle"
      /\ r.pc \in Writing /\ r.pc # "deleteSecret"
      /\ UNCHANGED <<secret, prov, clean, accounts, abandoned>>
  BY DEF AddErrorFinalizer, At, jobVars, Writing
<1>2. PICK t \in Tasks : t = TaskOf(w)
  BY <1>1, KeyOf DEF CleanInv
<1>3. /\ r.obj \in Copy /\ o \in Copy /\ o.assigned = r.obj.assigned
      /\ Open(o) <=> Open(r.obj)
  <2>1. r.obj \in Copy
    BY <1>1, BusyWorker DEF CleanInv, LeaseInv, CopiesConsistent
  <2>2. QED
    BY <2>1, UpdatedCopies DEF Copy, TaskRun, Open
<1> HIDE DEF o
<1>4. CASE NotServed(w) /\ UNCHANGED storeVars
  <2>1. /\ \A v \in Workers \ {w} : worker'[v] = worker[v]
        /\ worker'[w].pc = "idle" /\ UNCHANGED tr
    BY <1>4, RequeueMove DEF CleanInv, LeaseInv, storeVars
  <2>2. QED
    BY <1>1, <2>1, CleanEnd
<1>5. ASSUME tr[t] = r.seen, Put(t, o),
             NEW pc \in {"errorSecret", "configSecret"}, Goto(w, pc)
      PROVE  CleanInv'
  <2>1. /\ \A u \in Tasks \ {t} : tr'[u] = tr[u]
        /\ tr'[t].assigned = o.assigned /\ (Open(tr'[t]) <=> Open(o))
    BY <1>3, <1>5, PutFacts DEF CleanInv, LeaseInv
  <2>2. /\ \A v \in Workers \ W : worker'[v] = worker[v]
        /\ worker'[w].pc = pc /\ worker'[w].key = r.key
    BY <1>1, <1>5, GotoMove DEF CleanInv, LeaseInv
  <2>3. CleanTask(t)
    BY DEF CleanInv
  <2>4. CASE r.key = UserKey(t)
    <3>1. Open(tr[t])
      BY <1>1, <1>2, <1>5, <2>4, AtAllocating
      DEF CleanInv, Allocating, AllocatingOK, Runs, Open
    <3>2. Open(tr'[t]) => \A h \in Hosts : clean'[<<t, h>>] = "none"
      BY <1>1, <2>3, <3>1 DEF CleanTask, ProvisionOK
    <3>3. Clear(t)'
      BY <1>1, <2>4 DEF CleanInv, Cleans, Clear, Owed, OwesSecret
    <3>4. \A u \in Tasks \ {t} : Same(u)
      BY <1>1, <2>1, AllLesser DEF Same
    <3>5. \A u \in Tasks : worker'[w].key = UserKey(u) => u = t
      BY <2>2, <2>4 DEF UserKey
    <3> HIDE DEF r
    <3>6. QED
      BY <1>1, <2>2, <3>2, <3>3, <3>4, <3>5, ClearStep DEF r
  <2>5. CASE r.key \in Leases
    <3>1. r.obj = tr[t]
      BY <1>1, <1>5, <2>5, ProvisionReconcile DEF CleanInv, OutcomeOK
    <3>2. /\ W \in SUBSET Workers
          /\ \A v \in W : worker[v].pc # "deleteSecret"
          /\ \A v \in W, u \in Tasks : Cleans(worker[v], u)'
      BY <1>1, <2>2 DEF Cleans, Writing, Choosing
    <3> HIDE DEF W, r
    <3>3. QED
      BY <1>1, <1>3, <2>1, <2>2, <3>1, <3>2, QuietClean DEF r
  <2>6. QED
    BY <1>1, <1>2, <2>4, <2>5, KeyOf DEF CleanInv
<1>6. QED
  BY <1>2, <1>4, <1>5 DEF AddErrorFinalizer, At, o

\* createErrorSecret's second step makes no SSH secret.
LEMMA CleanErrorSecret ==
    ASSUME CleanInv, LeaseInv', NotCreated', LiveLess, NEW w \in Workers,
           CreateErrorSecret(w)
    PROVE  CleanInv'
<1>1. /\ worker[w].pc \in {"errorSecret", "configSecret"}
      /\ UNCHANGED <<tr, prov, clean, accounts, abandoned>>
      /\ ErrorSecret(TaskOf(w))
  BY DEF CreateErrorSecret, At, jobVars
<1>2. secret \in [Tasks -> {"none", "ssh", "error"}] /\ TaskOf(w) \in Tasks
  BY <1>1, KeyOf DEF CleanInv, LeaseInv, CopiesConsistent, RestOK
<1>3. \A u \in Tasks : secret'[u] \in {secret[u], "error"}
  BY <1>1, <1>2 DEF ErrorSecret
<1>4. \A u \in Tasks : Same(u)
  BY <1>1, <1>3, KeyKinds DEF Same, Lesser, Owed, OwesSecret, LiveLess
<1>5. /\ \A v \in Workers \ {w} : worker'[v] = worker[v]
      /\ worker'[w].pc \in {"idle", "mark"}
  BY <1>1, RequeueMove, ReturnMove, GotoMove
  DEF CreateErrorSecret, CleanInv, LeaseInv
<1>6. \A u \in Tasks : Cleans(worker[w], u)'
  BY <1>5 DEF Cleans, Writing, Choosing
<1>7. QED
  BY <1>1, <1>4, <1>5, <1>6, CleanMove

\* A failed provision TaskRun's host is taken from the user TaskRun, for
\* which nothing is owed: what provisioning had made is abandoned.
LEMMA CleanUnassignFailed ==
    ASSUME CleanInv, LeaseInv', NotCreated', LiveLess, NEW w \in Workers,
           UnassignFailedHost(w)
    PROVE  CleanInv'
<1> DEFINE r == worker[w]
<1>1. /\ r.pc = "unassignFailed" /\ r.pc \notin {"idle", "deleteSecret"}
      /\ UNCHANGED <<secret, prov, clean, accounts, abandoned>>
  BY DEF UnassignFailedHost, At, jobVars
<1>2. /\ r.key \in Leases /\ Live(r.key) /\ prov[r.key] = "failed"
      /\ r.obj \in Copy
  BY <1>1, FailedIsLive, ProvisionReconcile, BusyWorker
  DEF CleanInv, OutcomeOK, LeaseInv, CopiesConsistent
<1>3. PICK t \in Tasks, h \in Hosts : r.key = <<t, h>>
  BY <1>2 DEF Leases
<1>4. t = TaskOf(w) /\ CleanTask(t)
  BY <1>3 DEF TaskOf, CleanInv
<1>5. Clear(t)
  BY <1>2, <1>3, <1>4 DEF CleanTask, ProvisionOK, Clear
<1>6. CASE Requeue(w) /\ UNCHANGED storeVars
  <2>1. /\ \A v \in Workers \ {w} : worker'[v] = worker[v]
        /\ worker'[w].pc = "idle" /\ UNCHANGED tr
    BY <1>6, RequeueMove DEF CleanInv, LeaseInv, storeVars
  <2>2. QED
    BY <1>1, <2>1, CleanEnd
<1>7. CASE UpdateTaskRunWithRetry(t, r.obj) /\ Goto(w, "mark")
  <2>1. /\ \A v \in Workers \ {w} : worker'[v] = worker[v]
        /\ worker'[w].key = r.key
    BY <1>1, <1>7, GotoMove DEF CleanInv, LeaseInv
  <2>2. \A u \in Tasks : worker'[w].key # UserKey(u)
    BY <1>3, <2>1, KeyKinds
  <2>3. /\ \A u \in Tasks \ {t} : tr'[u] = tr[u]
        /\ Open(tr'[t]) => Open(tr[t])
    BY <1>2, <1>7, UpdateFacts DEF CleanInv, LeaseInv
  <2>4. \A u \in Tasks \ {t} : Same(u)
    BY <1>1, <2>3, AllLesser DEF Same
  <2>5. Clear(t)'
    BY <1>1, <1>5 DEF Clear, Owed, OwesSecret
  <2>6. Open(tr'[t]) => \A g \in Hosts : clean'[<<t, g>>] = "none"
    BY <1>1, <1>4, <2>3 DEF CleanTask, ProvisionOK
  <2> HIDE DEF r
  <2>7. QED
    BY <1>1, <2>1, <2>2, <2>4, <2>5, <2>6, ClearStep DEF r
<1>8. QED
  BY <1>4, <1>6, <1>7 DEF UnassignFailedHost

\* What the invariant says of a reconcile that releases t: it is the only one
\* of t, which is not open.
LEMMA AtReleasing ==
    ASSUME CleanInv, NEW w \in Workers, worker[w].pc \in Releasing
    PROVE  /\ TaskOf(w) \in Tasks /\ worker[w].key = UserKey(TaskOf(w))
           /\ ~Open(tr[TaskOf(w)]) /\ CleanTask(TaskOf(w))
           /\ Cleans(worker[w], TaskOf(w)) /\ worker[w].obj \in Copy
           /\ worker[w].host \in Hosts \cup {None}
           /\ \A v \in Workers \ {w} : worker[v].key # UserKey(TaskOf(w))
<1>1. worker[w].pc # "idle"
  BY DEF Releasing
<1>2. TaskOf(w) \in Tasks /\ worker[w].key = UserKey(TaskOf(w))
  BY <1>1, KeyOf DEF CleanInv
<1>3. worker[w].obj \in Copy /\ worker[w].host \in Hosts \cup {None}
  BY <1>1, BusyWorker DEF CleanInv, LeaseInv, CopiesConsistent
<1>4. \A v \in Workers \ {w} : worker[v].key # UserKey(TaskOf(w))
  BY <1>2, Alone DEF CleanInv
<1>5. QED
  BY <1>2, <1>3, <1>4, UserReconcile DEF CleanInv

\* Deallocate: every account that is owed is being cleaned up after it.
LEMMA CleanDeallocate ==
    ASSUME CleanInv, LeaseInv', NotCreated', LiveLess, NEW w \in Workers,
           Deallocate(w)
    PROVE  CleanInv'
<1> DEFINE r == worker[w]
           W == {w}
           h == r.host
<1>1. /\ r.pc = "deallocate" /\ r.pc \in Releasing
      /\ r.pc \notin {"idle", "deleteSecret"}
      /\ UNCHANGED <<tr, secret, prov, accounts, abandoned>>
      /\ Keep(w, "release", Released(r.obj))
  BY DEF Deallocate, At, Releasing
<1>2. PICK t \in Tasks : t = TaskOf(w)
  BY <1>1, AtReleasing
<1>3. /\ r.key = UserKey(t) /\ ~Open(tr[t]) /\ CleanTask(t) /\ Cleans(r, t)
      /\ \A v \in Workers \ W : worker[v].key # UserKey(t)
      /\ h \in Hosts \cup {None}
  BY <1>1, <1>2, AtReleasing
<1>4. /\ \A v \in Workers \ W : worker'[v] = worker[v]
      /\ worker'[w].pc = "release" /\ worker'[w].key = r.key
  BY <1>1, KeepMove DEF CleanInv, LeaseInv
<1>5. \A u \in Tasks : worker'[w].key = UserKey(u) => u = t
  BY <1>3, <1>4 DEF UserKey
<1>6. \A g \in Hosts : Owed(t, g) =>
         /\ h = g \/ clean[<<t, g>>] = "running"
         /\ \A k \in Hosts :
               clean[<<t, k>>] # "none" => clean[<<t, g>>] = "running"
  BY <1>1, <1>3 DEF Cleans, CleanTask, AccountsOK
<1>7. \A u \in Tasks : /\ \A g \in Hosts : Owed(u, g)' <=> Owed(u, g)
                       /\ OwesSecret(u)' <=> OwesSecret(u)
  BY <1>1 DEF Owed, OwesSecret
<1>8. CASE /\ clean' = clean
           /\ h = None \/ \E g \in Hosts : clean[<<t, g>>] # "none"
  <2>1. ASSUME NEW g \in Hosts, Owed(t, g) PROVE clean[<<t, g>>] = "running"
    <3>1. h = None => h # g
      BY ConstantsAssumption
    <3>2. QED
      BY <1>6, <1>8, <2>1, <3>1
  <2>2. Cleans(worker[w], t)'
    BY <1>4, <1>7, <1>8, <2>1 DEF Cleans, Choosing, Writing
  <2>3. \A u \in Tasks : Same(u)
    BY <1>1, <1>8, AllLesser DEF Same
  <2> HIDE DEF r, W
  <2>4. QED
    BY <1>1, <1>4, <1>5, <2>2, <2>3, CleanMove DEF r, W
<1>9. CASE /\ h \in Hosts /\ \A g \in Hosts : clean[<<t, g>>] = "none"
           /\ clean' = [clean EXCEPT ![<<t, h>>] = "running"]
  <2>1. clean \in [Leases -> JobState]
    BY DEF CleanInv, LeaseInv, CopiesConsistent, RestOK
  <2>2. /\ clean'[<<t, h>>] = "running"
        /\ \A u \in Tasks \ {t}, g \in Hosts :
              clean'[<<u, g>>] = clean[<<u, g>>]
    BY <1>9, <2>1, KeyKinds
  <2>3. \A g \in Hosts : Owed(t, g) => g = h
    BY <1>6, <1>9
  <2>4. Cleans(worker[w], t)'
    BY <1>4, <1>7, <2>2, <2>3 DEF Cleans, Choosing, Writing
  <2>5. Lesser(t) /\ \A u \in Tasks \ {t} : Same(u)
    BY <1>1, <2>2, AllLesser DEF Same
  <2>6. CleanTask(t)'
    <3>1. ProvisionOK(t)'
      BY <1>1, <1>3, <2>5, ProvisionKept DEF CleanTask
    <3>2. AccountsOK(t)'
      BY <1>7, <2>2, <2>3 DEF AccountsOK
    <3>3. SecretOK(t)'
      BY <1>1, <1>3, <1>4, <1>7 DEF CleanTask, SecretOK
    <3>4. QED
      BY <3>1, <3>2, <3>3 DEF CleanTask
  <2>7. /\ W \in SUBSET Workers
        /\ \A v \in W : worker[v].pc # "deleteSecret"
        /\ \A v \in W, u \in Tasks :
              worker'[v].key = UserKey(u) => Cleans(worker[v], u)'
    BY <1>1, <1>5, <2>4
  <2> HIDE DEF W, r, h
  <2>8. QED
    BY <1>3, <1>4, <2>5, <2>6, <2>7, CleanFrame
<1>10. QED
  BY <1>2, <1>3, <1>8, <1>9 DEF Deallocate

\* The cleanup TaskRun cannot be created: the account is abandoned.
LEMMA CleanDeallocateFails ==
    ASSUME CleanInv, LeaseInv', NotCreated', LiveLess, NEW w \in Workers,
           DeallocateFails(w)
    PROVE  CleanInv'
<1> DEFINE r == worker[w]
<1>1. /\ r.pc = "deallocate" /\ r.pc \in Releasing
      /\ r.pc \notin {"idle", "deleteSecret"}
      /\ UNCHANGED <<tr, secret, prov, clean, accounts>>
      /\ Keep(w, "release", Released(r.obj))
      /\ abandoned' = abandoned \cup ({<<TaskOf(w), r.host>>} \cap accounts)
  BY DEF DeallocateFails, At, Releasing, Abandon
<1>2. PICK t \in Tasks, h \in Hosts \cup {None} :
         t = TaskOf(w) /\ h = r.host
  BY <1>1, AtReleasing
<1>3. r.key = UserKey(t) /\ Cleans(r, t)
  BY <1>1, <1>2, AtReleasing
<1>4. /\ \A v \in Workers \ {w} : worker'[v] = worker[v]
      /\ worker'[w].pc = "release" /\ worker'[w].key = r.key
  BY <1>1, KeepMove DEF CleanInv, LeaseInv
<1>5. \A u \in Tasks : worker'[w].key = UserKey(u) => u = t
  BY <1>3, <1>4 DEF UserKey
<1>6. \A u \in Tasks : /\ \A g \in Hosts : Owed(u, g)' => Owed(u, g)
                       /\ OwesSecret(u)' => OwesSecret(u)
  BY <1>1 DEF Owed, OwesSecret
<1>7. ~Owed(t, h)'
  BY <1>1, <1>2 DEF Owed
<1>8. Cleans(worker[w], t)'
  <2>1. \A g \in Hosts : Owed(t, g)' => clean'[<<t, g>>] = "running"
    BY <1>1, <1>2, <1>3, <1>6, <1>7 DEF Cleans
  <2>2. QED
    BY <1>4, <2>1 DEF Cleans, Choosing, Writing
<1>9. \A u \in Tasks : Same(u)
  BY <1>1, <1>6, KeyKinds DEF Same, Lesser, LiveLess
<1> HIDE DEF r
<1>10. QED
  BY <1>1, <1>4, <1>5, <1>8, <1>9, CleanMove DEF r

\* The host is given back: what is owed on it is being cleaned up, and the
\* secret is deleted next.
LEMMA CleanRelease ==
    ASSUME CleanInv, LeaseInv', NotCreated', LiveLess, NEW w \in Workers,
           ReleaseHost(w)
    PROVE  CleanInv'
<1> DEFINE r == worker[w]
           W == {w}
<1>1. /\ r.pc = "release" /\ r.pc \in Releasing
      /\ r.pc \notin {"idle", "deleteSecret"}
      /\ UNCHANGED <<secret, prov, clean, accounts, abandoned>>
  BY DEF ReleaseHost, At, Releasing, jobVars
<1>2. PICK t \in Tasks : t = TaskOf(w)
  BY <1>1, AtReleasing
<1>3. /\ r.key = UserKey(t) /\ ~Open(tr[t]) /\ CleanTask(t) /\ Cleans(r, t)
      /\ r.obj \in Copy
      /\ \A v \in Workers \ W : worker[v].key # UserKey(t)
  BY <1>1, <1>2, AtReleasing
<1>4. CASE Requeue(w) /\ UNCHANGED storeVars
  <2>1. /\ \A v \in Workers \ {w} : worker'[v] = worker[v]
        /\ worker'[w].pc = "idle" /\ UNCHANGED tr
    BY <1>4, RequeueMove DEF CleanInv, LeaseInv, storeVars
  <2>2. QED
    BY <1>1, <2>1, CleanEnd
<1>5. CASE UpdateTaskRunWithRetry(t, r.obj) /\ Goto(w, "deleteSecret")
  <2>1. /\ \A v \in Workers \ W : worker'[v] = worker[v]
        /\ worker'[w].pc = "deleteSecret" /\ worker'[w].key = r.key
    BY <1>1, <1>5, GotoMove DEF CleanInv, LeaseInv
  <2>2. (\A u \in Tasks \ {t} : tr'[u] = tr[u]) /\ ~Open(tr'[t])
    BY <1>3, <1>5, UpdateFacts DEF CleanInv, LeaseInv
  <2>3. Lesser(t) /\ \A u \in Tasks \ {t} : Same(u)
    BY <1>1, <2>2, AllLesser DEF Same
  <2>4. CleanTask(t)'
    <3>1. ProvisionOK(t)'
      BY <1>3, <2>2, <2>3, ProvisionKept DEF CleanTask
    <3>2. AccountsOK(t)'
      BY <1>1, <1>3 DEF AccountsOK, Cleans, Owed
    <3>3. SecretOK(t)'
      BY <1>3, <2>1 DEF SecretOK
    <3>4. QED
      BY <3>1, <3>2, <3>3 DEF CleanTask
  <2>5. /\ W \in SUBSET Workers
        /\ \A v \in W : worker[v].pc # "deleteSecret"
        /\ \A v \in W, u \in Tasks : Cleans(worker[v], u)'
    BY <1>1, <2>1 DEF Cleans, Choosing, Writing
  <2> HIDE DEF W, r
  <2>6. QED
    BY <1>3, <2>1, <2>3, <2>4, <2>5, CleanFrame
<1>6. QED
  BY <1>2, <1>4, <1>5 DEF ReleaseHost

\* The secret is deleted, or that fails and the secret is abandoned.
LEMMA CleanSecret ==
    ASSUME CleanInv, LeaseInv', NotCreated', LiveLess, NEW w \in Workers,
           \/ DeleteSecret(w) \/ SecretDeleteFails(w)
           \/ ErrorRequeues(w) /\ At(w, "deleteSecret")
    PROVE  CleanInv'
<1> DEFINE r == worker[w]
           W == {w}
<1>1. /\ r.pc = "deleteSecret" /\ r.pc \in Releasing /\ r.pc # "idle"
      /\ UNCHANGED <<tr, prov, clean, accounts>>
      /\ Goto(w, "wake") \/ NotServed(w)
  BY DEF DeleteSecret, SecretDeleteFails, ErrorRequeues, At, Releasing,
         jobVars
<1>2. PICK t \in Tasks : t = TaskOf(w)
  BY <1>1, AtReleasing
<1>3. /\ r.key = UserKey(t) /\ ~Open(tr[t]) /\ CleanTask(t)
      /\ \A v \in Workers \ W : worker[v].key # UserKey(t)
  BY <1>1, <1>2, AtReleasing
<1>4. /\ \A v \in Workers \ W : worker'[v] = worker[v]
      /\ worker'[w].pc \in {"wake", "idle"}
  BY <1>1, GotoMove, RequeueMove DEF CleanInv, LeaseInv
<1>5. \/ UNCHANGED abandoned /\ secret' = [secret EXCEPT ![t] = "none"]
      \/ UNCHANGED secret /\ abandoned' = abandoned \cup {UserKey(t)}
  BY <1>2 DEF DeleteSecret, SecretDeleteFails, ErrorRequeues, Abandon, jobVars
<1>6. secret \in [Tasks -> {"none", "ssh", "error"}]
  BY DEF CleanInv, LeaseInv, CopiesConsistent, RestOK
<1>7. /\ ~OwesSecret(t)'
      /\ \A u \in Tasks : /\ OwesSecret(u)' => OwesSecret(u)
                          /\ \A g \in Hosts : Owed(u, g)' => Owed(u, g)
  BY <1>1, <1>5, <1>6 DEF OwesSecret, Owed
<1>8. Lesser(t) /\ \A u \in Tasks \ {t} : Same(u)
  BY <1>1, <1>7, KeyKinds DEF Same, Lesser, LiveLess
<1>9. CleanTask(t)'
  <2>1. ProvisionOK(t)'
    BY <1>1, <1>3, <1>8, ProvisionKept DEF CleanTask
  <2>2. AccountsOK(t)'
    BY <1>1, <1>3, <1>7 DEF CleanTask, AccountsOK
  <2>3. SecretOK(t)'
    BY <1>7 DEF SecretOK
  <2>4. QED
    BY <2>1, <2>2, <2>3 DEF CleanTask
<1>10. /\ W \in SUBSET Workers
       /\ \A v \in W : worker[v].key = UserKey(t)
       /\ \A v \in W, u \in Tasks : Cleans(worker[v], u)'
  BY <1>3, <1>4 DEF Cleans, Choosing, Writing
<1> HIDE DEF W, r
<1>11. QED
  BY <1>3, <1>4, <1>8, <1>9, <1>10, CleanFrame

\* Ends of reconciles, and the label FinishedWaiting.
LEMMA CleanEnds ==
    ASSUME CleanInv, LeaseInv', NotCreated', LiveLess, NEW w \in Workers,
           \/ WakeOldest(w) \/ WakeFails(w) \/ MarkProcessed(w)
           \/ ErrorRequeues(w) /\ ~At(w, "deleteSecret")
    PROVE  CleanInv'
<1> DEFINE W == {w}
<1>1. /\ worker[w].pc # "deleteSecret"
      /\ UNCHANGED <<secret, prov, clean, accounts, abandoned>>
  BY DEF WakeOldest, WakeFails, MarkProcessed, ErrorRequeues, At, jobVars,
         Abandon
<1>2. /\ \A v \in Workers \ W : worker'[v] = worker[v]
      /\ worker'[w].pc = "idle"
  BY RequeueMove, ReturnMove
  DEF WakeOldest, WakeFails, MarkProcessed, ErrorRequeues, CleanInv, LeaseInv
<1>3. CASE UNCHANGED tr
  BY <1>1, <1>2, <1>3, CleanEnd
<1>4. CASE \E u \in Tasks : Put(u, [tr[u] EXCEPT !.woken = TRUE])
  <2>1. PICK u \in Tasks : Put(u, [tr[u] EXCEPT !.woken = TRUE])
    BY <1>4
  <2> DEFINE o == [tr[u] EXCEPT !.woken = TRUE]
  <2>2. /\ o \in Copy /\ o.assigned = tr[u].assigned
        /\ Open(o) <=> Open(tr[u])
    BY Typed, UpdatedCopies DEF CleanInv, LeaseInv, TaskRun, Open
  <2> HIDE DEF o
  <2>3. /\ \A x \in Tasks \ {u} : tr'[x] = tr[x]
        /\ tr'[u].assigned = tr[u].assigned
        /\ Open(tr'[u]) <=> Open(tr[u])
    BY <2>1, <2>2, PutFacts DEF CleanInv, LeaseInv, o
  <2>4. \A x \in Tasks : worker'[w].key # UserKey(x)
    BY <1>2, IdleKey DEF LeaseInv
  <2>5. /\ W \in SUBSET Workers
        /\ \A v \in W : worker[v].pc # "deleteSecret"
        /\ \A v \in W, x \in Tasks : worker'[v].key # UserKey(x)
    BY <1>1, <2>4
  <2> HIDE DEF W
  <2>6. QED
    BY <1>1, <1>2, <2>3, <2>5, QuietClean
<1>5. QED
  BY <1>3, <1>4 DEF WakeOldest, WakeFails, MarkProcessed, ErrorRequeues,
                    storeVars

\* A call of Allocate fails and the reconcile goes on.
LEMMA CleanErrors ==
    ASSUME CleanInv, LeaseInv', NotCreated', LiveLess, NEW w \in Workers,
           ErrorFailsAllocation(w) \/ LaunchFails(w) \/ ErrorSecretAgain(w)
    PROVE  CleanInv'
<1> DEFINE r == worker[w]
<1>1. /\ UNCHANGED <<tr, secret, prov, clean, accounts, abandoned>>
      /\ r.pc \in Choosing \cup {"configFail", "configSecret"}
      /\ r.pc # "idle" /\ r.pc # "deleteSecret"
  BY DEF ErrorFailsAllocation, LaunchFails, ErrorSecretAgain, At, jobVars,
         Choosing
<1>2. PICK t \in Tasks : t = TaskOf(w) /\ r.key = UserKey(t)
  BY <1>1, KeyOf DEF CleanInv
<1>3. Cleans(r, t)
  BY <1>2 DEF CleanInv
<1>4. \/ r.pc \in Choosing /\ Keep(w, FailPC(r.obj), r.obj)
      \/ r.pc \in Choosing /\ Keep(w, "unassign", Released(r.obj))
      \/ Goto(w, "errorSecret")
  BY DEF ErrorFailsAllocation, LaunchFails, ErrorSecretAgain, At, Choosing
<1>5. /\ \A v \in Workers \ {w} : worker'[v] = worker[v]
      /\ worker'[w].key = r.key
      /\ \/ worker'[w].pc \in {"fail", "unassign"} /\ r.pc \in Choosing
         \/ worker'[w].pc = "errorSecret"
  BY <1>1, <1>4, GotoMove, KeepMove DEF CleanInv, LeaseInv, FailPC
<1>6. Clear(t) => Clear(t)'
  BY <1>1 DEF Clear, Owed, OwesSecret
<1>7. Cleans(worker[w], t)'
  BY <1>3, <1>5, <1>6 DEF Cleans, Writing, Choosing
<1>8. \A u \in Tasks : worker'[w].key = UserKey(u) => u = t
  BY <1>2, <1>5 DEF UserKey
<1>9. \A u \in Tasks : Same(u)
  BY <1>1, AllLesser DEF Same
<1> HIDE DEF r
<1>10. QED
  BY <1>1, <1>5, <1>7, <1>8, <1>9, CleanMove DEF r

\* A reconcile of a user TaskRun that allocates starts with nothing owed: the
\* TaskRun has no host, so no account and no SSH secret either.
LEMMA NothingToLose ==
    ASSUME CleanInv, NEW t \in Tasks, ~Ignored(tr[t]), ~Done(tr[t]),
           NEW w \in Workers, Available(w, UserKey(t))
    PROVE  Clear(t)
<1>1. tr[t].assigned = None /\ Open(tr[t])
  BY ToAllocate DEF CleanInv, Runs, Open
<1>2. CleanTask(t)
  BY DEF CleanInv
<1>3. ~OwesSecret(t)
  BY <1>1, <1>2 DEF CleanTask, SecretOK, Available
<1>4. ASSUME NEW h \in Hosts PROVE ~Owed(t, h)
  <2>1. clean[<<t, h>>] = "none" /\ tr[t].assigned # h
    BY <1>1, <1>2, ConstantsAssumption DEF CleanTask, ProvisionOK
  <2>2. QED
    BY <1>2, <2>1 DEF CleanTask, AccountsOK
<1>5. QED
  BY <1>3, <1>4 DEF Clear

LEMMA CleanStart ==
    ASSUME CleanInv, LeaseInv', NotCreated', LiveLess, NEW w \in Workers,
           NEW t \in Tasks, ReconcileUser(w, t) \/ UserReadFails(w, t)
    PROVE  CleanInv'
<1> DEFINE o == tr[t]
<1>1. /\ Available(w, UserKey(t)) /\ worker[w].pc # "deleteSecret"
      /\ UNCHANGED <<tr, secret, prov, clean, accounts, abandoned>>
  BY DEF ReconcileUser, UserReadFails, jobVars, Available
<1>2. \A u \in Tasks : Same(u)
  BY <1>1, AllLesser DEF Same
<1>3. ASSUME NEW pc, NEW seen, NEW m, NEW h,
             Begin(w, pc, UserKey(t), seen, m, h),
             \/ pc = "deallocate" /\ h = o.assigned
             \/ /\ ~Ignored(o) /\ ~Done(o)
                /\ pc \notin {"deallocate", "release"}
      PROVE  CleanInv'
  <2>1. /\ \A v \in Workers \ {w} : worker'[v] = worker[v]
        /\ worker'[w].pc = pc /\ worker'[w].key = UserKey(t)
        /\ worker'[w].host = h
    BY <1>3, BeginMove DEF CleanInv, LeaseInv
  <2>2. \A u \in Tasks : worker'[w].key = UserKey(u) => u = t
    BY <2>1 DEF UserKey
  <2>3. Cleans(worker[w], t)'
    <3>1. CASE pc = "deallocate" /\ h = o.assigned
      <4>1. \A g \in Hosts : Owed(t, g)' =>
               h = g \/ clean'[<<t, g>>] = "running"
        BY <1>1, <3>1 DEF CleanInv, CleanTask, AccountsOK, Owed
      <4>2. QED
        BY <2>1, <3>1, <4>1 DEF Cleans, Choosing, Writing
    <3>2. CASE /\ ~Ignored(o) /\ ~Done(o)
               /\ pc \notin {"deallocate", "release"}
      <4>1. Clear(t)
        BY <1>1, <3>2, NothingToLose
      <4>2. Clear(t)'
        BY <1>1, <4>1 DEF Clear, Owed, OwesSecret
      <4>3. QED
        BY <2>1, <3>2, <4>2 DEF Cleans
    <3>3. QED
      BY <1>3, <3>1, <3>2
  <2>4. QED
    BY <1>1, <1>2, <2>1, <2>2, <2>3, CleanMove
<1>4. CASE UNCHANGED worker
  BY <1>2, <1>4, CleanSkip
<1>5. {FailPC(o), ConfigPC(o), "wait", "assign"} \cap {"deallocate", "release"}
      = {}
  BY DEF FailPC, ConfigPC
<1>6. CASE ~Ignored(o) /\ ~Done(o) /\ Allocates(w, t, o)
  <2>1. \/ UNCHANGED worker
        \/ \E pc \in {FailPC(o), "wait", "assign"} :
              \E m, h : Begin(w, pc, UserKey(t), o, m, h)
    BY <1>6 DEF Allocates
  <2>2. QED
    BY <1>3, <1>4, <1>5, <1>6, <2>1
<1>7. CASE ReconcileUser(w, t)
  BY <1>3, <1>4, <1>5, <1>6, <1>7 DEF ReconcileUser
<1>8. CASE UserReadFails(w, t)
  BY <1>3, <1>4, <1>5, <1>8 DEF UserReadFails
<1>9. QED
  BY <1>7, <1>8

LEMMA CleanProvisionStart ==
    ASSUME CleanInv, LeaseInv', NotCreated', LiveLess, NEW w \in Workers,
           NEW t \in Tasks, NEW h \in Hosts,
           ReconcileProvision(w, t, h) \/ ProvisionReadFails(w, t, h)
    PROVE  CleanInv'
<1>1. /\ worker[w].pc # "deleteSecret"
      /\ UNCHANGED <<tr, secret, prov, clean, accounts, abandoned>>
  BY DEF ReconcileProvision, ProvisionReadFails, jobVars, Available
<1>2. /\ \A v \in Workers \ {w} : worker'[v] = worker[v]
      /\ worker'[w].key = <<t, h>>
  BY BeginMove DEF ReconcileProvision, ProvisionReadFails, CleanInv, LeaseInv
<1>3. \A u \in Tasks : worker'[w].key # UserKey(u)
  BY <1>2, ConstantsAssumption DEF UserKey
<1>4. \A u \in Tasks : Same(u)
  BY <1>1, AllLesser DEF Same
<1>5. QED
  BY <1>1, <1>2, <1>3, <1>4, CleanMove

\* A TaskRun is created, ends, is cancelled or is deleted.
LEMMA CleanUser ==
    ASSUME CleanInv, LeaseInv', NotCreated', LiveLess, NEW t \in Tasks,
           User(t)
    PROVE  CleanInv'
<1> DEFINE W == {}
<1>1. UNCHANGED <<secret, prov, clean, accounts, abandoned, worker>>
  BY DEF User, CreateTask, TaskCompletes, TaskCancelled, Completes,
         DeleteTask, jobVars
<1>2. tr[t] \in Copy /\ tr[t] \in TaskRun
  BY Typed DEF CleanInv, LeaseInv
<1>3. ASSUME NEW o \in Copy, Put(t, o), o.assigned = tr[t].assigned,
             Open(o) => Open(tr[t])
      PROVE  CleanInv'
  <2>1. /\ \A u \in Tasks \ {t} : tr'[u] = tr[u]
        /\ tr'[t].assigned = tr[t].assigned
        /\ Open(tr'[t]) => Open(tr[t])
    BY <1>3, PutFacts DEF CleanInv, LeaseInv
  <2>2. /\ W \in SUBSET Workers /\ \A v \in W : FALSE
        /\ \A v \in Workers \ W : worker'[v] = worker[v]
    BY <1>1
  <2> HIDE DEF W
  <2>3. QED
    BY <1>1, <2>1, <2>2, QuietClean
<1>4. CASE CreateTask(t)
  <2>1. PICK valid \in BOOLEAN : Put(t, Created(valid))
    BY <1>4 DEF CreateTask
  <2>2. Created(valid) \in Copy /\ Created(valid).assigned = None
    BY <2>1, ConstantCopies DEF Created, Absent
  <2>3. tr[t].assigned = None /\ Open(tr[t])
    BY <1>4 DEF CreateTask, CleanInv, NotCreated, Open
  <2>4. QED
    BY <1>3, <2>1, <2>2, <2>3
<1>5. CASE TaskCompletes(t) \/ TaskCancelled(t)
  <2> DEFINE o == [tr[t] EXCEPT !.phase = "completed"]
  <2>1. Put(t, o)
    BY <1>5 DEF TaskCompletes, TaskCancelled, Completes
  <2>2. o \in Copy /\ o.assigned = tr[t].assigned /\ ~Open(o)
    BY <1>2, UpdatedCopies DEF TaskRun, Open
  <2> HIDE DEF o
  <2>3. QED
    BY <1>3, <2>1, <2>2
<1>6. CASE DeleteTask(t)
  <2> DEFINE o == [tr[t] EXCEPT !.deleting = TRUE]
  <2>1. Put(t, o)
    BY <1>6 DEF DeleteTask
  <2>2. o \in Copy /\ o.assigned = tr[t].assigned /\ ~Open(o)
    BY <1>2, UpdatedCopies DEF TaskRun, Open
  <2> HIDE DEF o
  <2>3. QED
    BY <1>3, <2>1, <2>2
<1>7. QED
  BY <1>4, <1>5, <1>6 DEF User

\* Provisioning fails, or succeeds for a TaskRun that has ended: what it
\* makes is abandoned.
LEMMA CleanProvisionLost ==
    ASSUME CleanInv, LeaseInv', NotCreated', LiveLess, NEW t \in Tasks,
           NEW h \in Hosts,
           \/ ProvisionFails(t, h)
           \/ ProvisionSucceeds(t, h) /\ ~Open(tr[t])
    PROVE  CleanInv'
<1>1. prov[<<t, h>>] = "running" /\ UNCHANGED <<tr, clean, worker>>
  BY DEF ProvisionSucceeds, ProvisionFails
<1>2. PICK pr \in {"succeeded", "failed"} :
         prov' = [prov EXCEPT ![<<t, h>>] = pr]
  BY DEF ProvisionSucceeds, ProvisionFails
<1>3. /\ prov'[<<t, h>>] = pr
      /\ \A u \in Tasks, g \in Hosts :
            <<u, g>> # <<t, h>> => prov'[<<u, g>>] = prov[<<u, g>>]
  BY <1>2, Typed, KeyKinds DEF CleanInv, LeaseInv
<1>4. /\ ~Owed(t, h)'
      /\ \A u \in Tasks, g \in Hosts : Owed(u, g)' => Owed(u, g)
  <2>1. CASE ProvisionFails(t, h)
    <3>1. /\ accounts' \subseteq accounts \cup {<<t, h>>}
          /\ abandoned' = abandoned \cup ({<<t, h>>} \cap accounts')
      BY <2>1 DEF ProvisionFails, Abandon
    <3>2. QED
      BY <3>1 DEF Owed
  <2>2. CASE ProvisionSucceeds(t, h) /\ ~Open(tr[t])
    <3>1. ~(Exists(tr[t]) /\ ~Done(tr[t]))
      BY <2>2 DEF Exists, Done, Open
    <3>2. /\ accounts' = accounts \cup {<<t, h>>}
          /\ abandoned' = abandoned \cup {<<t, h>>, UserKey(t)}
      BY <2>2, <3>1 DEF ProvisionSucceeds, Abandon
    <3>3. QED
      BY <3>2 DEF Owed
  <2>3. QED
    BY <2>1, <2>2
<1>5. \A u \in Tasks : OwesSecret(u)' => OwesSecret(u)
  <2>1. CASE ProvisionFails(t, h)
    BY <2>1 DEF ProvisionFails, Abandon, OwesSecret
  <2>2. CASE ProvisionSucceeds(t, h) /\ ~Open(tr[t])
    <3>1. ~(Exists(tr[t]) /\ ~Done(tr[t]))
      BY <2>2 DEF Exists, Done, Open
    <3>2. /\ secret' = [secret EXCEPT ![t] = "ssh"] \/ UNCHANGED secret
          /\ abandoned' = abandoned \cup {<<t, h>>, UserKey(t)}
      BY <2>2, <3>1 DEF ProvisionSucceeds, Abandon
    <3>3. secret \in [Tasks -> {"none", "ssh", "error"}]
      BY DEF CleanInv, LeaseInv, CopiesConsistent, RestOK
    <3>4. QED
      BY <3>2, <3>3 DEF OwesSecret
  <2>3. QED
    BY <2>1, <2>2
<1>6. ASSUME NEW u \in Tasks PROVE Same(u)
  <2>1. \A g \in Hosts : Live(<<u, g>>)' => Live(<<u, g>>)
    BY KeyKinds DEF LiveLess
  <2>2. \A g \in Hosts :
           \/ prov'[<<u, g>>] \in {prov[<<u, g>>], "none", "succeeded"}
           \/ prov[<<u, g>>] = "running" /\ ~Owed(u, g)'
    BY <1>1, <1>3, <1>4
  <2>3. QED
    BY <1>1, <1>4, <1>5, <2>1, <2>2 DEF Same, Lesser
<1>7. QED
  BY <1>1, <1>6, CleanSkip

\* Provisioning succeeds for an open TaskRun: its host is the TaskRun's, so
\* that the release will find both.
LEMMA CleanProvisioned ==
    ASSUME CleanInv, LeaseInv', NotCreated', LiveLess, NEW t \in Tasks,
           NEW h \in Hosts, ProvisionSucceeds(t, h), Open(tr[t])
    PROVE  CleanInv'
<1> DEFINE W == {}
<1>1. prov[<<t, h>>] = "running" /\ UNCHANGED <<tr, clean, worker>>
  BY DEF ProvisionSucceeds
<1>2. Live(<<t, h>>) /\ tr[t].assigned = h
  BY <1>1 DEF Live, CleanInv, LeaseInv, Held
<1>3. /\ prov'[<<t, h>>] = "succeeded"
      /\ \A u \in Tasks, g \in Hosts :
            <<u, g>> # <<t, h>> => prov'[<<u, g>>] = prov[<<u, g>>]
  BY Typed, KeyKinds DEF ProvisionSucceeds, CleanInv, LeaseInv
<1>4. \A u \in Tasks, g \in Hosts :
         <<u, g>> # <<t, h>> => (Owed(u, g)' => Owed(u, g))
  BY DEF ProvisionSucceeds, Abandon, Owed
<1>5. \A u \in Tasks \ {t} : OwesSecret(u)' => OwesSecret(u)
  <2>1. /\ secret' = [secret EXCEPT ![t] = "ssh"] \/ UNCHANGED secret
        /\ abandoned \subseteq abandoned'
    BY DEF ProvisionSucceeds, Abandon
  <2>2. QED
    BY <2>1 DEF OwesSecret, CleanInv, LeaseInv, CopiesConsistent, RestOK
<1>6. ASSUME NEW u \in Tasks \ {t} PROVE Same(u)
  <2>1. \A g \in Hosts : Live(<<u, g>>)' => Live(<<u, g>>)
    BY KeyKinds DEF LiveLess
  <2>2. \A g \in Hosts : <<u, g>> # <<t, h>>
    OBVIOUS
  <2>3. QED
    BY <1>1, <1>3, <1>4, <1>5, <2>1, <2>2 DEF Same, Lesser
<1>7. CleanTask(t) /\ \A g \in Hosts : clean[<<t, g>>] = "none"
  BY DEF CleanInv, CleanTask, ProvisionOK
<1>8. \A g \in Hosts : Owed(t, g)' => g = h
  <2> SUFFICES ASSUME NEW g \in Hosts, Owed(t, g)', g # h PROVE FALSE
    OBVIOUS
  <2>1. Owed(t, g)
    BY <1>4
  <2>2. QED
    BY <1>2, <1>7, <2>1 DEF CleanTask, ProvisionOK
<1>9. ProvisionOK(t)'
  <2> SUFFICES ASSUME NEW g \in Hosts
               PROVE  /\ prov'[<<t, g>>] = "failed" => ~Owed(t, g)'
                      /\ Live(<<t, g>>)' => g = h
    BY <1>1, <1>3, <1>7, <1>8 DEF ProvisionOK
  <2>1. prov'[<<t, g>>] = "failed" => ~Owed(t, g)'
    BY <1>3, <1>8
  <2>2. Live(<<t, g>>)' => Live(<<t, g>>)
    BY KeyKinds DEF LiveLess
  <2>3. QED
    BY <1>2, <2>1, <2>2 DEF CleanInv, LeaseInv, OneLease
<1>10. CleanTask(t)'
  BY <1>1, <1>2, <1>7, <1>8, <1>9, ConstantsAssumption
  DEF CleanTask, AccountsOK, SecretOK
<1>11. \A v \in Workers : worker[v].key # UserKey(t)
  <2> SUFFICES ASSUME NEW v \in Workers, worker[v].key = UserKey(t)
               PROVE  FALSE
    OBVIOUS
  <2>1. worker[v].pc \in Allocating /\ AllocatingOK(worker[v], t)
    BY UserReconcile DEF CleanInv
  <2>2. QED
    BY <1>2, <2>1 DEF AllocatingOK, NoLive
<1>12. /\ W \in SUBSET Workers /\ \A v \in W : FALSE
       /\ \A v \in Workers \ W : worker'[v] = worker[v]
  BY <1>1
<1> HIDE DEF W
<1>13. QED
  BY <1>6, <1>10, <1>11, <1>12, CleanFrame

\* Tekton ends a cleanup TaskRun, or it is deleted afterwards: an account is
\* gone, or abandoned, when its cleanup does not run any more.
LEMMA CleanCleaned ==
    ASSUME CleanInv, LeaseInv', NotCreated', LiveLess, NEW t \in Tasks,
           NEW h \in Hosts,
           CleanSucceeds(t, h) \/ CleanFails(t, h) \/ ReconcileClean(t, h)
    PROVE  CleanInv'
<1> DEFINE W == {}
<1>1. UNCHANGED <<tr, secret, prov, worker>> /\ clean[<<t, h>>] # "none"
  BY DEF CleanSucceeds, CleanFails, ReconcileClean, Finished
<1>2. CleanTask(t) /\ ~Open(tr[t])
  BY <1>1 DEF CleanInv, CleanTask, ProvisionOK
<1>3. \A u \in Tasks, g \in Hosts :
         <<u, g>> # <<t, h>> => clean'[<<u, g>>] = clean[<<u, g>>]
  BY KeyKinds DEF CleanSucceeds, CleanFails, ReconcileClean, CleanInv,
                  LeaseInv, CopiesConsistent, RestOK
<1>4. \A u \in Tasks, g \in Hosts : Owed(u, g)' => Owed(u, g)
  BY DEF CleanSucceeds, CleanFails, ReconcileClean, Owed, Abandon
<1>5. \A u \in Tasks : OwesSecret(u)' => OwesSecret(u)
  BY DEF CleanSucceeds, CleanFails, ReconcileClean, OwesSecret, Abandon
<1>6. \/ ~Owed(t, h)'
      \/ clean[<<t, h>>] # "running"
  BY DEF CleanSucceeds, CleanFails, ReconcileClean, Finished, Owed, Abandon
<1>7. \A u \in Tasks : Lesser(u)
  BY <1>1, <1>4, <1>5, KeyKinds DEF Lesser, LiveLess
<1>8. \A u \in Tasks \ {t} : Same(u)
  BY <1>1, <1>3, <1>7 DEF Same
<1>9. ASSUME NEW g \in Hosts, Owed(t, g)'
      PROVE  Owed(t, g) /\ clean'[<<t, g>>] = "running"
  <2>1. Owed(t, g)
    BY <1>4, <1>9
  <2>2. clean[<<t, g>>] = "running"
    BY <1>1, <1>2, <2>1 DEF CleanTask, AccountsOK
  <2>3. <<t, g>> # <<t, h>>
    BY <1>6, <1>9, <2>2
  <2>4. QED
    BY <1>3, <2>1, <2>2, <2>3
<1>10. CleanTask(t)'
  <2>1. ProvisionOK(t)'
    BY <1>1, <1>2, <1>7, ProvisionKept DEF CleanTask
  <2>2. AccountsOK(t)'
    BY <1>9 DEF AccountsOK
  <2>3. SecretOK(t)'
    BY <1>1, <1>2, <1>5 DEF CleanTask, SecretOK
  <2>4. QED
    BY <2>1, <2>2, <2>3 DEF CleanTask
<1>11. ASSUME NEW v \in Workers, worker[v].key = UserKey(t)
       PROVE  Cleans(worker[v], t)'
  <2>1. Cleans(worker[v], t)
    BY <1>11 DEF CleanInv
  <2>2. Clear(t) => Clear(t)'
    BY <1>4, <1>5 DEF Clear
  <2>3. QED
    BY <1>1, <1>9, <2>1, <2>2 DEF Cleans
<1>12. /\ W \in SUBSET Workers /\ \A v \in W : FALSE
       /\ \A v \in Workers \ W : worker'[v] = worker[v]
  BY <1>1
<1> HIDE DEF W
<1>13. QED
  BY <1>8, <1>10, <1>11, <1>12, CleanFrame

\* A provision TaskRun that was processed is deleted.
LEMMA CleanRemove ==
    ASSUME CleanInv, LeaseInv', NotCreated', LiveLess, NEW w \in Workers,
           NEW t \in Tasks, NEW h \in Hosts, RemoveProvision(w, t, h)
    PROVE  CleanInv'
<1>1. /\ UNCHANGED <<tr, secret, clean, accounts, abandoned, worker>>
      /\ prov' = [prov EXCEPT ![<<t, h>>] = "none"]
  BY DEF RemoveProvision
<1>2. \A u \in Tasks, g \in Hosts :
         prov'[<<u, g>>] \in {prov[<<u, g>>], "none"}
  BY <1>1, Typed, KeyKinds DEF CleanInv, LeaseInv
<1>3. \A u \in Tasks : Same(u)
  BY <1>1, <1>2, KeyKinds DEF Same, Lesser, LiveLess, Owed, OwesSecret
<1>4. QED
  BY <1>1, <1>3, CleanSkip

LEMMA InitClean == Init => CleanInv /\ VersionsOK
<1> SUFFICES ASSUME Init PROVE CleanInv /\ VersionsOK
  OBVIOUS
<1>1. LeaseInv /\ NotCreated /\ VersionsOK
  BY InitLease, InitServed DEF ServedInv
<1>2. \A t \in Tasks :
         /\ secret[t] = "none"
         /\ \A h \in Hosts : /\ prov[<<t, h>>] = "none"
                             /\ clean[<<t, h>>] = "none"
                             /\ ~Owed(t, h)
  BY KeyKinds DEF Init, Owed
<1>3. \A l \in Leases : ~Live(l)
  BY DEF Init, Live
<1>4. \A t \in Tasks : CleanTask(t)
  BY <1>2, <1>3, KeyKinds
  DEF CleanTask, ProvisionOK, AccountsOK, SecretOK, OwesSecret
<1>5. \A w \in Workers : worker[w].pc = "idle"
  BY DEF Init, Idle
<1>6. \A w \in Workers, t \in Tasks : worker[w].key # UserKey(t)
  BY <1>1, <1>5, Typed, KeyKinds DEF LeaseInv
<1>7. QED
  BY <1>1, <1>4, <1>6 DEF CleanInv

LEMMA NextClean ==
    ASSUME OutcomeOnce, CleanInv, [Next]_vars
    PROVE  CleanInv'
<1>1. LeaseInv' /\ NotCreated'
  BY NextLease DEF CleanInv
<1>2. CASE \E w \in Workers : LaunchProvision(w)
  BY <1>1, <1>2, CleanLaunch
<1>3. CASE \A w \in Workers : ~LaunchProvision(w)
  <2>1. LiveLess
    BY <1>3, LiveStep DEF CleanInv
  <2>2. CASE UNCHANGED vars \/ Deliver \/ \E t \in Tasks : TimerFires(t)
    <3>1. UNCHANGED <<tr, secret, prov, clean, accounts, abandoned, worker>>
      BY <2>2 DEF vars, Deliver, TimerFires, jobVars
    <3>2. \A t \in Tasks : Same(t)
      BY <2>1, <3>1, AllLesser DEF Same
    <3>3. QED
      BY <1>1, <3>1, <3>2, CleanSkip
  <2>3. ASSUME NEW w \in Workers, WorkerStep(w) PROVE CleanInv'
    BY <1>1, <1>3, <2>1, <2>3, CleanAllocating, CleanFinalizer,
       CleanErrorSecret, CleanDeallocate, CleanRelease, CleanSecret,
       CleanUnassignFailed, CleanEnds
    DEF WorkerStep
  <2>4. ASSUME NEW w \in Workers, WorkerFault(w) PROVE CleanInv'
    BY <1>1, <2>1, <2>4, CleanEnds, CleanSecret, CleanErrors, CleanLaunch,
       CleanDeallocateFails, CleanStart, CleanProvisionStart
    DEF WorkerFault
  <2>5. ASSUME NEW w \in Workers, NEW t \in Tasks, ReconcileUser(w, t)
        PROVE  CleanInv'
    BY <1>1, <2>1, <2>5, CleanStart
  <2>6. ASSUME NEW w \in Workers, NEW t \in Tasks, NEW h \in Hosts,
               ReconcileProvisionKey(w, t, h)
        PROVE  CleanInv'
    BY <1>1, <2>1, <2>6, CleanProvisionStart, CleanRemove
    DEF ReconcileProvisionKey
  <2>7. ~Restart
    BY DEF Restart, Fault, OutcomeOnce
  <2>8. ASSUME NEW t \in Tasks, User(t) PROVE CleanInv'
    BY <1>1, <2>1, <2>8, CleanUser
  <2>9. ASSUME NEW t \in Tasks, NEW h \in Hosts,
               Job(t, h) \/ ReconcileClean(t, h)
        PROVE  CleanInv'
    BY <1>1, <2>1, <2>9, CleanProvisionLost, CleanProvisioned, CleanCleaned
    DEF Job
  <2>10. QED
    BY <2>2, <2>3, <2>4, <2>5, <2>6, <2>7, <2>8, <2>9 DEF Next
<1>4. QED
  BY <1>2, <1>3

\* Whatever ends a TaskRun (completion, cancellation, deletion) and whatever
\* call fails on the way, once it is over and nothing on its behalf is in
\* progress no account and no SSH secret of it is left but what is recorded
\* as abandoned: what a failed provisioning had made, what was made after the
\* TaskRun had ended, and what the failed cleanup, the failed call that was
\* to start it or the failed deletion of the secret left.  handleHostAssigned
\* starts the cleanup on the host before it removes AssignedHost and the
\* finalizer, and deletes the secret after that; no other writer takes the
\* host from the TaskRun between.
THEOREM NothingLeft ==
    ASSUME OutcomeOnce
    PROVE  Spec => []NoLeftovers
<1> DEFINE Inv == CleanInv /\ VersionsOK
<1>1. Init => Inv
  BY InitClean
<1>2. Inv /\ [Next]_vars => Inv'
  BY NextClean, NextVersions DEF CleanInv
<1>3. Inv => NoLeftovers
  <2> SUFFICES ASSUME Inv, NEW t \in Tasks, Over(t), Quiet(t)
               PROVE  Clear(t)
    BY DEF NoLeftovers, Clear, Owed, OwesSecret
  <2>1. CleanTask(t) /\ tr[t] \in Copy
    BY Typed DEF CleanInv, LeaseInv
  <2>2. tr[t].assigned = None
    BY <2>1 DEF Over, Copy, VersionsOK, NoHostIfAbsent, Exists
  <2>3. \A w \in Workers : worker[w].key # UserKey(t)
    BY KeyKinds DEF Quiet
  <2>4. ~OwesSecret(t)
    BY <2>1, <2>2, <2>3 DEF CleanTask, SecretOK
  <2>5. ASSUME NEW h \in Hosts PROVE ~Owed(t, h)
    <3>1. clean[<<t, h>>] = "none" /\ tr[t].assigned # h
      BY <2>2, ConstantsAssumption DEF Quiet
    <3>2. QED
      BY <2>1, <3>1 DEF CleanTask, AccountsOK
  <2>6. QED
    BY <2>4, <2>5 DEF Clear
<1> HIDE DEF Inv
<1>4. QED
  BY <1>1, <1>2, <1>3, PTL DEF Spec
=============================================================================
