------------------------- MODULE HostPoolWakeProofs -------------------------
(***************************************************************************)
(* Proof that no wakeup of HostPool is lost: a TaskRun that waits for a    *)
(* host is never left behind with a host free and nothing under way.  For  *)
(* every number of TaskRuns, hosts and workers, every concurrency limit    *)
(* and any lag of the cache within PromptWatch.                            *)
(***************************************************************************)
EXTENDS HostPoolLeaseProofs, FiniteSetTheorems

\* What the theorem assumes.  A wakeup is one update for one TaskRun, so it
\* is lost when a call on its way fails, or when the TaskRun that has it is
\* cancelled or deleted; the timer of a waiting TaskRun fires once.
WakesUp ==
    /\ PromptWatch /\ OutcomeOnce /\ IsFiniteSet(Hosts)
    /\ FaultKinds \cap {"assign", "wait", "launch", "unassign", "read",
                        "deleteSecret", "wake"} = {}
    /\ Mishaps \cap {"cancel", "delete"} = {}

(***************************************************************************)
(* The invariant.                                                          *)
(***************************************************************************)

\* The versions of t that are cached or on their way to the cache, and those
\* that a later one follows.
Events(t) == {i \in 1..Len(watch) : watch[i].task = t}
Versions(t) == {cache[t]} \cup {watch[i].obj : i \in Events(t)}
Overtaken(t) ==
    {o \in Versions(t) :
        \/ o = cache[t] /\ ~Fresh(t)
        \/ \E i, j \in Events(t) : i < j /\ o = watch[i].obj}

\* t waits, and there is a host that it could have; a version of t that the
\* cache has or will have holds a host.
Eligible(o) == \E h \in Hosts \ o.failed : Concurrency[h] > 0
Stuck(t) == tr[t].waiting /\ Eligible(tr[t])
Seen(t) == \E o \in Versions(t) : o.assigned # None

\* What makes a TaskRun that waits go on, in the end: a release that is to
\* come and wakes the oldest, one that is about to, a TaskRun that was woken,
\* the retry of a TaskRun that waits, or one that is bound to find a host.
Assigning(t) ==
    \E w \in Workers : worker[w].pc = "assign" /\ worker[w].key = UserKey(t)
Hope ==
    \/ \E t \in Tasks : tr[t].finalizer
    \/ \E w \in Workers : worker[w].pc \in {"deleteSecret", "wake"}
    \/ WokenBefore # {}
    \/ \E t \in Tasks : Stuck(t) /\ (t \in timers \/ Assigning(t))
    \/ \E t \in Tasks : Stuck(t) /\ t \in queue /\ \A u \in Tasks : ~Seen(u)
Hoped == (\E t \in Tasks : Stuck(t)) => Hope

\* A TaskRun that waits is running, without a secret or a host; what the
\* cache shows of it lags behind only while its timer is set; a version that
\* waits is overtaken only by a host's, or by a wakeup.
Waits(t) ==
    /\ ~tr[t].deleting /\ tr[t].phase # "gone"
    /\ tr[t].phase = "absent" => ~tr[t].finalizer
    /\ ~Runs(tr[t]) => \A o \in Versions(t) : ~o.waiting
    /\ tr[t].waiting => /\ tr[t].valid /\ secret[t] = "none"
                        /\ Hosts \ tr[t].failed # {}
    /\ \A o \in Versions(t) : o.waiting => o.assigned = None
    /\ tr[t].waiting /\ t \notin timers => \A o \in Versions(t) : o.waiting
    /\ \A o \in Overtaken(t) :
          o.waiting => tr[t].finalizer \/ (tr[t].waiting /\ tr[t].woken)

\* The outcome of a provision TaskRun cannot take the finalizer of a TaskRun
\* that is done: all its versions have it.
Outcomes(t) == {h \in Hosts : Live(<<t, h>>) /\ prov[<<t, h>>] # "succeeded"}
KeepsFinalizer(t) ==
    ~Runs(tr[t]) /\ tr[t].finalizer /\ Outcomes(t) # {}
    => \A o \in Versions(t) : o.finalizer

\* What the reconciles in progress rely on.
AllocationWaits(r, t) ==
    /\ r.pc \notin {"unassign", "configFail", "configSecret"}
    /\ r.pc \in {"assign", "wait", "launch"} => Runs(tr[t]) /\ secret[t] = "none"
    /\ r.pc = "wait" => /\ ~tr[t].waiting /\ tr[t].valid
                        /\ r.obj = [tr[t] EXCEPT !.waiting = TRUE]
                        /\ Hosts \ tr[t].failed # {}
    /\ r.pc = "assign" => ~r.obj.waiting /\ r.obj.finalizer
    /\ r.pc \in {"launch", "fail", "errorSecret"} => ~tr[t].waiting
    /\ r.pc \in {"fail", "deallocate", "release"} => ~r.obj.waiting
    /\ r.pc = "release" => ~r.obj.finalizer
OutcomeWaits(r, t) ==
    r.pc = "unassignFailed" =>
        ~r.obj.waiting /\ (tr[t].finalizer => r.obj.finalizer)
ReconcileWaits(r, t) ==
    /\ r.key = UserKey(t) => AllocationWaits(r, t)
    /\ \A h \in Hosts : r.key = <<t, h>> => OutcomeWaits(r, t)

WakeTask(t) ==
    /\ Waits(t) /\ KeepsFinalizer(t)
    /\ \A w \in Workers : ReconcileWaits(worker[w], t)

WakeInv == Hoped /\ \A t \in Tasks : WakeTask(t)

(***************************************************************************)
(* The versions of a TaskRun.                                              *)
(***************************************************************************)

\* The newest is the stored one, and all others are overtaken.
LEMMA VersionFacts ==
    ASSUME CopiesConsistent, VersionsOK, NEW t \in Tasks
    PROVE  /\ tr[t] \in Versions(t) /\ cache[t] \in Versions(t)
           /\ Overtaken(t) \subseteq Versions(t)
           /\ Versions(t) \subseteq Overtaken(t) \cup {tr[t]}
           /\ Fresh(t) => Versions(t) = {tr[t]}
           /\ ~Fresh(t) => cache[t] \in Overtaken(t)
           /\ Versions(t) \subseteq Copy
<1>1. Newest(t) /\ Len(watch) \in Nat /\ cache[t] \in Copy
      /\ \A i \in 1..Len(watch) : watch[i].obj \in Copy
  BY WatchTyped DEF VersionsOK, CopiesConsistent, StoreOK
<1>2. Versions(t) \subseteq Copy /\ cache[t] \in Versions(t)
  BY <1>1 DEF Versions, Events
<1>3. Overtaken(t) \subseteq Versions(t)
  BY DEF Overtaken
<1>4. ~Fresh(t) => cache[t] \in Overtaken(t)
  BY DEF Overtaken, Versions
<1>5. CASE cache[t] = tr[t] /\ Fresh(t)
  <2>1. Events(t) = {}
    BY <1>5 DEF Events, Fresh
  <2>2. Versions(t) = {tr[t]}
    BY <1>5, <2>1 DEF Versions
  <2>3. QED
    BY <1>2, <1>3, <1>5, <2>2
<1>6. ASSUME NEW i \in 1..Len(watch), watch[i].task = t, watch[i].obj = tr[t],
             \A j \in (i + 1)..Len(watch) : watch[j].task # t
      PROVE  /\ tr[t] \in Versions(t) /\ ~Fresh(t)
             /\ Versions(t) \subseteq Overtaken(t) \cup {tr[t]}
  <2>1. i \in Events(t) /\ ~Fresh(t)
    BY <1>6 DEF Events, Fresh
  <2>2. tr[t] \in Versions(t)
    BY <1>6, <2>1 DEF Versions
  <2>3. ASSUME NEW j \in Events(t), j # i PROVE watch[j].obj \in Overtaken(t)
    <3>1. j \in 1..Len(watch) /\ watch[j].task = t
      BY DEF Events
    <3>2. j < i
      BY <1>1, <1>6, <2>3, <3>1
    <3>3. QED
      BY <2>1, <3>2 DEF Overtaken, Versions
  <2>4. QED
    BY <1>4, <1>6, <2>1, <2>2, <2>3 DEF Versions
<1>7. QED
  BY <1>1, <1>2, <1>3, <1>4, <1>5, <1>6 DEF Newest

\* What a step does to the versions of a TaskRun that it does not store, and
\* to those of the one it stores.
Fewer(t) == /\ Versions(t)' \subseteq Versions(t)
            /\ Overtaken(t)' \subseteq Overtaken(t)
Stored(t) ==
    /\ \A u \in Tasks \ {t} : tr'[u] = tr[u] /\ Fewer(u)
    /\ Versions(t)' \subseteq Versions(t) \cup {tr'[t]}
    /\ Overtaken(t)' \subseteq Versions(t)

LEMMA FewerIfSame ==
    ASSUME UNCHANGED <<watch, cache>>, NEW t
    PROVE  Fewer(t) /\ Versions(t)' = Versions(t)
BY DEF Fewer, Versions, Overtaken, Events, Fresh

LEMMA PutStores ==
    ASSUME CopiesConsistent, NEW t \in Tasks, NEW o \in Copy, Put(t, o),
           UNCHANGED cache
    PROVE  Stored(t) /\ tr'[t] = Settled(o)
<1>1. tr'[t] = Settled(o) /\ \A u \in Tasks \ {t} : tr'[u] = tr[u]
  BY PutFacts
<1>2. CASE UNCHANGED storeVars
  <2>1. \A u : Fewer(u) /\ Versions(u)' = Versions(u)
    BY <1>2, FewerIfSame DEF storeVars
  <2>2. Overtaken(t)' \subseteq Versions(t)
    BY <2>1 DEF Overtaken
  <2>3. QED
    BY <1>1, <2>1, <2>2 DEF Stored
<1>3. CASE watch' = Append(watch, [task |-> t, obj |-> tr'[t]])
  <2> DEFINE n == Len(watch)
             e == [task |-> t, obj |-> tr'[t]]
  <2>1. tr'[t] \in Copy
    BY <1>1, UpdatedCopies
  <2>2. watch \in Seq([task : Tasks, obj : Copy]) /\ n \in Nat
    BY WatchTyped
  <2>3. /\ Len(watch') = n + 1 /\ watch'[n + 1] = e
        /\ \A i \in 1..n : watch'[i] = watch[i]
    BY <1>3, <2>1, <2>2
  <2>4. e.task = t /\ e.obj = tr'[t]
    OBVIOUS
  <2> HIDE DEF n, e
  <2>5. ASSUME NEW u \in Tasks \ {t} PROVE Fewer(u)
    <3>1. Events(u)' = Events(u)
      <4>1. \A i \in 1..(n + 1) : i \in 1..n \/ i = n + 1
        BY <2>2
      <4>2. 1..n \subseteq 1..(n + 1)
        BY <2>2
      <4>3. QED
        BY <2>3, <2>4, <4>1, <4>2 DEF Events, n
    <3>2. \A i \in Events(u) : watch'[i] = watch[i]
      BY <2>3 DEF Events, n
    <3>3. Versions(u)' = Versions(u)
      BY <3>1, <3>2 DEF Versions
    <3>4. Fresh(u)' <=> Fresh(u)
      BY <3>1 DEF Events, Fresh
    <3>5. Overtaken(u)' \subseteq Overtaken(u)
      BY <3>1, <3>2, <3>3, <3>4 DEF Overtaken
    <3>6. QED
      BY <3>3, <3>5 DEF Fewer
  <2>6. ASSUME NEW i \in Events(t)'
        PROVE  \/ i = n + 1 /\ watch'[i].obj = tr'[t]
               \/ i \in 1..n /\ watch'[i].obj \in Versions(t)
    <3>1. i \in 1..(n + 1) /\ watch'[i].task = t
      BY <2>3, <2>6 DEF Events
    <3>2. i \in 1..n \/ i = n + 1
      BY <2>2, <3>1
    <3>3. i \in 1..n => i \in Events(t)
      BY <2>3, <3>1 DEF Events, n
    <3>4. QED
      BY <2>3, <2>4, <3>2, <3>3 DEF Versions
  <2>7. Versions(t)' \subseteq Versions(t) \cup {tr'[t]}
    BY <2>6 DEF Versions
  <2>8. ASSUME NEW x \in Overtaken(t)' PROVE x \in Versions(t)
    <3>1. CASE x = cache'[t]
      BY <3>1 DEF Versions
    <3>2. CASE x # cache'[t]
      <4>1. PICK i \in Events(t)', j \in Events(t)' : i < j /\ x = watch'[i].obj
        BY <2>8, <3>2 DEF Overtaken
      <4>2. i # n + 1
        BY <2>2, <2>6, <4>1
      <4>3. QED
        BY <2>6, <4>1, <4>2
    <3>3. QED
      BY <3>1, <3>2
  <2>9. QED
    BY <1>1, <2>5, <2>7, <2>8 DEF Stored
<1>4. QED
  BY <1>1, <1>2, <1>3 DEF Put

LEMMA DeliverFewer ==
    ASSUME CopiesConsistent, Deliver, NEW u \in Tasks
    PROVE  Fewer(u)
<1> DEFINE n == Len(watch)
           t == watch[1].task
<1>1. /\ n \in Nat /\ n >= 1 /\ Len(watch') = n - 1
      /\ \A i \in 1..(n - 1) : watch'[i] = watch[i + 1]
      /\ Head(watch) = watch[1] /\ t \in Tasks
  <2>1. watch # <<>> /\ watch' = Tail(watch)
    BY DEF Deliver
  <2>2. QED
    BY <2>1, WatchTyped
<1>2. /\ cache'[t] = watch[1].obj
      /\ \A v \in Tasks \ {t} : cache'[v] = cache[v]
  BY <1>1 DEF Deliver, CopiesConsistent, StoreOK
<1> HIDE DEF n
<1>3. ASSUME NEW i \in Events(u)'
      PROVE  /\ i \in Nat /\ i >= 1 /\ i + 1 \in Events(u)
             /\ watch'[i].obj = watch[i + 1].obj
  <2>1. i \in 1..(n - 1) /\ watch'[i].task = u
    BY <1>1, <1>3 DEF Events
  <2>2. i + 1 \in 1..n /\ watch'[i] = watch[i + 1] /\ i \in Nat /\ i >= 1
    BY <1>1, <2>1
  <2>3. QED
    BY <2>1, <2>2 DEF Events, n
<1>4. u = t => 1 \in Events(u)
  BY <1>1 DEF Events, n
<1>5. \/ u # t /\ cache'[u] = cache[u]
      \/ u = t /\ cache'[u] = watch[1].obj
  BY <1>2
<1>6. Versions(u)' \subseteq Versions(u)
  BY <1>3, <1>4, <1>5 DEF Versions
<1>7. ASSUME NEW x \in Overtaken(u)' PROVE x \in Overtaken(u)
  <2>1. x \in Versions(u)
    BY <1>6, <1>7 DEF Overtaken
  <2>2. ASSUME NEW i \in Events(u)', NEW j \in Events(u)', i < j,
               x = watch'[i].obj
        PROVE  x \in Overtaken(u)
    <3>1. /\ i + 1 \in Events(u) /\ j + 1 \in Events(u) /\ i + 1 < j + 1
          /\ x = watch[i + 1].obj
      BY <1>3, <2>2
    <3>2. QED
      BY <2>1, <3>1 DEF Overtaken
  <2>3. ASSUME x = cache'[u], ~Fresh(u)' PROVE x \in Overtaken(u)
    <3>1. PICK i \in Events(u)' : TRUE
      BY <2>3 DEF Fresh, Events
    <3>2. i + 1 \in Events(u) /\ 1 < i + 1
      BY <1>3
    <3>3. ~Fresh(u)
      BY <3>2 DEF Events, Fresh
    <3>4. CASE u = t
      BY <1>4, <1>5, <2>1, <2>3, <3>2, <3>4 DEF Overtaken
    <3>5. CASE u # t
      BY <1>5, <2>1, <2>3, <3>3, <3>5 DEF Overtaken
    <3>6. QED
      BY <3>4, <3>5
  <2>4. QED
    BY <1>7, <2>2, <2>3 DEF Overtaken
<1>8. QED
  BY <1>6, <1>7 DEF Fewer

(***************************************************************************)
(* Steps that leave a TaskRun alone.                                       *)
(***************************************************************************)

\* No outcome comes to be handled.
LEMMA OutcomesKept ==
    ASSUME NEW W \in SUBSET Workers, NEW t \in Tasks,
           \A v \in Workers \ W : worker'[v] = worker[v],
           \A v \in W : worker[v].pc # "mark",
           UNCHANGED <<prov, processed>>
    PROVE  Outcomes(t)' \subseteq Outcomes(t)
<1> SUFFICES ASSUME NEW h \in Outcomes(t)' PROVE h \in Outcomes(t)
  OBVIOUS
<1>1. h \in Hosts /\ Live(<<t, h>>)' /\ prov'[<<t, h>>] # "succeeded"
  BY DEF Outcomes
<1>2. Live(<<t, h>>)
  BY <1>1, LiveKept, KeyKinds
<1>3. QED
  BY <1>1, <1>2 DEF Outcomes

\* A step that does not store t nor change its secret, of the workers of W.
LEMMA WakeFrame ==
    ASSUME NEW t \in Tasks, WakeTask(t), tr'[t] = tr[t],
           secret'[t] = secret[t] \/ ~tr[t].waiting,
           Fewer(t), Outcomes(t)' \subseteq Outcomes(t),
           t \in timers /\ tr[t].waiting
           => t \in timers' \/ \A o \in Versions(t)' : o.waiting,
           NEW W \in SUBSET Workers,
           \A v \in Workers \ W :
               /\ worker'[v] = worker[v]
               /\ \/ secret'[t] = secret[t]
                  \/ worker[v].key # UserKey(t)
                  \/ worker[v].pc \notin {"assign", "wait", "launch"},
           \A v \in W : ReconcileWaits(worker[v], t)'
    PROVE  WakeTask(t)'
<1>1. Waits(t)'
  BY DEF WakeTask, Waits, Fewer
<1>2. KeepsFinalizer(t)'
  BY DEF WakeTask, KeepsFinalizer, Fewer
<1>3. ASSUME NEW v \in Workers \ W PROVE ReconcileWaits(worker[v], t)'
  <2>1. ReconcileWaits(worker[v], t) /\ worker'[v] = worker[v]
    BY DEF WakeTask
  <2>2. CASE secret'[t] = secret[t]
    BY <2>1, <2>2 DEF ReconcileWaits, AllocationWaits, OutcomeWaits
  <2>3. CASE secret'[t] # secret[t]
    BY <2>1, <2>3 DEF ReconcileWaits, AllocationWaits, OutcomeWaits
  <2>4. QED
    BY <2>2, <2>3
<1>4. QED
  BY <1>1, <1>2, <1>3 DEF WakeTask

\* The workers but w stay as they are, and w has no key but one of t.
OnlyAbout(w, t) ==
    /\ \A v \in Workers \ {w} : worker'[v] = worker[v]
    /\ \/ worker'[w] = Idle \/ worker'[w].key = UserKey(t)
       \/ \E h \in Hosts : worker'[w].key = <<t, h>>

\* A worker without a key of t relies on nothing of t.
LEMMA NothingToRely ==
    ASSUME NEW t \in Tasks, NEW r,
           \/ r = Idle
           \/ \E u \in Tasks \ {t} :
                 r.key = UserKey(u) \/ \E h \in Hosts : r.key = <<u, h>>
    PROVE  r.key # UserKey(t) /\ \A h \in Hosts : r.key # <<t, h>>
<1>1. CASE r = Idle
  BY <1>1, IdleNoKey
<1>2. ASSUME NEW u \in Tasks \ {t},
             r.key = UserKey(u) \/ \E h \in Hosts : r.key = <<u, h>>
      PROVE  r.key # UserKey(t) /\ \A h \in Hosts : r.key # <<t, h>>
  <2>1. t \in Tasks \ {u}
    BY <1>2
  <2>2. QED
    BY <1>2, <2>1, OtherKeys
<1>3. QED
  BY <1>1, <1>2

\* A step about t leaves what is said of the other TaskRuns.
LEMMA OthersWake ==
    ASSUME WakeInv, NEW w \in Workers, NEW t \in Tasks, OnlyAbout(w, t),
           \A u \in Tasks \ {t} :
               /\ tr'[u] = tr[u] /\ secret'[u] = secret[u] /\ Fewer(u)
               /\ Outcomes(u)' \subseteq Outcomes(u),
           timers \subseteq timers',
           NEW u \in Tasks \ {t}
    PROVE  WakeTask(u)'
<1> DEFINE W == {w}
<1>1. \A v \in Workers \ W : worker'[v] = worker[v]
  BY DEF OnlyAbout
<1>2. worker'[w].key # UserKey(u) /\ \A h \in Hosts : worker'[w].key # <<u, h>>
  BY NothingToRely DEF OnlyAbout
<1>3. \A v \in W : ReconcileWaits(worker[v], u)'
  BY <1>2 DEF ReconcileWaits
<1>4. W \in SUBSET Workers /\ WakeTask(u)
  BY DEF WakeInv
<1> HIDE DEF W
<1>5. QED
  BY <1>1, <1>3, <1>4, WakeFrame

\* A reconcile about t goes on, starts or ends, and no TaskRun is stored.
LEMMA WakeMove ==
    ASSUME WakeInv, NEW w \in Workers, NEW t \in Tasks, OnlyAbout(w, t),
           worker'[w] = Idle \/ ReconcileWaits(worker[w], t)',
           UNCHANGED <<tr, watch, cache>>, timers \subseteq timers',
           \A u \in Tasks : Outcomes(u)' \subseteq Outcomes(u),
           \A u \in Tasks \ {t} : secret'[u] = secret[u],
           \/ secret'[t] = secret[t]
           \/ /\ ~tr[t].waiting
              /\ \A v \in Workers \ {w} :
                    worker[v].key = UserKey(t)
                    => worker[v].pc \notin {"assign", "wait", "launch"},
           NEW u \in Tasks
    PROVE  WakeTask(u)'
<1>1. \A x \in Tasks : Fewer(x)
  BY FewerIfSame
<1>2. CASE u # t
  BY <1>1, <1>2, OthersWake
<1>3. CASE u = t
  <2> DEFINE W == {w}
  <2>1. \A v \in Workers \ W :
           /\ worker'[v] = worker[v]
           /\ \/ secret'[t] = secret[t]
              \/ worker[v].key # UserKey(t)
              \/ worker[v].pc \notin {"assign", "wait", "launch"}
    BY DEF OnlyAbout
  <2>2. ReconcileWaits(worker[w], t)'
    <3>1. CASE worker'[w] = Idle
      BY <3>1, NothingToRely DEF ReconcileWaits
    <3>2. QED
      BY <3>1
  <2>3. \A v \in W : ReconcileWaits(worker[v], t)'
    BY <2>2
  <2>4. W \in SUBSET Workers /\ WakeTask(t)
    BY DEF WakeInv
  <2> HIDE DEF W
  <2>5. QED
    BY <1>1, <1>3, <2>1, <2>3, <2>4, WakeFrame
<1>4. QED
  BY <1>2, <1>3

\* The same of a worker that has no outcome to mark, while no provision
\* TaskRun changes.
LEMMA QuietMove ==
    ASSUME WakeInv, NEW w \in Workers, NEW t \in Tasks, OnlyAbout(w, t),
           worker[w].pc # "mark", UNCHANGED <<prov, processed>>,
           worker'[w] = Idle \/ ReconcileWaits(worker[w], t)',
           UNCHANGED <<tr, watch, cache>>, timers \subseteq timers',
           \A u \in Tasks \ {t} : secret'[u] = secret[u],
           \/ secret'[t] = secret[t]
           \/ /\ ~tr[t].waiting
              /\ \A v \in Workers \ {w} :
                    worker[v].key = UserKey(t)
                    => worker[v].pc \notin {"assign", "wait", "launch"},
           NEW u \in Tasks
    PROVE  WakeTask(u)'
<1> DEFINE W == {w}
<1>1. /\ W \in SUBSET Workers /\ \A v \in W : worker[v].pc # "mark"
      /\ \A v \in Workers \ W : worker'[v] = worker[v]
  BY DEF OnlyAbout
<1> HIDE DEF W
<1>2. \A x \in Tasks : Outcomes(x)' \subseteq Outcomes(x)
  BY <1>1, OutcomesKept
<1>3. QED
  BY <1>2, WakeMove

\* A TaskRun whose provisioning counts does not wait, and none allocates for
\* it; nor does one with a secret.
LEMMA LiveNotWaiting ==
    ASSUME ServedInv, NEW t \in Tasks, WakeTask(t), NEW h \in Hosts,
           Live(<<t, h>>)
    PROVE  /\ ~tr[t].waiting /\ Exists(tr[t])
           /\ Runs(tr[t]) => tr[t].assigned = h
           /\ \A v \in Workers : worker[v].key = UserKey(t)
                                 => worker[v].pc \in Releasing
<1>1. tr[t] \in Versions(t)
  BY VersionFacts DEF ServedInv, LeaseInv
<1>2. Open(tr[t]) => tr[t].assigned = h
  BY DEF ServedInv, LeaseInv, Held
<1>3. Exists(tr[t])
  BY <1>2, ConstantsAssumption, Typed
  DEF ServedInv, LeaseInv, NotCreated, Open, Exists, WakeTask, Waits, Copy,
      TaskRun
<1>4. ~tr[t].waiting
  BY <1>1, <1>2, ConstantsAssumption DEF WakeTask, Waits, Runs, Open
<1>5. ASSUME NEW v \in Workers, worker[v].key = UserKey(t)
      PROVE  worker[v].pc \in Releasing
  <2>1. worker[v].pc \in Allocating => NoLive(t)
    BY <1>5, UserReconcile DEF ServedInv, AllocatingOK
  <2>2. QED
    BY <1>5, <2>1, UserReconcile DEF ServedInv, NoLive
<1>6. QED
  BY <1>2, <1>3, <1>4, <1>5 DEF Runs, Open

(***************************************************************************)
(* Each step keeps what is said of every TaskRun: reconciles that store    *)
(* nothing.                                                                *)
(***************************************************************************)

\* A reconcile ends; its TaskRun's secret may be made if it does not wait.
LEMMA WakeEnd ==
    ASSUME ServedInv, WakeInv, NEW w \in Workers, NEW t \in Tasks,
           Return(w) \/ Requeue(w) \/ NotServed(w), worker[w].pc # "mark",
           UNCHANGED <<tr, watch, cache, prov, processed>>,
           timers \subseteq timers',
           \A u \in Tasks \ {t} : secret'[u] = secret[u],
           \/ secret'[t] = secret[t]
           \/ /\ ~tr[t].waiting
              /\ \A v \in Workers \ {w} :
                    worker[v].key = UserKey(t)
                    => worker[v].pc \notin {"assign", "wait", "launch"},
           NEW u \in Tasks
    PROVE  WakeTask(u)'
<1>1. OnlyAbout(w, t) /\ worker'[w] = Idle
  BY ReturnMove, RequeueMove DEF OnlyAbout, ServedInv, LeaseInv
<1>2. QED
  BY <1>1, QuietMove

\* NotServed and Requeue drop no timer.
LEMMA TimersKept ==
    ASSUME NEW w \in Workers, Requeue(w) \/ NotServed(w)
    PROVE  timers \subseteq timers'
BY DEF Requeue, NotServed

\* A reconcile that fails to do a call and is retried.
LEMMA WakeErrors ==
    ASSUME WakesUp, ServedInv, WakeInv, NEW w \in Workers, WorkerFault(w),
           NEW u \in Tasks
    PROVE  WakeTask(u)'
<1>1. ASSUME NEW k \in {"assign", "wait", "launch", "unassign", "read",
                        "deleteSecret", "wake", "mark"}
      PROVE  ~Fault(k)
  BY DEF Fault, WakesUp, OutcomeOnce
<1>2. CASE ErrorRequeues(w)
  <2>1. /\ NotServed(w) /\ worker[w].pc # "mark"
        /\ UNCHANGED <<tr, watch, cache, secret, prov, processed>>
    BY <1>1, <1>2 DEF ErrorRequeues, jobVars
  <2>2. QED
    BY <2>1, WakeEnd, TimersKept
<1>3. CASE ErrorSecretAgain(w)
  <2>1. worker[w].pc \in {"configFail", "configSecret"} /\ worker[w].pc # "idle"
    BY <1>3 DEF ErrorSecretAgain
  <2>2. worker[w].key = UserKey(TaskOf(w)) /\ TaskOf(w) \in Tasks
    BY <2>1, KeyOf DEF ServedInv
  <2>3. AllocationWaits(worker[w], TaskOf(w))
    BY <2>2 DEF WakeInv, WakeTask, ReconcileWaits
  <2>4. QED
    BY <2>1, <2>3 DEF AllocationWaits
<1>4. CASE KeyReadFails(w)
  <2>1. /\ worker[w].pc = "launch" /\ worker[w].pc # "idle"
        /\ worker[w].pc # "mark" /\ Return(w)
        /\ UNCHANGED <<tr, watch, cache, prov, processed, timers>>
        /\ ErrorSecret(TaskOf(w))
    BY <1>4 DEF KeyReadFails, At, jobVars
  <2>2. PICK t \in Tasks : t = TaskOf(w) /\ worker[w].key = UserKey(t)
    BY <2>1, KeyOf DEF ServedInv, Choosing
  <2>3. ~tr[t].waiting
    BY <2>1, <2>2 DEF WakeInv, WakeTask, ReconcileWaits, AllocationWaits
  <2>4. \A v \in Workers \ {w} : worker[v].key # UserKey(t)
    BY <2>2, Alone DEF ServedInv
  <2>5. \A x \in Tasks \ {t} : secret'[x] = secret[x]
    BY <2>1, <2>2 DEF ErrorSecret, ServedInv, LeaseInv, CopiesConsistent, RestOK
  <2>6. QED
    BY <2>1, <2>3, <2>4, <2>5, WakeEnd
<1>5. CASE DeallocateFails(w)
  <2>1. /\ worker[w].pc = "deallocate" /\ worker[w].pc # "idle"
        /\ worker[w].pc # "mark"
        /\ Keep(w, "release", Released(worker[w].obj))
        /\ UNCHANGED <<tr, watch, cache, secret, prov, processed, timers>>
    BY <1>5 DEF DeallocateFails, At, jobVars
  <2>2. PICK t \in Tasks : t = TaskOf(w) /\ worker[w].key = UserKey(t)
    BY <2>1, KeyOf DEF ServedInv, Releasing
  <2>3. /\ OnlyAbout(w, t) /\ worker'[w].pc = "release"
        /\ worker'[w].key = UserKey(t)
        /\ worker'[w].obj = Released(worker[w].obj)
    BY <2>1, <2>2, KeepMove DEF OnlyAbout, ServedInv, LeaseInv
  <2>4. ~worker[w].obj.waiting /\ worker[w].obj \in Copy
    BY <2>1, <2>2, BusyWorker
    DEF WakeInv, WakeTask, ReconcileWaits, AllocationWaits, ServedInv,
        LeaseInv, CopiesConsistent
  <2>5. ~worker'[w].obj.waiting /\ ~worker'[w].obj.finalizer
    BY <2>3, <2>4 DEF Released, Copy, TaskRun
  <2>6. ReconcileWaits(worker[w], t)'
    BY <2>3, <2>5, KeyKinds, ConstantsAssumption
    DEF ReconcileWaits, AllocationWaits, OutcomeWaits
  <2>7. QED
    BY <2>1, <2>3, <2>6, QuietMove
<1>6. ~ErrorFailsAllocation(w) /\ ~LaunchFails(w) /\ ~SecretDeleteFails(w)
      /\ ~WakeFails(w) /\ (\A t \in Tasks : ~UserReadFails(w, t))
      /\ \A t \in Tasks, h \in Hosts : ~ProvisionReadFails(w, t, h)
  BY <1>1 DEF ErrorFailsAllocation, LaunchFails, SecretDeleteFails, WakeFails,
              UserReadFails, ProvisionReadFails
<1>7. QED
  BY <1>2, <1>3, <1>4, <1>5, <1>6 DEF WorkerFault

\* The host is cleaned up, the secret deleted, an outcome marked.
LEMMA WakeReleasing ==
    ASSUME WakesUp, ServedInv, WakeInv, NEW w \in Workers,
           Deallocate(w) \/ DeleteSecret(w), NEW u \in Tasks
    PROVE  WakeTask(u)'
<1>1. /\ worker[w].pc \in {"deallocate", "deleteSecret"}
      /\ worker[w].pc # "idle" /\ worker[w].pc # "mark"
      /\ UNCHANGED <<tr, watch, cache, prov, processed, timers>>
  BY DEF Deallocate, DeleteSecret, At, jobVars
<1>2. PICK t \in Tasks : t = TaskOf(w) /\ worker[w].key = UserKey(t)
  BY <1>1, KeyOf DEF ServedInv, Releasing
<1>3. CASE Deallocate(w)
  <2>1. /\ Keep(w, "release", Released(worker[w].obj)) /\ UNCHANGED secret
        /\ worker[w].pc = "deallocate"
    BY <1>3 DEF Deallocate, At
  <2>2. /\ OnlyAbout(w, t) /\ worker'[w].pc = "release"
        /\ worker'[w].key = UserKey(t)
        /\ worker'[w].obj = Released(worker[w].obj)
    BY <1>1, <1>2, <2>1, KeepMove DEF OnlyAbout, ServedInv, LeaseInv
  <2>3. ~worker[w].obj.waiting /\ worker[w].obj \in Copy
    BY <1>1, <1>2, <2>1, BusyWorker
    DEF WakeInv, WakeTask, ReconcileWaits, AllocationWaits, ServedInv,
        LeaseInv, CopiesConsistent
  <2>4. ~worker'[w].obj.waiting /\ ~worker'[w].obj.finalizer
    BY <2>2, <2>3 DEF Released, Copy, TaskRun
  <2>5. ReconcileWaits(worker[w], t)'
    BY <2>2, <2>4, KeyKinds, ConstantsAssumption
    DEF ReconcileWaits, AllocationWaits, OutcomeWaits
  <2>6. QED
    BY <1>1, <2>1, <2>2, <2>5, QuietMove
<1>4. CASE DeleteSecret(w)
  <2>1. /\ secret' = [secret EXCEPT ![t] = "none"] /\ Goto(w, "wake")
        /\ worker[w].pc = "deleteSecret"
    BY <1>2, <1>4 DEF DeleteSecret, At
  <2>2. /\ OnlyAbout(w, t) /\ worker'[w].pc = "wake"
        /\ worker'[w].key = UserKey(t)
    BY <1>1, <1>2, <2>1, GotoMove DEF OnlyAbout, ServedInv, LeaseInv
  <2>3. ReconcileWaits(worker[w], t)'
    BY <2>2, KeyKinds, ConstantsAssumption
    DEF ReconcileWaits, AllocationWaits, OutcomeWaits
  <2>4. ~tr[t].waiting
    <3>1. ~Open(tr[t])
      BY <1>2, <2>1, UserReconcile DEF ServedInv, Releasing
    <3>2. tr[t] \in Versions(t)
      BY VersionFacts DEF ServedInv, LeaseInv
    <3>3. QED
      BY <3>1, <3>2 DEF WakeInv, WakeTask, Waits, Open, Runs
  <2>5. \A v \in Workers \ {w} : worker[v].key # UserKey(t)
    BY <1>2, Alone DEF ServedInv
  <2>6. \A x \in Tasks \ {t} : secret'[x] = secret[x]
    BY <2>1 DEF ServedInv, LeaseInv, CopiesConsistent, RestOK
  <2>7. QED
    BY <1>1, <2>2, <2>3, <2>4, <2>5, <2>6, QuietMove
<1>5. QED
  BY <1>3, <1>4

\* An outcome is marked, or a provision TaskRun is removed: one less.
LEMMA WakeMark ==
    ASSUME WakesUp, ServedInv, WakeInv, NEW w \in Workers,
           \/ MarkProcessed(w)
           \/ \E t \in Tasks, h \in Hosts : RemoveProvision(w, t, h),
           NEW u \in Tasks
    PROVE  WakeTask(u)'
<1>1. UNCHANGED <<tr, watch, cache, secret, timers>>
  BY DEF MarkProcessed, RemoveProvision
<1>2. CASE MarkProcessed(w)
  <2>1. /\ worker[w].pc = "mark" /\ Return(w) /\ UNCHANGED prov
        /\ processed' = processed \cup {worker[w].key}
    BY <1>2 DEF MarkProcessed, At
  <2>2. OnlyAbout(w, u) /\ worker'[w] = Idle
    BY <2>1, ReturnMove DEF OnlyAbout, ServedInv, LeaseInv
  <2>3. ASSUME NEW x \in Tasks, NEW h \in Hosts, Live(<<x, h>>)'
        PROVE  Live(<<x, h>>)
    <3>1. CASE prov[<<x, h>>] \in {"running", "succeeded"}
      BY <3>1 DEF Live
    <3>2. CASE prov[<<x, h>>] \notin {"running", "succeeded"}
      <4>1. <<x, h>> \notin processed' /\ ~Marking(<<x, h>>)'
            /\ prov[<<x, h>>] = "failed"
        BY <2>1, <2>3, <3>2 DEF Live
      <4>2. <<x, h>> # worker[w].key /\ <<x, h>> \notin processed
        BY <2>1, <4>1
      <4>3. ~Marking(<<x, h>>)
        BY <2>2, <4>1, <4>2 DEF Marking, OnlyAbout
      <4>4. QED
        BY <4>1, <4>2, <4>3 DEF Live
    <3>3. QED
      BY <3>1, <3>2
  <2>4. \A x \in Tasks : Outcomes(x)' \subseteq Outcomes(x)
    BY <2>1, <2>3 DEF Outcomes
  <2>5. QED
    BY <1>1, <2>2, <2>4, WakeMove
<1>3. ASSUME NEW t \in Tasks, NEW h \in Hosts, RemoveProvision(w, t, h)
      PROVE  WakeTask(u)'
  <2>1. /\ prov' = [prov EXCEPT ![<<t, h>>] = "none"] /\ UNCHANGED worker
        /\ processed' = processed \ {<<t, h>>} /\ worker[w].pc = "idle"
    BY <1>3 DEF RemoveProvision, Available
  <2>2. OnlyAbout(w, u) /\ worker'[w] = Idle
    BY <2>1, Typed DEF OnlyAbout, ServedInv, LeaseInv
  <2>3. \A x \in Tasks : Outcomes(x)' \subseteq Outcomes(x)
    <3> SUFFICES ASSUME NEW x \in Tasks, NEW g \in Outcomes(x)'
                 PROVE  g \in Outcomes(x)
      OBVIOUS
    <3>1. g \in Hosts /\ Live(<<x, g>>)' /\ prov'[<<x, g>>] # "succeeded"
      BY DEF Outcomes
    <3>2. /\ prov \in [Leases -> JobState]
          /\ <<t, h>> \in Leases /\ <<x, g>> \in Leases
      BY <3>1, Typed, KeyKinds DEF ServedInv, LeaseInv
    <3>3. <<x, g>> # <<t, h>>
      BY <2>1, <3>1, <3>2 DEF Live
    <3>4. /\ prov'[<<x, g>>] = prov[<<x, g>>]
          /\ <<x, g>> \in processed' <=> <<x, g>> \in processed
      BY <2>1, <3>2, <3>3
    <3>5. Live(<<x, g>>)
      BY <2>1, <3>1, <3>4 DEF Live, Marking
    <3>6. QED
      BY <3>1, <3>4, <3>5 DEF Outcomes
  <2>4. QED
    BY <1>1, <2>2, <2>3, WakeMove
<1>4. QED
  BY <1>2, <1>3

\* A provision TaskRun is launched for a running TaskRun that does not wait,
\* or there is an error secret instead.
LEMMA WakeLaunch ==
    ASSUME WakesUp, ServedInv, WakeInv, NEW w \in Workers, LaunchProvision(w),
           NEW u \in Tasks
    PROVE  WakeTask(u)'
<1>1. /\ worker[w].pc = "launch" /\ worker[w].pc # "idle"
      /\ worker[w].pc # "mark" /\ Return(w)
      /\ UNCHANGED <<tr, watch, cache, processed, timers>>
  BY DEF LaunchProvision, At
<1>2. PICK t \in Tasks : t = TaskOf(w) /\ worker[w].key = UserKey(t)
  BY <1>1, KeyOf DEF ServedInv, Choosing
<1>3. /\ WakeTask(t) /\ ~tr[t].waiting /\ Runs(tr[t])
  BY <1>1, <1>2 DEF WakeInv, WakeTask, ReconcileWaits, AllocationWaits
<1>4. \A v \in Workers \ {w} : worker[v].key # UserKey(t)
  BY <1>2, Alone DEF ServedInv
<1>5. \A x \in Tasks \ {t} : secret'[x] = secret[x]
  BY <1>2
  DEF LaunchProvision, ErrorSecret, ServedInv, LeaseInv, CopiesConsistent,
      RestOK
<1>6. OnlyAbout(w, t) /\ worker'[w] = Idle
  BY <1>1, ReturnMove DEF OnlyAbout, ServedInv, LeaseInv
<1>7. \A x \in Tasks : Fewer(x)
  BY <1>1, FewerIfSame
<1>8. worker[w].host \in Hosts /\ prov \in [Leases -> JobState]
  BY <1>1, <1>2, UserReconcile, Typed
  DEF ServedInv, LeaseInv, AllocatingOK, Allocating, Writing, Choosing
<1>9. CASE u # t
  <2>1. ASSUME NEW x \in Tasks \ {t}, NEW g \in Outcomes(x)'
        PROVE  g \in Outcomes(x)
    <3>1. g \in Hosts /\ Live(<<x, g>>)' /\ prov'[<<x, g>>] # "succeeded"
      BY <2>1 DEF Outcomes
    <3>2. prov'[<<x, g>>] = prov[<<x, g>>]
      BY <1>2, <1>8, <3>1, KeyKinds DEF LaunchProvision
    <3>3. ~Marking(<<x, g>>)' => ~Marking(<<x, g>>)
      BY <1>1, <1>6 DEF Marking, OnlyAbout
    <3>4. QED
      BY <1>1, <3>1, <3>2, <3>3 DEF Outcomes, Live
  <2>2. \A x \in Tasks \ {t} :
           /\ tr'[x] = tr[x] /\ secret'[x] = secret[x] /\ Fewer(x)
           /\ Outcomes(x)' \subseteq Outcomes(x)
    BY <1>1, <1>5, <1>7, <2>1
  <2>3. QED
    BY <1>1, <1>6, <1>9, <2>2, OthersWake
<1>10. CASE u = t
  <2>1. Waits(t)'
    BY <1>1, <1>3, <1>7 DEF WakeTask, Waits, Fewer
  <2>2. KeepsFinalizer(t)'
    BY <1>1, <1>3 DEF KeepsFinalizer
  <2>3. ASSUME NEW v \in Workers PROVE ReconcileWaits(worker[v], t)'
    <3>1. CASE v = w
      BY <1>6, <3>1, NothingToRely DEF ReconcileWaits
    <3>2. CASE v # w
      <4>1. /\ worker'[v] = worker[v] /\ worker[v].key # UserKey(t)
            /\ ReconcileWaits(worker[v], t)
        BY <1>3, <1>4, <1>6, <3>2 DEF OnlyAbout, WakeTask
      <4>2. QED
        BY <1>1, <4>1 DEF ReconcileWaits, OutcomeWaits
    <3>3. QED
      BY <3>1, <3>2
  <2>4. QED
    BY <1>10, <2>1, <2>2, <2>3 DEF WakeTask
<1>11. QED
  BY <1>9, <1>10

\* The error secret of a TaskRun that does not wait.
LEMMA WakeErrorSecret ==
    ASSUME WakesUp, ServedInv, WakeInv, NEW w \in Workers,
           CreateErrorSecret(w), NEW u \in Tasks
    PROVE  WakeTask(u)'
<1>1. /\ worker[w].pc \in {"errorSecret", "configSecret"}
      /\ worker[w].pc # "idle" /\ worker[w].pc # "mark"
      /\ UNCHANGED <<tr, watch, cache, prov, processed>>
      /\ ErrorSecret(TaskOf(w))
  BY DEF CreateErrorSecret, At, jobVars
<1>2. PICK t \in Tasks : t = TaskOf(w)
  BY <1>1, KeyOf DEF ServedInv
<1>3. \A x \in Tasks \ {t} : secret'[x] = secret[x]
  BY <1>1, <1>2 DEF ErrorSecret, ServedInv, LeaseInv, CopiesConsistent, RestOK
<1>4. WakeTask(t)
  BY DEF WakeInv
<1>5. timers \subseteq timers'
  BY TimersKept DEF CreateErrorSecret
<1>6. CASE worker[w].key = UserKey(t)
  <2>1. ~tr[t].waiting /\ worker[w].pc = "errorSecret"
    BY <1>1, <1>4, <1>6 DEF WakeTask, ReconcileWaits, AllocationWaits
  <2>2. \A v \in Workers \ {w} : worker[v].key # UserKey(t)
    BY <1>6, Alone DEF ServedInv
  <2>3. NotServed(w)
    BY <1>6, <2>1, KeyKinds DEF CreateErrorSecret, Reconciles, At
  <2>4. QED
    BY <1>1, <1>3, <1>5, <2>1, <2>2, <2>3, WakeEnd
<1>7. CASE worker[w].key \in Leases
  <2>1. PICK h \in Hosts : worker[w].key = <<t, h>>
    BY <1>2, <1>7 DEF Leases, TaskOf
  <2>2. Live(<<t, h>>) /\ worker[w].pc = "errorSecret"
    BY <1>1, <1>7, <2>1, ProvisionReconcile DEF ServedInv, OutcomeOK, Live
  <2>3. /\ ~tr[t].waiting
        /\ \A v \in Workers : worker[v].key = UserKey(t)
                              => worker[v].pc \in Releasing
    BY <1>4, <2>2, LiveNotWaiting
  <2>4. Goto(w, "mark")
    BY <2>1, <2>2, KeyKinds, ConstantsAssumption
    DEF CreateErrorSecret, Reconciles, At
  <2>5. /\ OnlyAbout(w, t) /\ worker'[w].pc = "mark"
        /\ worker'[w].key = <<t, h>>
    BY <1>1, <2>1, <2>4, GotoMove DEF OnlyAbout, ServedInv, LeaseInv
  <2>6. ReconcileWaits(worker[w], t)'
    BY <2>5, ConstantsAssumption DEF ReconcileWaits, OutcomeWaits, UserKey
  <2>7. \A v \in Workers \ {w} :
           worker[v].key = UserKey(t)
           => worker[v].pc \notin {"assign", "wait", "launch"}
    BY <2>3 DEF Releasing
  <2>8. QED
    BY <1>1, <1>3, <1>5, <2>3, <2>5, <2>6, <2>7, QuietMove
<1>8. QED
  BY <1>1, <1>2, <1>6, <1>7, KeyOf DEF ServedInv

\* Reconciles of user and provision TaskRuns start.
LEMMA WakeStart ==
    ASSUME WakesUp, ServedInv, WakeInv, NEW w \in Workers, NEW t \in Tasks,
           ReconcileUser(w, t), NEW u \in Tasks
    PROVE  WakeTask(u)'
<1> DEFINE o == tr[t]
<1>1. /\ worker[w].pc = "idle" /\ worker[w].pc # "mark"
      /\ UNCHANGED <<tr, watch, cache, secret, prov, processed, timers>>
  BY DEF ReconcileUser, Available, jobVars
<1>2. /\ worker[w] = Idle /\ o \in TaskRun /\ o \in Copy
      /\ o \in Versions(t) /\ WakeTask(t)
  BY <1>1, Typed, VersionFacts DEF ServedInv, LeaseInv, WakeInv
<1>3. CASE UNCHANGED worker
  BY <1>1, <1>2, <1>3, QuietMove DEF OnlyAbout
<1>4. ASSUME NEW pc, NEW m, NEW h, Begin(w, pc, UserKey(t), o, m, h),
             pc \notin {"unassign", "configFail", "configSecret", "launch",
                        "release", "unassignFailed"},
             pc \in {"assign", "wait"} => Runs(o) /\ secret[t] = "none",
             pc = "wait" => /\ ~o.waiting /\ o.valid
                            /\ m = [o EXCEPT !.waiting = TRUE]
                            /\ Hosts \ o.failed # {},
             pc = "assign" => ~m.waiting /\ m.finalizer,
             pc \in {"fail", "errorSecret"} => ~o.waiting,
             pc \in {"fail", "deallocate"} => ~m.waiting
      PROVE  WakeTask(u)'
  <2>1. /\ OnlyAbout(w, t) /\ worker'[w].pc = pc
        /\ worker'[w].key = UserKey(t) /\ worker'[w].obj = m
    BY <1>4, BeginMove DEF OnlyAbout, ServedInv, LeaseInv
  <2>2. AllocationWaits(worker[w], t)'
    BY <1>1, <1>4, <2>1 DEF AllocationWaits
  <2>3. ReconcileWaits(worker[w], t)'
    BY <1>4, <2>1, <2>2 DEF ReconcileWaits, OutcomeWaits
  <2>4. QED
    BY <1>1, <2>1, <2>3, QuietMove
<1>5. ASSUME Done(o) PROVE ~o.waiting
  BY <1>2, <1>5 DEF WakeTask, Waits, Runs, Done
<1>6. ASSUME ~Ignored(o), ~Done(o) PROVE Runs(o)
  BY <1>6 DEF Ignored, Done, Exists, Runs
<1>7. CASE Done(o) /\ Begin(w, "deallocate", UserKey(t), o, o, o.assigned)
  BY <1>4, <1>5, <1>7
<1>8. CASE ~o.waiting /\ Begin(w, FailPC(o), UserKey(t), o, o, None)
  <2>1. FailPC(o) \in {"fail", "errorSecret"}
    BY DEF FailPC
  <2>2. QED
    BY <1>4, <1>8, <2>1
<1>9. CASE ~Ignored(o) /\ ~Done(o) /\ o.valid /\ Allocates(w, t, o)
  <2>1. CASE Hosts \ o.failed = {}
             /\ Begin(w, FailPC(o), UserKey(t), o, o, None)
    <3>1. ~o.waiting
      BY <1>2, <2>1 DEF WakeTask, Waits
    <3>2. QED
      BY <1>8, <2>1, <3>1
  <2>2. CASE /\ Hosts \ o.failed # {} /\ ~o.waiting /\ secret[t] = "none"
             /\ Begin(w, "wait", UserKey(t), o, [o EXCEPT !.waiting = TRUE],
                      None)
    BY <1>4, <1>6, <1>9, <2>2
  <2>3. ASSUME NEW h, secret[t] = "none",
               Begin(w, "assign", UserKey(t), o,
                     [o EXCEPT !.assigned = h, !.waiting = FALSE,
                               !.finalizer = TRUE], h)
        PROVE  WakeTask(u)'
    <3> DEFINE m == [o EXCEPT !.assigned = h, !.waiting = FALSE,
                              !.finalizer = TRUE]
    <3>1. ~m.waiting /\ m.finalizer
      BY <1>2 DEF TaskRun
    <3> HIDE DEF m
    <3>2. QED
      BY <1>4, <1>6, <1>9, <2>3, <3>1 DEF m
  <2>4. QED
    BY <1>3, <1>9, <2>1, <2>2, <2>3 DEF Allocates
<1>10. ~o.valid => ~o.waiting
  BY <1>2 DEF WakeTask, Waits
<1>11. QED
  BY <1>3, <1>7, <1>8, <1>9, <1>10 DEF ReconcileUser

LEMMA WakeProvisionStart ==
    ASSUME WakesUp, ServedInv, WakeInv, NEW w \in Workers, NEW t \in Tasks,
           NEW h \in Hosts, ReconcileProvision(w, t, h), NEW u \in Tasks
    PROVE  WakeTask(u)'
<1> DEFINE mine == cache[t]
           m == [mine EXCEPT !.failed = @ \cup {h}, !.assigned = None]
<1>1. /\ worker[w].pc = "idle" /\ worker[w].pc # "mark" /\ Delivered(t, h)
      /\ UNCHANGED <<tr, watch, cache, secret, prov, processed, timers>>
      /\ <<t, h>> \notin processed /\ \A v \in Workers : worker[v].key # <<t, h>>
  BY DEF ReconcileProvision, Available, jobVars
<1>2. /\ mine \in Copy /\ mine \in Versions(t) /\ WakeTask(t)
      /\ tr[t] \in Versions(t)
  BY VersionFacts DEF ServedInv, LeaseInv, WakeInv
<1>3. m.waiting = mine.waiting /\ m.finalizer = mine.finalizer
  BY <1>2 DEF Copy, TaskRun
<1> HIDE DEF m
<1>4. ASSUME NEW pc, NEW seen, NEW o, Begin(w, pc, <<t, h>>, seen, o, h),
             pc = "unassignFailed" =>
                ~o.waiting /\ (tr[t].finalizer => o.finalizer)
      PROVE  WakeTask(u)'
  <2>1. /\ OnlyAbout(w, t) /\ worker'[w].pc = pc
        /\ worker'[w].key = <<t, h>> /\ worker'[w].obj = o
    BY <1>4, BeginMove DEF OnlyAbout, ServedInv, LeaseInv
  <2>2. OutcomeWaits(worker[w], t)'
    BY <1>1, <1>4, <2>1 DEF OutcomeWaits
  <2>3. ReconcileWaits(worker[w], t)'
    BY <2>1, <2>2, ConstantsAssumption DEF ReconcileWaits, UserKey
  <2>4. QED
    BY <1>1, <2>1, <2>3, QuietMove
<1>5. CASE /\ prov[<<t, h>>] = "failed"
           /\ Begin(w, "unassignFailed", <<t, h>>, mine, m, h)
  <2>1. Live(<<t, h>>) /\ h \in Outcomes(t)
    BY <1>1, <1>5 DEF Live, Marking, Outcomes
  <2>2. ~mine.waiting /\ (tr[t].finalizer => mine.finalizer)
    <3>1. CASE Runs(tr[t])
      <4>1. mine.assigned = h /\ h # None
        BY <1>1, <2>1, <3>1, CacheKnows, ConstantsAssumption DEF Runs, Open
      <4>2. QED
        BY <1>2, <4>1 DEF WakeTask, Waits, Copy
    <3>2. CASE ~Runs(tr[t])
      BY <1>2, <2>1, <3>2 DEF WakeTask, Waits, KeepsFinalizer
    <3>3. QED
      BY <3>1, <3>2
  <2>3. QED
    BY <1>3, <1>4, <1>5, <2>2
<1>6. FailPC(mine) # "unassignFailed"
  BY DEF FailPC
<1>7. QED
  BY <1>4, <1>5, <1>6 DEF ReconcileProvision, m

\* A provision TaskRun ends, with or without a secret; the host's cleanup.
LEMMA WakeJobs ==
    ASSUME WakesUp, ServedInv, WakeInv, NEW t \in Tasks, NEW h \in Hosts,
           Job(t, h) \/ ReconcileClean(t, h), NEW u \in Tasks
    PROVE  WakeTask(u)'
<1> DEFINE W == {}
<1>1. UNCHANGED <<tr, watch, cache, processed, timers, worker>>
  BY DEF Job, ProvisionSucceeds, ProvisionFails, CleanSucceeds, CleanFails,
         ReconcileClean
<1>2. /\ WakeTask(u) /\ Fewer(u) /\ prov \in [Leases -> JobState]
      /\ <<t, h>> \in Leases /\ \A g \in Hosts : <<u, g>> \in Leases
  BY <1>1, FewerIfSame, KeyKinds, Typed DEF WakeInv, ServedInv, LeaseInv
<1>3. W \in SUBSET Workers
  OBVIOUS
<1>4. Marking(<<t, h>>)' <=> Marking(<<t, h>>)
  BY <1>1 DEF Marking
<1>5. \/ UNCHANGED prov
      \/ /\ prov[<<t, h>>] = "running"
         /\ \/ prov' = [prov EXCEPT ![<<t, h>>] = "succeeded"]
            \/ prov' = [prov EXCEPT ![<<t, h>>] = "failed"]
  BY DEF Job, ProvisionSucceeds, ProvisionFails, CleanSucceeds, CleanFails,
         ReconcileClean
<1>6. Outcomes(u)' \subseteq Outcomes(u)
  <2> SUFFICES ASSUME NEW g \in Outcomes(u)' PROVE g \in Outcomes(u)
    OBVIOUS
  <2>1. g \in Hosts /\ Live(<<u, g>>)' /\ prov'[<<u, g>>] # "succeeded"
    BY DEF Outcomes
  <2>2. \/ prov'[<<u, g>>] = prov[<<u, g>>] \/ prov[<<u, g>>] = "running"
    BY <1>2, <1>5, <2>1
  <2>3. Live(<<u, g>>) /\ prov[<<u, g>>] # "succeeded"
    BY <1>1, <2>1, <2>2 DEF Live, Marking
  <2>4. QED
    BY <2>1, <2>3 DEF Outcomes
<1>7. CASE secret'[u] = secret[u]
  BY <1>1, <1>2, <1>3, <1>6, <1>7, WakeFrame
<1>8. CASE secret'[u] # secret[u]
  <2>1. u = t /\ prov[<<t, h>>] = "running"
    BY <1>8
    DEF Job, ProvisionSucceeds, ProvisionFails, CleanSucceeds, CleanFails,
        ReconcileClean, ServedInv, LeaseInv, CopiesConsistent, RestOK
  <2>2. Live(<<t, h>>)
    BY <2>1 DEF Live
  <2>3. /\ ~tr[u].waiting
        /\ \A v \in Workers : worker[v].key = UserKey(u)
                              => worker[v].pc \in Releasing
    BY <1>2, <2>1, <2>2, LiveNotWaiting
  <2>4. \A v \in Workers :
           worker[v].key = UserKey(u)
           => worker[v].pc \notin {"assign", "wait", "launch"}
    BY <2>3 DEF Releasing
  <2>5. \A v \in Workers \ W :
           /\ worker'[v] = worker[v]
           /\ \/ secret'[u] = secret[u]
              \/ worker[v].key # UserKey(u)
              \/ worker[v].pc \notin {"assign", "wait", "launch"}
    BY <1>1, <2>4
  <2>6. \A v \in W : ReconcileWaits(worker[v], u)'
    OBVIOUS
  <2> HIDE DEF W
  <2>7. QED
    BY <1>1, <1>2, <1>3, <1>6, <2>3, <2>5, <2>6, WakeFrame
<1>9. QED
  BY <1>7, <1>8

\* An event is delivered; a timer fires when all have been.
LEMMA WakeDelivered ==
    ASSUME WakesUp, ServedInv, WakeInv,
           Deliver \/ (\E t \in Tasks : TimerFires(t)) \/ UNCHANGED vars,
           NEW u \in Tasks
    PROVE  WakeTask(u)'
<1> DEFINE W == {}
<1>1. UNCHANGED <<tr, secret, prov, processed, worker>>
  BY DEF Deliver, TimerFires, jobVars, vars
<1>2. CopiesConsistent /\ VersionsOK /\ WakeTask(u)
  BY DEF ServedInv, LeaseInv, WakeInv
<1>3. Fewer(u)
  <2>1. CASE Deliver
    BY <1>2, <2>1, DeliverFewer
  <2>2. CASE ~Deliver
    BY <2>2, FewerIfSame DEF TimerFires, vars
  <2>3. QED
    BY <2>1, <2>2
<1>4. Outcomes(u)' \subseteq Outcomes(u)
  BY <1>1 DEF Outcomes, Live, Marking
<1>5. ASSUME u \in timers, tr[u].waiting, u \notin timers'
      PROVE  \A o \in Versions(u)' : o.waiting
  <2>1. watch = <<>>
    BY <1>5 DEF Deliver, TimerFires, vars, WakesUp
  <2>2. Fresh(u)
    BY <2>1 DEF Fresh
  <2>3. QED
    BY <1>2, <1>3, <1>5, <2>2, VersionFacts DEF Fewer
<1>6. W \in SUBSET Workers /\ \A v \in Workers \ W : worker'[v] = worker[v]
  BY <1>1
<1>7. \A v \in W : ReconcileWaits(worker[v], u)'
  OBVIOUS
<1> HIDE DEF W
<1>8. QED
  BY <1>1, <1>2, <1>3, <1>4, <1>5, <1>6, <1>7, WakeFrame

(***************************************************************************)
(* Each step keeps what is said of every TaskRun: the stores.              *)
(***************************************************************************)

\* What updateTaskRun stores of a TaskRun that is not being deleted.
LEMMA UpdateStores ==
    ASSUME ServedInv, NEW t \in Tasks, ~tr[t].deleting, NEW o \in Copy,
           UpdateTaskRunWithRetry(t, o), UNCHANGED cache
    PROVE  /\ Stored(t)
           /\ tr'[t].waiting = o.waiting /\ tr'[t].finalizer = o.finalizer
           /\ tr'[t].assigned = o.assigned /\ tr'[t].failed = o.failed
           /\ tr'[t].phase = tr[t].phase /\ ~tr'[t].deleting
           /\ tr'[t].valid = tr[t].valid /\ tr'[t].woken = tr[t].woken
<1> DEFINE m == Merged(tr[t], o)
<1>1. tr[t] \in Copy /\ m \in Copy
  BY Typed, MergedCopy DEF ServedInv, LeaseInv
<1>2. Put(t, m)
  BY DEF UpdateTaskRunWithRetry
<1>3. /\ m.waiting = o.waiting /\ m.finalizer = o.finalizer
      /\ m.assigned = o.assigned /\ m.failed = o.failed
      /\ m.phase = tr[t].phase /\ m.deleting = tr[t].deleting
      /\ m.valid = tr[t].valid /\ m.woken = tr[t].woken
  BY <1>1 DEF Merged, Copy, TaskRun
<1> HIDE DEF m
<1>4. Stored(t) /\ tr'[t] = m
  BY <1>1, <1>2, <1>3, PutStores DEF ServedInv, LeaseInv, Settled
<1>5. QED
  BY <1>3, <1>4

\* A step that stores t: what is said of t has to be shown.
LEMMA StoreWakes ==
    ASSUME WakeInv, NEW w \in Workers, NEW t \in Tasks, OnlyAbout(w, t),
           worker[w].pc # "mark", UNCHANGED <<secret, prov, processed>>,
           Stored(t), timers \subseteq timers',
           Waits(t)', KeepsFinalizer(t)',
           \A v \in Workers : ReconcileWaits(worker[v], t)',
           NEW u \in Tasks
    PROVE  WakeTask(u)'
<1> DEFINE W == {w}
<1>1. /\ W \in SUBSET Workers /\ \A v \in W : worker[v].pc # "mark"
      /\ \A v \in Workers \ W : worker'[v] = worker[v]
  BY DEF OnlyAbout
<1> HIDE DEF W
<1>2. \A x \in Tasks : Outcomes(x)' \subseteq Outcomes(x)
  BY <1>1, OutcomesKept
<1>3. \A x \in Tasks \ {t} : tr'[x] = tr[x] /\ Fewer(x)
  BY DEF Stored
<1>4. CASE u # t
  BY <1>2, <1>3, <1>4, OthersWake
<1>5. CASE u = t
  BY <1>5 DEF WakeTask
<1>6. QED
  BY <1>4, <1>5

\* Wait, assign and release: the reconcile of the user TaskRun itself.
LEMMA WakeUpdate ==
    ASSUME WakesUp, ServedInv, WakeInv, NEW w \in Workers,
           WaitForHost(w) \/ AssignHost(w), NEW u \in Tasks
    PROVE  WakeTask(u)'
<1> DEFINE r == worker[w]
<1>1. /\ r.pc \in {"wait", "assign"} /\ r.pc # "idle" /\ r.pc # "mark"
      /\ UNCHANGED <<cache, secret, prov, processed>>
  BY DEF WaitForHost, AssignHost, At, jobVars
<1>2. PICK t \in Tasks : t = TaskOf(w) /\ r.key = UserKey(t)
  BY <1>1, KeyOf DEF ServedInv, Choosing
<1>3. /\ AllocatingOK(r, t) /\ r.obj \in Copy /\ NoLive(t)
  BY <1>1, <1>2, AtAllocating DEF ServedInv, Allocating, Writing, Choosing
<1>4. WakeTask(t) /\ AllocationWaits(r, t) /\ Waits(t) /\ Runs(tr[t])
      /\ secret[t] = "none" /\ Exists(tr[t])
  BY <1>1, <1>2
  DEF WakeInv, WakeTask, ReconcileWaits, AllocationWaits, Runs, Exists
<1>5. UpdateTaskRunWithRetry(t, r.obj)
  BY <1>2, <1>4 DEF WaitForHost, AssignHost
<1>6. /\ Stored(t)
      /\ tr'[t].waiting = r.obj.waiting /\ tr'[t].finalizer = r.obj.finalizer
      /\ tr'[t].assigned = r.obj.assigned /\ tr'[t].failed = r.obj.failed
      /\ tr'[t].phase = tr[t].phase /\ ~tr'[t].deleting
      /\ tr'[t].valid = tr[t].valid /\ tr'[t].woken = tr[t].woken
  BY <1>1, <1>3, <1>4, <1>5, UpdateStores DEF Waits
<1>7. Runs(tr'[t]) /\ KeepsFinalizer(t)'
  BY <1>4, <1>6 DEF Runs, KeepsFinalizer
<1>8. /\ tr[t] \in Copy /\ tr[t] \in TaskRun
      /\ Versions(t) \subseteq Overtaken(t) \cup {tr[t]}
  BY VersionFacts, Typed DEF ServedInv, LeaseInv
<1>9. ASSUME NEW v \in Workers \ {w}, worker'[v] = worker[v]
      PROVE  ReconcileWaits(worker[v], t)'
  <2>1. worker[v].key # UserKey(t)
    BY <1>2, Alone DEF ServedInv
  <2>2. \A h \in Hosts : worker[v].key = <<t, h>>
                         => worker[v].pc # "unassignFailed"
    BY <1>3, NoOtherFailure DEF ServedInv
  <2>3. QED
    BY <1>9, <2>1, <2>2 DEF ReconcileWaits, OutcomeWaits
<1>10. CASE WaitForHost(w)
  <2>1. r.pc = "wait" /\ Requeue(w)
    BY <1>2, <1>4, <1>10 DEF WaitForHost, At
  <2>2. /\ OnlyAbout(w, t) /\ worker'[w] = Idle
        /\ \A v \in Workers \ {w} : worker'[v] = worker[v]
    BY <2>1, RequeueMove DEF OnlyAbout, ServedInv, LeaseInv
  <2>3. timers' = timers \cup {t}
    BY <1>2, <2>1, KeyKinds DEF Requeue
  <2>4. /\ ~tr[t].waiting /\ tr[t].valid /\ Hosts \ tr[t].failed # {}
        /\ r.obj = [tr[t] EXCEPT !.waiting = TRUE] /\ tr[t].assigned = None
    BY <1>3, <1>4, <2>1 DEF AllocationWaits, AllocatingOK
  <2>5. /\ r.obj.finalizer = tr[t].finalizer /\ r.obj.failed = tr[t].failed
        /\ r.obj.assigned = tr[t].assigned
    BY <1>8, <2>4 DEF TaskRun
  <2>6. Waits(t)'
    <3>1. \A o \in Versions(t)' : o.waiting => o.assigned = None
      BY <1>4, <1>6, <2>4, <2>5 DEF Stored, Waits
    <3>2. \A o \in Overtaken(t)' : o.waiting => tr'[t].finalizer
      BY <1>4, <1>6, <1>8, <2>4, <2>5 DEF Stored, Waits
    <3>3. QED
      BY <1>1, <1>4, <1>6, <1>7, <2>3, <2>4, <2>5, <3>1, <3>2 DEF Waits, Runs
  <2>7. \A v \in Workers : ReconcileWaits(worker[v], t)'
    BY <1>9, <2>2, NothingToRely DEF ReconcileWaits
  <2>8. QED
    BY <1>1, <1>6, <1>7, <2>2, <2>3, <2>6, <2>7, StoreWakes
<1>11. CASE AssignHost(w)
  <2>1. r.pc = "assign" /\ Keep(w, "launch", r.obj) /\ UNCHANGED timers
    BY <1>2, <1>4, <1>11 DEF AssignHost, At
  <2>2. /\ OnlyAbout(w, t) /\ worker'[w].pc = "launch"
        /\ worker'[w].key = UserKey(t)
        /\ \A v \in Workers \ {w} : worker'[v] = worker[v]
    BY <1>1, <1>2, <2>1, KeepMove DEF OnlyAbout, ServedInv, LeaseInv
  <2>3. ~tr'[t].waiting /\ tr'[t].finalizer
    BY <1>4, <1>6, <2>1 DEF AllocationWaits
  <2>4. Waits(t)'
    BY <1>4, <1>6, <1>7, <2>3 DEF Waits, Stored, Runs
  <2>5. ReconcileWaits(worker[w], t)'
    BY <1>1, <1>4, <1>7, <2>2, <2>3
    DEF ReconcileWaits, AllocationWaits, OutcomeWaits
  <2>6. \A v \in Workers : ReconcileWaits(worker[v], t)'
    BY <1>9, <2>2, <2>5
  <2>7. QED
    BY <1>1, <1>6, <1>7, <2>1, <2>2, <2>4, <2>6, StoreWakes
<1>12. QED
  BY <1>10, <1>11

\* The release of a TaskRun that is done, of which no version waits.
LEMMA WakeRelease ==
    ASSUME WakesUp, ServedInv, WakeInv, NEW w \in Workers, ReleaseHost(w),
           NEW u \in Tasks
    PROVE  WakeTask(u)'
<1> DEFINE r == worker[w]
<1>1. /\ r.pc = "release" /\ r.pc # "idle" /\ r.pc # "mark"
      /\ UNCHANGED <<cache, secret, prov, processed>>
  BY DEF ReleaseHost, At, jobVars
<1>2. PICK t \in Tasks : t = TaskOf(w) /\ r.key = UserKey(t)
  BY <1>1, KeyOf DEF ServedInv, Releasing
<1>3. /\ r.obj \in Copy /\ ~Open(tr[t])
  BY <1>1, <1>2, BusyWorker, UserReconcile
  DEF ServedInv, LeaseInv, CopiesConsistent, Releasing
<1>4. /\ WakeTask(t) /\ Waits(t) /\ ~r.obj.waiting /\ ~r.obj.finalizer
  BY <1>1, <1>2 DEF WakeInv, WakeTask, ReconcileWaits, AllocationWaits
<1>5. ~Runs(tr[t]) /\ \A o \in Versions(t) : ~o.waiting
  BY <1>3, <1>4 DEF Waits, Open, Runs
<1>6. CASE Exists(tr[t])
  <2>1. /\ UpdateTaskRunWithRetry(t, r.obj) /\ Goto(w, "deleteSecret")
        /\ UNCHANGED timers
    BY <1>2, <1>6 DEF ReleaseHost
  <2>2. /\ Stored(t)
        /\ tr'[t].waiting = r.obj.waiting
        /\ tr'[t].finalizer = r.obj.finalizer
        /\ tr'[t].phase = tr[t].phase /\ ~tr'[t].deleting
    BY <1>1, <1>3, <1>4, <2>1, UpdateStores DEF Waits
  <2>3. /\ OnlyAbout(w, t) /\ worker'[w].pc = "deleteSecret"
        /\ worker'[w].key = UserKey(t)
        /\ \A v \in Workers \ {w} : worker'[v] = worker[v]
    BY <1>1, <1>2, <2>1, GotoMove DEF OnlyAbout, ServedInv, LeaseInv
  <2>4. Waits(t)' /\ KeepsFinalizer(t)'
    <3>1. \A o \in Versions(t)' : ~o.waiting
      BY <1>4, <1>5, <2>2 DEF Stored
    <3>2. \A o \in Overtaken(t)' : ~o.waiting
      BY <1>5, <2>2 DEF Stored
    <3>3. QED
      BY <1>4, <2>2, <3>1, <3>2 DEF Waits, KeepsFinalizer
  <2>5. ASSUME NEW v \in Workers PROVE ReconcileWaits(worker[v], t)'
    <3>1. CASE v = w
      BY <2>3, <3>1 DEF ReconcileWaits, AllocationWaits, OutcomeWaits
    <3>2. CASE v # w
      <4>1. worker'[v] = worker[v] /\ worker[v].key # UserKey(t)
            /\ ReconcileWaits(worker[v], t)
        BY <1>2, <1>4, <2>3, <3>2, Alone DEF ServedInv, WakeTask
      <4>2. QED
        BY <1>4, <2>2, <4>1 DEF ReconcileWaits, OutcomeWaits
    <3>3. QED
      BY <3>1, <3>2
  <2>6. QED
    BY <1>1, <2>1, <2>2, <2>3, <2>4, <2>5, StoreWakes
<1>7. CASE ~Exists(tr[t])
  <2>1. Requeue(w) /\ UNCHANGED <<tr, watch>>
    BY <1>2, <1>7 DEF ReleaseHost, storeVars
  <2>2. QED
    BY <1>1, <2>1, WakeEnd, TimersKept
<1>8. QED
  BY <1>6, <1>7

\* createErrorSecret's finalizer, for a TaskRun that does not wait.
LEMMA WakeFinalizer ==
    ASSUME WakesUp, ServedInv, WakeInv, NEW w \in Workers,
           AddErrorFinalizer(w), NEW u \in Tasks
    PROVE  WakeTask(u)'
<1> DEFINE r == worker[w]
           o == [r.obj EXCEPT !.finalizer = TRUE]
<1>1. /\ r.pc \in {"fail", "configFail"} /\ r.pc # "idle" /\ r.pc # "mark"
      /\ UNCHANGED <<cache, secret, prov, processed>>
  BY DEF AddErrorFinalizer, At, jobVars
<1>2. PICK t \in Tasks : t = TaskOf(w)
  BY <1>1, KeyOf DEF ServedInv
<1>3. r.obj \in Copy /\ WakeTask(t) /\ Waits(t)
  BY <1>1, BusyWorker
  DEF ServedInv, LeaseInv, CopiesConsistent, WakeInv, WakeTask
<1>4. /\ o \in Copy /\ o.finalizer /\ o.waiting = r.obj.waiting
      /\ o.phase = r.obj.phase /\ o.deleting = r.obj.deleting
  BY <1>3, UpdatedCopies DEF Copy, TaskRun
<1> HIDE DEF o
<1>5. CASE NotServed(w) /\ UNCHANGED storeVars
  BY <1>1, <1>5, WakeEnd, TimersKept DEF storeVars
<1>6. ASSUME tr[t] = r.seen, Put(t, o), UNCHANGED timers, r.pc = "fail",
             Goto(w, "errorSecret"), ~r.obj.deleting, ~r.obj.waiting,
             Exists(r.obj),
             Runs(r.obj) \/ Outcomes(t) = {},
             ~Runs(r.obj) => \A x \in Versions(t) : ~x.waiting,
             \A v \in Workers \ {w} :
                 /\ worker[v].key = UserKey(t) => worker[v].pc \in Releasing
                 /\ \A h \in Hosts : worker[v].key = <<t, h>>
                                     => worker[v].pc # "unassignFailed"
      PROVE  WakeTask(u)'
  <2>1. /\ Stored(t) /\ tr'[t] = o
    BY <1>1, <1>4, <1>6, PutStores DEF ServedInv, LeaseInv, Settled
  <2>2. /\ \A v \in Workers \ {w} : worker'[v] = worker[v]
        /\ worker'[w].pc = "errorSecret" /\ worker'[w].key = r.key
    BY <1>1, <1>6, GotoMove DEF ServedInv, LeaseInv
  <2>3. r.key = UserKey(t) \/ \E h \in Hosts : r.key = <<t, h>>
    BY <1>1, <1>2, KeyOf DEF ServedInv, Leases, TaskOf
  <2>4. OnlyAbout(w, t)
    BY <2>2, <2>3 DEF OnlyAbout
  <2>5. /\ ~tr'[t].waiting /\ tr'[t].finalizer /\ ~tr'[t].deleting
        /\ Exists(tr'[t]) /\ (Runs(tr'[t]) <=> Runs(r.obj))
    BY <1>4, <1>6, <2>1 DEF Exists, Runs
  <2>6. Waits(t)'
    BY <1>3, <1>6, <2>1, <2>5 DEF Waits, Stored, Exists
  <2>7. KeepsFinalizer(t)'
    <3> DEFINE W == {w}
    <3>1. /\ W \in SUBSET Workers /\ \A v \in W : worker[v].pc # "mark"
          /\ \A v \in Workers \ W : worker'[v] = worker[v]
      BY <1>1, <2>2
    <3> HIDE DEF W
    <3>2. Outcomes(t)' \subseteq Outcomes(t)
      BY <1>1, <3>1, OutcomesKept
    <3>3. QED
      BY <1>6, <2>5, <3>2 DEF KeepsFinalizer
  <2>8. ASSUME NEW v \in Workers PROVE ReconcileWaits(worker[v], t)'
    <3>1. CASE v = w
      BY <2>2, <2>5, <3>1 DEF ReconcileWaits, AllocationWaits, OutcomeWaits
    <3>2. CASE v # w
      <4>1. worker'[v] = worker[v] /\ ReconcileWaits(worker[v], t)
        BY <1>3, <2>2, <3>2 DEF WakeTask
      <4>2. QED
        BY <1>6, <3>2, <4>1
        DEF ReconcileWaits, AllocationWaits, OutcomeWaits, Releasing
    <3>3. QED
      BY <3>1, <3>2
  <2>9. QED
    BY <1>1, <1>6, <2>1, <2>4, <2>6, <2>7, <2>8, StoreWakes
<1>7. CASE r.key = UserKey(t)
  <2>1. r.pc = "fail" /\ ~r.obj.waiting
    BY <1>1, <1>3, <1>7 DEF WakeTask, ReconcileWaits, AllocationWaits
  <2>2. /\ AllocatingOK(r, t) /\ NoLive(t)
    BY <1>1, <1>2, <1>7, AtAllocating DEF ServedInv, Allocating, Writing
  <2>3. Runs(r.obj) /\ ~r.obj.deleting /\ Exists(r.obj)
    BY <2>1, <2>2 DEF AllocatingOK, Writing, Runs, Exists
  <2>4. \A v \in Workers \ {w} :
           /\ worker[v].key = UserKey(t) => worker[v].pc \in Releasing
           /\ \A h \in Hosts : worker[v].key = <<t, h>>
                               => worker[v].pc # "unassignFailed"
    BY <1>7, <2>2, Alone, NoOtherFailure DEF ServedInv
  <2>5. CASE /\ tr[t] = r.seen /\ Put(t, o) /\ UNCHANGED timers
             /\ Goto(w, "errorSecret")
    BY <1>6, <2>1, <2>3, <2>4, <2>5
  <2>6. QED
    BY <1>2, <1>5, <2>1, <2>5 DEF AddErrorFinalizer, At, o
<1>8. CASE r.key \in Leases
  <2>1. PICK h \in Hosts : r.key = <<t, h>>
    BY <1>2, <1>8 DEF Leases, TaskOf
  <2>2. /\ r.pc = "fail" /\ r.obj = r.seen /\ prov[<<t, h>>] = "succeeded"
        /\ Live(<<t, h>>)
    BY <1>1, <1>8, <2>1, ProvisionReconcile DEF ServedInv, OutcomeOK, Live
  <2>3. /\ ~tr[t].waiting /\ Exists(tr[t])
        /\ \A v \in Workers : worker[v].key = UserKey(t)
                              => worker[v].pc \in Releasing
    BY <1>3, <2>2, LiveNotWaiting
  <2>4. \A g \in Hosts : Live(<<t, g>>) => g = h
    BY <2>2 DEF ServedInv, LeaseInv, OneLease
  <2>5. Outcomes(t) = {}
    BY <2>2, <2>4 DEF Outcomes
  <2>6. \A v \in Workers, g \in Hosts :
           worker[v].key = <<t, g>> => worker[v].pc # "unassignFailed"
    <3> SUFFICES ASSUME NEW v \in Workers, NEW g \in Hosts,
                        worker[v].key = <<t, g>>,
                        worker[v].pc = "unassignFailed"
                 PROVE  FALSE
      OBVIOUS
    <3>1. Live(<<t, g>>) /\ worker[v].key \in Leases
      BY FailedIsLive DEF ServedInv
    <3>2. prov[<<t, g>>] = "failed"
      BY <3>1, ProvisionReconcile DEF ServedInv, OutcomeOK
    <3>3. QED
      BY <2>2, <2>4, <3>1, <3>2
  <2>7. CASE /\ tr[t] = r.seen /\ Put(t, o) /\ UNCHANGED timers
             /\ Goto(w, "errorSecret")
    <3>1. tr[t] = r.obj
      BY <2>2, <2>7
    <3>2. QED
      BY <1>3, <1>6, <2>2, <2>3, <2>5, <2>6, <2>7, <3>1 DEF Waits
  <2>8. QED
    BY <1>2, <1>5, <2>2, <2>7 DEF AddErrorFinalizer, At, o
<1>9. QED
  BY <1>1, <1>2, <1>7, <1>8, KeyOf DEF ServedInv

\* A failed host is taken from its TaskRun, which keeps the finalizer.
LEMMA WakeUnassignFailed ==
    ASSUME WakesUp, ServedInv, WakeInv, NEW w \in Workers,
           UnassignFailedHost(w), NEW u \in Tasks
    PROVE  WakeTask(u)'
<1> DEFINE r == worker[w]
<1>1. /\ r.pc = "unassignFailed" /\ r.pc # "idle" /\ r.pc # "mark"
      /\ UNCHANGED <<cache, secret, prov, processed>>
  BY DEF UnassignFailedHost, At, jobVars
<1>2. PICK t \in Tasks : t = TaskOf(w)
  BY <1>1, KeyOf DEF ServedInv
<1>3. r.key \in Leases /\ Live(r.key)
  BY <1>1, FailedIsLive DEF ServedInv
<1>4. PICK h \in Hosts : r.key = <<t, h>>
  BY <1>2, <1>3 DEF Leases, TaskOf
<1>5. /\ WakeTask(t) /\ Waits(t) /\ ~r.obj.waiting
      /\ tr[t].finalizer => r.obj.finalizer
  BY <1>1, <1>4 DEF WakeInv, WakeTask, ReconcileWaits, OutcomeWaits
<1>6. /\ ~tr[t].waiting /\ Exists(tr[t]) /\ (Runs(tr[t]) => tr[t].assigned = h)
      /\ \A v \in Workers : worker[v].key = UserKey(t)
                            => worker[v].pc \in Releasing
  BY <1>3, <1>4, <1>5, LiveNotWaiting
<1>7. r.obj \in Copy /\ tr[t] \in Copy
  BY <1>1, BusyWorker, Typed DEF ServedInv, LeaseInv, CopiesConsistent
<1>8. /\ UpdateTaskRunWithRetry(t, r.obj) /\ Goto(w, "mark")
      /\ UNCHANGED timers
  BY <1>2, <1>6 DEF UnassignFailedHost
<1>9. /\ Stored(t)
      /\ tr'[t].waiting = r.obj.waiting /\ tr'[t].finalizer = r.obj.finalizer
      /\ tr'[t].phase = tr[t].phase /\ ~tr'[t].deleting
  BY <1>1, <1>5, <1>7, <1>8, UpdateStores DEF Waits
<1>10. /\ \A v \in Workers \ {w} : worker'[v] = worker[v]
       /\ worker'[w].pc = "mark" /\ worker'[w].key = <<t, h>>
  BY <1>1, <1>4, <1>8, GotoMove DEF ServedInv, LeaseInv
<1>11. OnlyAbout(w, t)
  BY <1>10 DEF OnlyAbout
<1>12. Runs(tr[t]) => tr'[t].finalizer
  BY <1>5, <1>6, <1>7, <1>9, ConstantsAssumption DEF Copy
<1>13. Waits(t)'
  <2>1. ~Runs(tr'[t]) => \A o \in Versions(t) : ~o.waiting
    BY <1>5, <1>9 DEF Waits, Runs
  <2>2. \A o \in Overtaken(t)' : o.waiting => tr'[t].finalizer
    BY <1>5, <1>9, <1>12 DEF Waits, Stored
  <2>3. QED
    BY <1>5, <1>6, <1>9, <2>1, <2>2 DEF Waits, Stored, Exists
<1>14. KeepsFinalizer(t)'
  <2> SUFFICES ASSUME NEW g \in Outcomes(t)' PROVE FALSE
    BY DEF KeepsFinalizer
  <2> DEFINE W == {w}
  <2>1. /\ W \in SUBSET Workers /\ \A v \in W : worker[v].pc # "mark"
        /\ \A v \in Workers \ W : worker'[v] = worker[v]
    BY <1>1, <1>10
  <2> HIDE DEF W
  <2>2. g \in Outcomes(t)
    BY <1>1, <2>1, OutcomesKept
  <2>3. g = h
    BY <1>3, <1>4, <2>2 DEF Outcomes, ServedInv, LeaseInv, OneLease
  <2>4. Marking(<<t, h>>)'
    BY <1>10 DEF Marking
  <2>5. prov[<<t, h>>] = "failed"
    BY <1>1, <1>3, <1>4, ProvisionReconcile DEF ServedInv, OutcomeOK
  <2>6. QED
    BY <1>1, <2>3, <2>4, <2>5 DEF Outcomes, Live
<1>15. ASSUME NEW v \in Workers PROVE ReconcileWaits(worker[v], t)'
  <2>1. CASE v = w
    BY <1>10, <2>1, ConstantsAssumption
    DEF ReconcileWaits, OutcomeWaits, UserKey
  <2>2. CASE v # w
    <3>1. worker'[v] = worker[v] /\ ReconcileWaits(worker[v], t)
      BY <1>5, <1>10, <2>2 DEF WakeTask
    <3>2. ASSUME NEW g \in Hosts, worker[v].key = <<t, g>>,
                 worker[v].pc = "unassignFailed"
          PROVE  FALSE
      <4>1. Live(<<t, g>>)
        BY <3>2, FailedIsLive DEF ServedInv
      <4>2. g = h
        BY <1>3, <1>4, <4>1 DEF ServedInv, LeaseInv, OneLease
      <4>3. QED
        BY <1>1, <1>4, <2>2, <3>2, <4>2 DEF ServedInv, LeaseInv, KeysApart
    <3>3. QED
      BY <1>6, <3>1, <3>2
      DEF ReconcileWaits, AllocationWaits, OutcomeWaits, Releasing
  <2>3. QED
    BY <2>1, <2>2
<1>16. QED
  BY <1>1, <1>8, <1>9, <1>11, <1>13, <1>14, <1>15, StoreWakes

\* The oldest that waits is woken.
LEMMA WakeWoken ==
    ASSUME WakesUp, ServedInv, WakeInv, NEW w \in Workers, WakeOldest(w),
           NEW u \in Tasks
    PROVE  WakeTask(u)'
<1>1. /\ worker[w].pc = "wake" /\ worker[w].pc # "mark" /\ Return(w)
      /\ UNCHANGED <<cache, secret, prov, processed, timers>>
  BY DEF WakeOldest, At, jobVars
<1>2. CASE UNCHANGED storeVars
  BY <1>1, <1>2, WakeEnd DEF storeVars
<1>3. ASSUME NEW t \in Tasks, cache[t].waiting, Fresh(t),
             Put(t, [tr[t] EXCEPT !.woken = TRUE])
      PROVE  WakeTask(u)'
  <2> DEFINE o == [tr[t] EXCEPT !.woken = TRUE]
  <2>1. /\ tr[t] \in Copy /\ cache[t] = tr[t] /\ Versions(t) = {tr[t]}
    BY <1>3, Typed, VersionFacts DEF ServedInv, LeaseInv
  <2>2. /\ o \in Copy /\ o.assigned = tr[t].assigned /\ o.waiting = tr[t].waiting
        /\ o.phase = tr[t].phase /\ o.deleting = tr[t].deleting /\ o.woken
        /\ o.failed = tr[t].failed /\ o.finalizer = tr[t].finalizer
        /\ o.valid = tr[t].valid
    BY <2>1, UpdatedCopies, ZenonT(40) DEF Copy, TaskRun
  <2>3. Put(t, o)
    BY <1>3
  <2> HIDE DEF o
  <2>4. WakeTask(t) /\ Waits(t) /\ tr[t].waiting /\ Runs(tr[t])
    BY <1>3, <2>1 DEF WakeInv, WakeTask, Waits
  <2>5. Stored(t) /\ tr'[t] = o
    BY <1>1, <2>2, <2>3, <2>4, PutStores DEF ServedInv, LeaseInv, Settled, Runs
  <2>6. /\ \A v \in Workers \ {w} : worker'[v] = worker[v]
        /\ worker'[w] = Idle /\ OnlyAbout(w, t)
    BY <1>1, ReturnMove DEF OnlyAbout, ServedInv, LeaseInv
  <2>7. Waits(t)'
    BY <1>1, <2>1, <2>2, <2>4, <2>5 DEF Waits, Stored, Runs
  <2>8. KeepsFinalizer(t)'
    BY <2>2, <2>4, <2>5 DEF KeepsFinalizer, Runs
  <2>9. ASSUME NEW v \in Workers PROVE ReconcileWaits(worker[v], t)'
    <3>1. CASE v = w
      BY <2>6, <3>1, NothingToRely DEF ReconcileWaits
    <3>2. CASE v # w
      <4>1. worker'[v] = worker[v] /\ ReconcileWaits(worker[v], t)
        BY <2>4, <2>6, <3>2 DEF WakeTask
      <4>2. QED
        BY <1>1, <2>2, <2>4, <2>5, <4>1
        DEF ReconcileWaits, AllocationWaits, OutcomeWaits, Runs
    <3>3. QED
      BY <3>1, <3>2
  <2>10. QED
    BY <1>1, <2>5, <2>6, <2>7, <2>8, <2>9, StoreWakes
<1>4. QED
  BY <1>2, <1>3 DEF WakeOldest

\* A TaskRun is created; one that has its secret, and so does not wait, ends.
LEMMA WakeUser ==
    ASSUME WakesUp, ServedInv, WakeInv, NEW t \in Tasks, User(t),
           NEW u \in Tasks
    PROVE  WakeTask(u)'
<1> DEFINE W == {}
<1>1. ~TaskCancelled(t) /\ ~DeleteTask(t)
  BY DEF TaskCancelled, DeleteTask, WakesUp
<1>2. UNCHANGED <<cache, secret, prov, processed, timers, worker>>
  BY <1>1 DEF User, CreateTask, TaskCompletes, Completes, jobVars
<1>3. CopiesConsistent /\ VersionsOK /\ \A x \in Tasks : WakeTask(x)
  BY DEF ServedInv, LeaseInv, WakeInv
<1>4. \A x \in Tasks : Outcomes(x)' = Outcomes(x)
  BY <1>2 DEF Outcomes, Live, Marking
<1>5. W \in SUBSET Workers /\ \A v \in Workers \ W : worker'[v] = worker[v]
  BY <1>2
<1>6. \A v \in W : ReconcileWaits(worker[v], u)'
  OBVIOUS
<1> HIDE DEF W
<1>7. ASSUME Stored(t), u # t PROVE WakeTask(u)'
  <2>1. tr'[u] = tr[u] /\ Fewer(u)
    BY <1>7 DEF Stored
  <2>2. QED
    BY <1>2, <1>3, <1>4, <1>5, <1>6, <2>1, WakeFrame
<1>8. CASE CreateTask(t)
  <2>1. PICK valid \in BOOLEAN : Put(t, Created(valid))
    BY <1>8 DEF CreateTask
  <2>2. tr[t].phase = "absent" /\ ~Runs(tr[t]) /\ Waits(t)
    BY <1>3, <1>8 DEF CreateTask, Runs, WakeTask
  <2>3. /\ Created(valid) \in Copy /\ Settled(Created(valid)) = Created(valid)
        /\ ~Created(valid).waiting /\ ~Created(valid).finalizer
        /\ ~Created(valid).deleting /\ Created(valid).phase = "running"
    BY ConstantCopies DEF Created, Absent, Settled
  <2>4. Stored(t) /\ tr'[t] = Created(valid)
    BY <1>2, <1>3, <2>1, <2>3, PutStores
  <2>5. Waits(t)' /\ KeepsFinalizer(t)'
    BY <2>2, <2>3, <2>4 DEF Waits, Stored, KeepsFinalizer
  <2>6. ASSUME NEW v \in Workers PROVE ReconcileWaits(worker[v], t)'
    <3>1. worker'[v] = worker[v] /\ ReconcileWaits(worker[v], t)
      BY <1>2, <1>3 DEF WakeTask
    <3>2. QED
      BY <2>2, <2>3, <2>4, <3>1
      DEF ReconcileWaits, AllocationWaits, OutcomeWaits
  <2>7. QED
    BY <1>7, <2>4, <2>5, <2>6 DEF WakeTask
<1>9. CASE TaskCompletes(t)
  <2> DEFINE o == [tr[t] EXCEPT !.phase = "completed"]
  <2>1. /\ Put(t, o) /\ secret[t] # "none" /\ Fresh(t)
    BY <1>9 DEF TaskCompletes, Completes, WakesUp
  <2>2. Waits(t) /\ ~tr[t].waiting /\ ~tr[t].deleting
    BY <1>3, <2>1 DEF WakeTask, Waits
  <2>3. Versions(t) = {tr[t]} /\ tr[t] \in Copy
    BY <1>3, <2>1, VersionFacts, Typed
  <2>4. /\ o \in Copy /\ o.waiting = tr[t].waiting /\ ~o.deleting
        /\ o.finalizer = tr[t].finalizer /\ o.phase = "completed"
    BY <2>2, <2>3, UpdatedCopies, ZenonT(40) DEF Copy, TaskRun
  <2> HIDE DEF o
  <2>5. Stored(t) /\ tr'[t] = o
    BY <1>2, <1>3, <2>1, <2>4, PutStores DEF Settled
  <2>6. Waits(t)' /\ KeepsFinalizer(t)'
    BY <2>2, <2>3, <2>4, <2>5 DEF Waits, Stored, KeepsFinalizer
  <2>7. ASSUME NEW v \in Workers PROVE ReconcileWaits(worker[v], t)'
    <3>1. worker'[v] = worker[v] /\ ReconcileWaits(worker[v], t)
      BY <1>2, <1>3 DEF WakeTask
    <3>2. QED
      BY <2>1, <2>2, <2>4, <2>5, <3>1
      DEF ReconcileWaits, AllocationWaits, OutcomeWaits
  <2>8. QED
    BY <1>7, <2>5, <2>6, <2>7 DEF WakeTask
<1>10. QED
  BY <1>1, <1>8, <1>9 DEF User

\* No reconcile gives a host up after a failed launch.
LEMMA NoUnassign ==
    ASSUME ServedInv, WakeInv, NEW w \in Workers
    PROVE  ~UnassignHost(w)
<1> SUFFICES ASSUME worker[w].pc = "unassign", worker[w].pc # "idle"
             PROVE  FALSE
  BY DEF UnassignHost, At
<1>1. worker[w].key = UserKey(TaskOf(w)) /\ TaskOf(w) \in Tasks
  BY KeyOf DEF ServedInv, Choosing
<1>2. QED
  BY <1>1 DEF WakeInv, WakeTask, ReconcileWaits, AllocationWaits

\* Every step keeps what is said of every TaskRun.
LEMMA NextWakeTask ==
    ASSUME WakesUp, ServedInv, WakeInv, [Next]_vars, NEW u \in Tasks
    PROVE  WakeTask(u)'
<1>1. CASE UNCHANGED vars \/ Deliver \/ \E t \in Tasks : TimerFires(t)
  BY <1>1, WakeDelivered
<1>2. CASE Restart
  BY <1>2 DEF Restart, Fault, WakesUp, OutcomeOnce
<1>3. ASSUME NEW w \in Workers, WorkerStep(w) PROVE WakeTask(u)'
  BY <1>3, WakeUpdate, WakeLaunch, NoUnassign, WakeFinalizer, WakeErrorSecret,
     WakeReleasing, WakeRelease, WakeWoken, WakeUnassignFailed, WakeMark
  DEF WorkerStep
<1>4. ASSUME NEW w \in Workers, WorkerFault(w) PROVE WakeTask(u)'
  BY <1>4, WakeErrors
<1>5. ASSUME NEW w \in Workers, NEW t \in Tasks, ReconcileUser(w, t)
      PROVE  WakeTask(u)'
  BY <1>5, WakeStart
<1>6. ASSUME NEW w \in Workers, NEW t \in Tasks, NEW h \in Hosts,
             ReconcileProvisionKey(w, t, h)
      PROVE  WakeTask(u)'
  BY <1>6, WakeProvisionStart, WakeMark DEF ReconcileProvisionKey
<1>7. ASSUME NEW t \in Tasks, User(t) PROVE WakeTask(u)'
  BY <1>7, WakeUser
<1>8. ASSUME NEW t \in Tasks, NEW h \in Hosts,
             Job(t, h) \/ ReconcileClean(t, h)
      PROVE  WakeTask(u)'
  BY <1>8, WakeJobs
<1>9. QED
  BY <1>1, <1>2, <1>3, <1>4, <1>5, <1>6, <1>7, <1>8 DEF Next

(***************************************************************************)
(* Each step keeps the hope.                                               *)
(***************************************************************************)

\* A step that takes nothing away of what there is to hope for.
LEMMA CalmHope ==
    ASSUME Hoped,
           \A t \in Tasks :
               /\ Stuck(t)' => Stuck(t)
               /\ tr[t].finalizer => tr'[t].finalizer
               /\ tr[t].waiting => /\ tr'[t].waiting
                                   /\ tr[t].woken => tr'[t].woken
                                   /\ tr'[t].failed = tr[t].failed
               /\ Seen(t)' => Seen(t),
           timers \subseteq timers', queue \subseteq queue',
           \A v \in Workers :
               /\ worker[v].pc \in {"deleteSecret", "wake"}
                  => worker'[v].pc \in {"deleteSecret", "wake"}
               /\ worker[v].pc = "assign" => worker'[v] = worker[v]
    PROVE  Hoped'
<1> SUFFICES ASSUME \E t \in Tasks : Stuck(t)' PROVE Hope'
  BY DEF Hoped
<1>1. Hope
  BY DEF Hoped
<1>2. \A t \in Tasks : Stuck(t) => Stuck(t)'
  BY DEF Stuck, Eligible
<1>3. CASE \E t \in Tasks : tr[t].finalizer
  BY <1>3 DEF Hope
<1>4. CASE \E w \in Workers : worker[w].pc \in {"deleteSecret", "wake"}
  BY <1>4 DEF Hope
<1>5. CASE WokenBefore # {}
  BY <1>5 DEF Hope, WokenBefore
<1>6. CASE \E t \in Tasks : Stuck(t) /\ (t \in timers \/ Assigning(t))
  <2>1. \A t \in Tasks : Assigning(t) => Assigning(t)'
    BY DEF Assigning
  <2>2. QED
    BY <1>2, <1>6, <2>1 DEF Hope
<1>7. CASE \E t \in Tasks : Stuck(t) /\ t \in queue /\ \A u \in Tasks : ~Seen(u)
  BY <1>2, <1>7 DEF Hope
<1>8. QED
  BY <1>1, <1>3, <1>4, <1>5, <1>6, <1>7 DEF Hope

\* Nothing is stored, and no worker that there is hope in moves.
LEMMA SteadyHope ==
    ASSUME Hoped, UNCHANGED tr, \A t \in Tasks : Fewer(t),
           timers \subseteq timers', queue \subseteq queue',
           \A v \in Workers :
               /\ worker[v].pc \in {"deleteSecret", "wake"}
                  => worker'[v].pc \in {"deleteSecret", "wake"}
               /\ worker[v].pc = "assign" => worker'[v] = worker[v]
    PROVE  Hoped'
<1>1. \A t \in Tasks : Stuck(t)' <=> Stuck(t)
  BY DEF Stuck, Eligible
<1>2. \A t \in Tasks : Seen(t)' => Seen(t)
  BY DEF Seen, Fewer
<1>3. QED
  BY <1>1, <1>2, CalmHope

\* A TaskRun that does not wait is stored, with its finalizer if it has it.
LEMMA StoreHope ==
    ASSUME ServedInv, Hoped, NEW t \in Tasks, Stored(t),
           ~tr[t].waiting, ~Stuck(t)', tr[t].finalizer => tr'[t].finalizer,
           tr[t].assigned = None => tr'[t].assigned = None,
           timers \subseteq timers', queue \subseteq queue',
           \A v \in Workers :
               /\ worker[v].pc \in {"deleteSecret", "wake"}
                  => worker'[v].pc \in {"deleteSecret", "wake"}
               /\ worker[v].pc = "assign" => worker'[v] = worker[v]
    PROVE  Hoped'
<1>1. ASSUME NEW x \in Tasks, x # t
      PROVE  /\ tr'[x] = tr[x] /\ (Stuck(x)' <=> Stuck(x))
             /\ Seen(x)' => Seen(x)
  BY <1>1 DEF Stored, Fewer, Stuck, Eligible, Seen
<1>2. tr[t] \in Versions(t)
  BY VersionFacts DEF ServedInv, LeaseInv
<1>3. Seen(t)' => Seen(t)
  BY <1>2 DEF Stored, Seen
<1>4. QED
  BY <1>1, <1>3, CalmHope

\* Of finitely many hosts one has the most free spots.
LEMMA FreeHost ==
    ASSUME IsFiniteSet(Hosts), NEW S \in SUBSET Hosts, NEW h \in S, Free(h) > 0,
           \A g \in Hosts : Free(g) \in Int
    PROVE  MostFree(S) # {}
<1> DEFINE Above(g) == {k \in S : Free(k) > Free(g)}
           T == {Above(g) : g \in S}
           R == StrictSubsetOrdering(Hosts)
<1>1. \A g \in S : Above(g) \in FiniteSubsetsOf(Hosts)
  <2> SUFFICES ASSUME NEW g \in S PROVE Above(g) \in FiniteSubsetsOf(Hosts)
    OBVIOUS
  <2>1. Above(g) \in SUBSET Hosts
    OBVIOUS
  <2>2. IsFiniteSet(Above(g))
    BY <2>1, FS_Subset
  <2>3. QED
    BY <2>1, <2>2 DEF FiniteSubsetsOf
<1>2. T \subseteq FiniteSubsetsOf(Hosts) /\ T # {}
  BY <1>1
<1>3. IsWellFoundedOn(R, FiniteSubsetsOf(Hosts))
  BY FS_StrictSubsetOrderingWellFounded
<1> HIDE DEF R, T
<1>4. PICK x \in T : \A y \in T : ~(<<y, x>> \in R)
  BY <1>2, <1>3, WFMin
<1>5. PICK m \in S : x = Above(m)
  BY DEF T
<1>6. ASSUME NEW g \in S, Free(g) > Free(m) PROVE FALSE
  <2>1. Above(g) \in T
    BY DEF T
  <2>2. Free(g) \in Int /\ Free(m) \in Int
    OBVIOUS
  <2>3. Above(g) \subseteq Above(m)
    BY <1>6, <2>2
  <2>4. g \in Above(m) /\ g \notin Above(g)
    BY <1>6, <2>2
  <2>5. Above(g) \in SUBSET Hosts /\ Above(m) \in SUBSET Hosts
    OBVIOUS
  <2> HIDE DEF Above
  <2>6. Above(g) # Above(m)
    BY <2>4
  <2>7. <<Above(g), Above(m)>> \in R
    BY <2>3, <2>5, <2>6 DEF R, StrictSubsetOrdering
  <2>8. QED
    BY <1>4, <1>5, <2>1, <2>7
<1>7. \A g \in S : Free(g) <= Free(m)
  <2> SUFFICES ASSUME NEW g \in S PROVE Free(g) <= Free(m)
    OBVIOUS
  <2>1. Free(g) \in Int /\ Free(m) \in Int
    OBVIOUS
  <2>2. QED
    BY <1>6, <2>1
<1>8. Free(m) > 0
  BY <1>7
<1>9. m \in MostFree(S)
  BY <1>7, <1>8 DEF MostFree
<1>10. QED
  BY <1>9

\* While the cache shows no TaskRun with a host, all spots are free.
LEMMA AllFree ==
    ASSUME \A u \in Tasks : cache[u].assigned = None, NEW h \in Hosts
    PROVE  Free(h) = Concurrency[h] /\ Concurrency[h] \in Nat
<1>1. {u \in Tasks : cache[u].assigned = h} = {}
  BY ConstantsAssumption
<1>2. Load(h) = 0
  BY <1>1, FS_EmptySet DEF Load
<1>3. QED
  BY <1>2, ConstantsAssumption DEF Free

\* A reconcile of a user TaskRun starts.  If the hope was in this one, the
\* cache shows every host free, so that it finds one.
LEMMA HopeStart ==
    ASSUME WakesUp, ServedInv, WakeInv, NEW w \in Workers, NEW t \in Tasks,
           ReconcileUser(w, t)
    PROVE  Hoped'
<1> DEFINE o == tr[t]
<1>1. /\ worker[w].pc = "idle" /\ UNCHANGED <<tr, watch, cache, timers>>
      /\ queue' = queue \ {t} /\ \A v \in Workers \ {w} : worker'[v] = worker[v]
  <2>1. CASE UNCHANGED worker
    BY <2>1 DEF ReconcileUser, Available
  <2>2. ASSUME NEW pc, NEW m, NEW h, Begin(w, pc, UserKey(t), o, m, h)
        PROVE  \A v \in Workers \ {w} : worker'[v] = worker[v]
    BY <2>2, BeginMove DEF ServedInv, LeaseInv
  <2>3. \/ UNCHANGED worker
        \/ \E pc, m, h : Begin(w, pc, UserKey(t), o, m, h)
    BY DEF ReconcileUser, Allocates
  <2>4. QED
    BY <2>1, <2>2, <2>3 DEF ReconcileUser, Available
<1>2. \A v \in Workers : worker[v].pc \in {"deleteSecret", "wake", "assign"}
                         => worker'[v] = worker[v]
  BY <1>1
<1>3. \A x \in Tasks : Fewer(x)
  BY <1>1, FewerIfSame
<1>4. \A x \in Tasks : (Stuck(x)' <=> Stuck(x)) /\ (Seen(x)' => Seen(x))
  BY <1>1, <1>3 DEF Stuck, Eligible, Seen, Fewer
<1> SUFFICES ASSUME \E x \in Tasks : Stuck(x)' PROVE Hope'
  BY DEF Hoped
<1>5. Hope
  BY <1>4 DEF WakeInv, Hoped
<1>6. CASE \/ \E x \in Tasks : tr[x].finalizer
           \/ \E v \in Workers : worker[v].pc \in {"deleteSecret", "wake"}
           \/ WokenBefore # {}
  BY <1>1, <1>2, <1>6 DEF Hope, WokenBefore
<1>7. CASE \E x \in Tasks : Stuck(x) /\ (x \in timers \/ Assigning(x))
  <2>1. \A x \in Tasks : Assigning(x) => Assigning(x)'
    BY <1>2 DEF Assigning
  <2>2. QED
    BY <1>1, <1>4, <1>7, <2>1 DEF Hope
<1>8. ASSUME NEW x \in Tasks, Stuck(x), x \in queue, \A u \in Tasks : ~Seen(u)
      PROVE  Hope'
  <2>1. CASE x # t
    BY <1>1, <1>4, <1>8, <2>1 DEF Hope
  <2>2. CASE x = t
    <3>1. /\ WakeTask(t) /\ Waits(t) /\ o.waiting /\ Eligible(o)
          /\ o \in Versions(t)
      BY <1>8, <2>2, VersionFacts DEF ServedInv, LeaseInv, WakeInv, WakeTask,
                                      Stuck
    <3>2. /\ Runs(o) /\ o.valid /\ o.assigned = None /\ secret[t] = "none"
      BY <3>1 DEF Waits
    <3>3. \A u \in Tasks : cache[u].assigned = None
      BY <1>8, VersionFacts DEF Seen, ServedInv, LeaseInv
    <3>4. \A g \in Hosts : /\ Free(g) = Concurrency[g]
                           /\ Concurrency[g] \in Nat /\ Free(g) \in Int
      BY <3>3, AllFree
    <3>5. PICK h \in Hosts \ o.failed : Concurrency[h] > 0
      BY <3>1 DEF Eligible
    <3>6. MostFree(Hosts \ o.failed) # {}
      BY <3>4, <3>5, FreeHost DEF WakesUp
    <3>7. ~Ignored(o) /\ ~Done(o)
      BY <3>2 DEF Ignored, Done, Runs, Exists
    <3>8. Allocates(w, t, o)
      BY <3>2, <3>7 DEF ReconcileUser
    <3>9. PICK g : Begin(w, "assign", UserKey(t), o,
                         [o EXCEPT !.assigned = g, !.waiting = FALSE,
                                   !.finalizer = TRUE], g)
      BY <3>2, <3>5, <3>6, <3>8 DEF Allocates
    <3>10. Assigning(t)'
      BY <3>9, BeginMove DEF Assigning, ServedInv, LeaseInv
    <3>11. QED
      BY <1>4, <1>8, <2>2, <3>10 DEF Hope
  <2>3. QED
    BY <2>1, <2>2
<1>9. QED
  BY <1>5, <1>6, <1>7, <1>8 DEF Hope

\* The oldest that waits is woken.  If none is, the TaskRun that waits has its
\* timer; if the cached copy is stale, it has a host or was woken before.
LEMMA HopeWoken ==
    ASSUME WakesUp, ServedInv, WakeInv, NEW w \in Workers, WakeOldest(w)
    PROVE  Hoped'
<1>1. CopiesConsistent /\ VersionsOK /\ \A t \in Tasks : Waits(t)
  BY DEF ServedInv, LeaseInv, WakeInv, WakeTask
<1>2. UNCHANGED <<cache, timers>>
  BY DEF WakeOldest
<1>3. CASE UNCHANGED storeVars /\ \A u \in Tasks : ~cache[u].waiting
  <2> SUFFICES ASSUME NEW t \in Tasks, Stuck(t)' PROVE Hope'
    BY DEF Hoped
  <2>1. tr[t].waiting /\ cache[t] \in Versions(t)
    BY <1>1, <1>3, VersionFacts DEF Stuck, storeVars
  <2>2. t \in timers
    BY <1>1, <1>3, <2>1 DEF Waits
  <2>3. QED
    BY <1>2, <2>2 DEF Hope
<1>4. ASSUME NEW u \in Tasks, cache[u].waiting, ~Fresh(u), UNCHANGED storeVars
      PROVE  Hoped'
  <2>1. cache[u] \in Overtaken(u)
    BY <1>1, <1>4, VersionFacts
  <2>2. tr[u].finalizer \/ (tr[u].waiting /\ tr[u].woken)
    BY <1>1, <1>4, <2>1 DEF Waits
  <2>3. QED
    BY <1>4, <2>2 DEF Hoped, Hope, WokenBefore, storeVars
<1>5. ASSUME NEW u \in Tasks, cache[u].waiting, Fresh(u),
             Put(u, [tr[u] EXCEPT !.woken = TRUE])
      PROVE  Hoped'
  <2> DEFINE o == [tr[u] EXCEPT !.woken = TRUE]
  <2>1. tr[u] \in Copy /\ tr[u].waiting /\ ~tr[u].deleting
    BY <1>1, <1>5, Typed, VersionFacts DEF Waits
  <2>2. o \in Copy /\ o.waiting /\ o.woken /\ ~o.deleting
    BY <2>1, UpdatedCopies, ZenonT(40) DEF Copy, TaskRun
  <2>3. Put(u, o)
    BY <1>5
  <2> HIDE DEF o
  <2>4. tr'[u] = o
    BY <1>1, <2>2, <2>3, PutFacts DEF Settled
  <2>5. QED
    BY <2>2, <2>4 DEF Hoped, Hope, WokenBefore
<1>6. QED
  BY <1>3, <1>4, <1>5 DEF WakeOldest

\* A timer fires, after every event was delivered: either a TaskRun holds a
\* host, and will release it, or the cache shows that none does.
LEMMA HopeTimer ==
    ASSUME WakesUp, ServedInv, WakeInv, NEW t \in Tasks, TimerFires(t)
    PROVE  Hoped'
<1>1. /\ watch = <<>> /\ timers' = timers \ {t} /\ queue' = queue \cup {t}
      /\ UNCHANGED <<tr, watch, cache, worker>> /\ t \in timers
  BY DEF TimerFires, WakesUp
<1>2. \A x \in Tasks : Versions(x) = {tr[x]} /\ tr[x] \in Copy
  BY <1>1, VersionFacts, Typed DEF ServedInv, LeaseInv, Fresh
<1>3. \A x \in Tasks : /\ Versions(x)' = Versions(x)
                       /\ Stuck(x)' <=> Stuck(x)
                       /\ Assigning(x)' <=> Assigning(x)
  BY <1>1, FewerIfSame DEF Stuck, Eligible, Assigning
<1>4. CASE \E x \in Tasks : tr[x].assigned # None
  BY <1>1, <1>2, <1>4 DEF Hoped, Hope, Copy
<1>5. CASE \A x \in Tasks : tr[x].assigned = None
  <2>1. \A x \in Tasks : ~Seen(x)'
    BY <1>2, <1>3, <1>5 DEF Seen
  <2> SUFFICES ASSUME \E x \in Tasks : Stuck(x)' PROVE Hope'
    BY DEF Hoped
  <2>2. Hope
    BY <1>3 DEF WakeInv, Hoped
  <2>3. CASE \/ \E x \in Tasks : tr[x].finalizer
             \/ \E v \in Workers : worker[v].pc \in {"deleteSecret", "wake"}
             \/ WokenBefore # {}
    BY <1>1, <2>3 DEF Hope, WokenBefore
  <2>4. CASE \E x \in Tasks : Stuck(x) /\ (x \in timers \/ Assigning(x))
    BY <1>1, <1>3, <2>1, <2>4 DEF Hope
  <2>5. CASE \E x \in Tasks : Stuck(x) /\ x \in queue
    BY <1>1, <1>3, <2>1, <2>5 DEF Hope
  <2>6. QED
    BY <2>2, <2>3, <2>4, <2>5 DEF Hope
<1>6. QED
  BY <1>4, <1>5

\* A worker that there is no hope in moves, and nothing is stored.
LEMMA MoveHope ==
    ASSUME ServedInv, WakeInv, NEW w \in Workers,
           worker[w].pc \notin {"assign", "deleteSecret", "wake"},
           \A v \in Workers \ {w} : worker'[v] = worker[v],
           UNCHANGED <<tr, watch, cache, queue>>, timers \subseteq timers'
    PROVE  Hoped'
<1>1. \A t \in Tasks : Fewer(t)
  BY FewerIfSame
<1>2. \A v \in Workers :
         /\ worker[v].pc \in {"deleteSecret", "wake"}
            => worker'[v].pc \in {"deleteSecret", "wake"}
         /\ worker[v].pc = "assign" => worker'[v] = worker[v]
  OBVIOUS
<1>3. QED
  BY <1>1, <1>2, SteadyHope DEF WakeInv

LEMMA HopeMoves ==
    ASSUME WakesUp, ServedInv, WakeInv, NEW w \in Workers,
           \/ LaunchProvision(w) \/ CreateErrorSecret(w) \/ Deallocate(w)
           \/ DeleteSecret(w) \/ MarkProcessed(w) \/ WorkerFault(w)
           \/ \E t \in Tasks, h \in Hosts : ReconcileProvisionKey(w, t, h)
    PROVE  Hoped'
<1>1. CopiesConsistent
  BY DEF ServedInv, LeaseInv
<1>2. CASE LaunchProvision(w) \/ MarkProcessed(w)
  <2>1. /\ worker[w].pc \in {"launch", "mark"} /\ Return(w)
        /\ UNCHANGED <<tr, watch, cache, queue, timers>>
    BY <1>2 DEF LaunchProvision, MarkProcessed, At
  <2>2. QED
    BY <1>1, <2>1, ReturnMove, MoveHope
<1>3. CASE CreateErrorSecret(w)
  <2>1. /\ worker[w].pc \in {"errorSecret", "configSecret"}
        /\ worker[w].pc # "idle" /\ UNCHANGED <<tr, watch, cache, queue>>
        /\ Goto(w, "mark") \/ NotServed(w) \/ Return(w)
    BY <1>3 DEF CreateErrorSecret, At
  <2>2. \A v \in Workers \ {w} : worker'[v] = worker[v]
    BY <1>1, <2>1, GotoMove, RequeueMove, ReturnMove
  <2>3. timers \subseteq timers'
    BY <1>3, TimersKept DEF CreateErrorSecret
  <2>4. QED
    BY <2>1, <2>2, <2>3, MoveHope
<1>4. CASE Deallocate(w) \/ DeallocateFails(w)
  <2>1. /\ worker[w].pc = "deallocate" /\ worker[w].pc # "idle"
        /\ UNCHANGED <<tr, watch, cache, queue, timers>>
        /\ Keep(w, "release", Released(worker[w].obj))
    BY <1>4 DEF Deallocate, DeallocateFails, At
  <2>2. \A v \in Workers \ {w} : worker'[v] = worker[v]
    BY <1>1, <2>1, KeepMove
  <2>3. QED
    BY <2>1, <2>2, MoveHope
<1>5. CASE DeleteSecret(w)
  <2>1. /\ worker[w].pc = "deleteSecret" /\ worker[w].pc # "idle"
        /\ Goto(w, "wake")
    BY <1>5 DEF DeleteSecret, At
  <2>2. worker'[w].pc = "wake"
    BY <1>1, <2>1, GotoMove
  <2>3. QED
    BY <2>2 DEF Hoped, Hope
<1>6. CASE WorkerFault(w)
  <2>1. ASSUME NEW k \in {"assign", "wait", "launch", "unassign", "read",
                          "deleteSecret", "wake", "mark"}
        PROVE  ~Fault(k)
    BY DEF Fault, WakesUp, OutcomeOnce
  <2>2. CASE ErrorRequeues(w)
    <3>1. /\ worker[w].pc \notin {"assign", "deleteSecret", "wake"}
          /\ NotServed(w) /\ UNCHANGED <<tr, watch, cache, queue>>
      BY <2>1, <2>2 DEF ErrorRequeues
    <3>2. QED
      BY <1>1, <3>1, RequeueMove, TimersKept, MoveHope
  <2>3. CASE ErrorSecretAgain(w)
    <3>1. /\ worker[w].pc \in {"configFail", "configSecret"}
          /\ worker[w].pc # "idle" /\ Goto(w, "errorSecret")
          /\ UNCHANGED <<tr, watch, cache, queue, timers>>
      BY <2>3 DEF ErrorSecretAgain
    <3>2. QED
      BY <1>1, <3>1, GotoMove, MoveHope
  <2>4. CASE KeyReadFails(w)
    <3>1. /\ worker[w].pc = "launch" /\ Return(w)
          /\ UNCHANGED <<tr, watch, cache, queue, timers>>
      BY <2>4 DEF KeyReadFails, At
    <3>2. QED
      BY <1>1, <3>1, ReturnMove, MoveHope
  <2>5. /\ ~ErrorFailsAllocation(w) /\ ~LaunchFails(w)
        /\ ~SecretDeleteFails(w) /\ ~WakeFails(w)
        /\ \A t \in Tasks : ~UserReadFails(w, t)
        /\ \A t \in Tasks, h \in Hosts : ~ProvisionReadFails(w, t, h)
    BY <2>1 DEF ErrorFailsAllocation, LaunchFails, SecretDeleteFails,
                WakeFails, UserReadFails, ProvisionReadFails
  <2>6. QED
    BY <1>4, <1>6, <2>2, <2>3, <2>4, <2>5 DEF WorkerFault
<1>7. ASSUME NEW t \in Tasks, NEW h \in Hosts, ReconcileProvisionKey(w, t, h)
      PROVE  Hoped'
  <2>1. /\ worker[w].pc = "idle"
        /\ UNCHANGED <<tr, watch, cache, queue, timers>>
    BY <1>7 DEF ReconcileProvisionKey, ReconcileProvision, RemoveProvision,
                Available
  <2>2. \/ UNCHANGED worker
        \/ \E pc, seen, o : Begin(w, pc, <<t, h>>, seen, o, h)
    BY <1>7 DEF ReconcileProvisionKey, ReconcileProvision, RemoveProvision
  <2>3. \A v \in Workers \ {w} : worker'[v] = worker[v]
    BY <1>1, <2>2, BeginMove
  <2>4. QED
    BY <2>1, <2>3, MoveHope
<1>8. QED
  BY <1>2, <1>3, <1>4, <1>5, <1>6, <1>7

\* An update by a reconcile: a wait sets the timer, an assignment and an
\* error bring a finalizer, a release goes on to wake the oldest.
LEMMA HopeWait ==
    ASSUME WakesUp, ServedInv, WakeInv, NEW w \in Workers,
           WaitForHost(w) \/ AssignHost(w)
    PROVE  Hoped'
<1> DEFINE r == worker[w]
<1>1. /\ r.pc \in {"wait", "assign"} /\ r.pc # "idle"
      /\ UNCHANGED <<cache, queue>>
  BY DEF WaitForHost, AssignHost, At
<1>2. PICK t \in Tasks : t = TaskOf(w) /\ r.key = UserKey(t)
  BY <1>1, KeyOf DEF ServedInv, Choosing
<1>3. r.obj \in Copy /\ AllocatingOK(r, t)
  BY <1>1, <1>2, AtAllocating DEF ServedInv, Allocating, Writing, Choosing
<1>4. AllocationWaits(r, t) /\ Waits(t) /\ Exists(tr[t]) /\ tr[t] \in TaskRun
  BY <1>1, <1>2, Typed
  DEF WakeInv, WakeTask, ReconcileWaits, AllocationWaits, Runs, Exists,
      ServedInv, LeaseInv
<1>5. UpdateTaskRunWithRetry(t, r.obj)
  BY <1>2, <1>4 DEF WaitForHost, AssignHost
<1>6. /\ Stored(t) /\ tr'[t].finalizer = r.obj.finalizer
      /\ tr'[t].assigned = r.obj.assigned
  BY <1>1, <1>3, <1>4, <1>5, UpdateStores DEF Waits
<1>7. CASE AssignHost(w)
  <2>1. tr'[t].finalizer
    BY <1>4, <1>6, <1>7 DEF AllocationWaits, AssignHost, At
  <2>2. QED
    BY <2>1 DEF Hoped, Hope
<1>8. CASE WaitForHost(w)
  <2>1. r.pc = "wait" /\ Requeue(w)
    BY <1>2, <1>4, <1>8 DEF WaitForHost, At
  <2>2. timers' = timers \cup {t}
    BY <1>2, <2>1, KeyKinds DEF Requeue
  <2>3. CASE Stuck(t)'
    BY <2>2, <2>3 DEF Hoped, Hope
  <2>4. CASE ~Stuck(t)'
    <3>1. \A v \in Workers \ {w} : worker'[v] = worker[v]
      BY <2>1, RequeueMove DEF ServedInv, LeaseInv
    <3>2. \A v \in Workers :
             /\ worker[v].pc \in {"deleteSecret", "wake"}
                => worker'[v].pc \in {"deleteSecret", "wake"}
             /\ worker[v].pc = "assign" => worker'[v] = worker[v]
      BY <2>1, <3>1
    <3>3. /\ ~tr[t].waiting /\ r.obj = [tr[t] EXCEPT !.waiting = TRUE]
          /\ r.obj.assigned = None
      BY <1>3, <1>4, <2>1 DEF AllocationWaits, AllocatingOK
    <3>4. r.obj.finalizer = tr[t].finalizer
      BY <1>4, <3>3 DEF TaskRun
    <3>5. QED
      BY <1>1, <1>6, <2>2, <2>4, <3>2, <3>3, <3>4, StoreHope DEF WakeInv
  <2>5. QED
    BY <2>3, <2>4
<1>9. QED
  BY <1>7, <1>8

LEMMA HopeUpdates ==
    ASSUME WakesUp, ServedInv, WakeInv, NEW w \in Workers,
           ReleaseHost(w) \/ AddErrorFinalizer(w) \/ UnassignFailedHost(w)
    PROVE  Hoped'
<1> DEFINE r == worker[w]
<1>1. /\ r.pc \in {"release", "fail", "configFail", "unassignFailed"}
      /\ r.pc # "idle" /\ UNCHANGED <<cache, queue>>
  BY DEF ReleaseHost, AddErrorFinalizer, UnassignFailedHost, At
<1>2. CopiesConsistent
  BY DEF ServedInv, LeaseInv
<1>3. PICK t \in Tasks : t = TaskOf(w)
  BY <1>1, KeyOf DEF ServedInv
<1>4. r.obj \in Copy /\ Waits(t)
  BY <1>1, <1>2, BusyWorker DEF CopiesConsistent, WakeInv, WakeTask
<1>5. CASE (Requeue(w) \/ NotServed(w)) /\ UNCHANGED storeVars
  BY <1>1, <1>2, <1>5, RequeueMove, TimersKept, MoveHope DEF storeVars
<1>6. CASE Goto(w, "deleteSecret")
  BY <1>1, <1>2, <1>6, GotoMove DEF Hoped, Hope
<1>7. CASE /\ AddErrorFinalizer(w)
           /\ Put(t, [r.obj EXCEPT !.finalizer = TRUE]) /\ tr[t] = r.seen
  <2> DEFINE o == [r.obj EXCEPT !.finalizer = TRUE]
  <2>1. o \in Copy /\ o.finalizer
    BY <1>4, UpdatedCopies DEF Copy, TaskRun
  <2>2. Put(t, o)
    BY <1>7
  <2> HIDE DEF o
  <2>3. tr'[t] = Settled(o) /\ Settled(o) = o
    BY <1>2, <2>1, <2>2, PutFacts DEF Settled
  <2>4. QED
    BY <2>1, <2>3 DEF Hoped, Hope
<1>8. CASE UnassignFailedHost(w) /\ Exists(tr[t])
  <2>1. /\ r.pc = "unassignFailed" /\ UpdateTaskRunWithRetry(t, r.obj)
        /\ Goto(w, "mark") /\ UNCHANGED timers
    BY <1>3, <1>8 DEF UnassignFailedHost, At
  <2>2. r.key \in Leases /\ Live(r.key)
    BY <2>1, FailedIsLive DEF ServedInv
  <2>3. PICK h \in Hosts : r.key = <<t, h>>
    BY <1>3, <2>2 DEF Leases, TaskOf
  <2>4. /\ WakeTask(t) /\ ~r.obj.waiting
        /\ tr[t].finalizer => r.obj.finalizer
    BY <2>1, <2>3 DEF WakeInv, WakeTask, ReconcileWaits, OutcomeWaits
  <2>5. ~tr[t].waiting
    BY <2>2, <2>3, <2>4, LiveNotWaiting
  <2>6. r.obj.assigned = None
    BY <2>1, <2>2, ProvisionReconcile DEF ServedInv, OutcomeOK
  <2>7. /\ Stored(t) /\ tr'[t].waiting = r.obj.waiting
        /\ tr'[t].finalizer = r.obj.finalizer
        /\ tr'[t].assigned = r.obj.assigned
    BY <1>1, <1>4, <2>1, UpdateStores DEF Waits
  <2>8. \A v \in Workers \ {w} : worker'[v] = worker[v]
    BY <1>1, <1>2, <2>1, GotoMove
  <2>9. \A v \in Workers :
           /\ worker[v].pc \in {"deleteSecret", "wake"}
              => worker'[v].pc \in {"deleteSecret", "wake"}
           /\ worker[v].pc = "assign" => worker'[v] = worker[v]
    BY <2>1, <2>8
  <2>10. QED
    BY <1>1, <2>1, <2>4, <2>5, <2>6, <2>7, <2>9, StoreHope DEF WakeInv, Stuck
<1>9. QED
  BY <1>3, <1>5, <1>6, <1>7, <1>8
  DEF ReleaseHost, AddErrorFinalizer, UnassignFailedHost

\* Creation, and the end of a TaskRun that does not wait.
LEMMA HopeUser ==
    ASSUME WakesUp, ServedInv, WakeInv, NEW t \in Tasks, User(t)
    PROVE  Hoped'
<1>1. ~TaskCancelled(t) /\ ~DeleteTask(t)
  BY DEF TaskCancelled, DeleteTask, WakesUp
<1>2. UNCHANGED <<cache, queue, timers, worker>>
  BY <1>1 DEF User, CreateTask, TaskCompletes, Completes
<1>3. CopiesConsistent /\ Waits(t) /\ tr[t] \in Copy /\ tr[t] \in Versions(t)
  BY VersionFacts, Typed DEF ServedInv, LeaseInv, WakeInv, WakeTask
<1>4. ASSUME NEW o \in Copy, Put(t, o), ~tr[t].waiting, ~o.waiting, ~o.deleting,
             o.finalizer = tr[t].finalizer, o.assigned = tr[t].assigned
      PROVE  Hoped'
  <2>1. Stored(t) /\ tr'[t] = o
    BY <1>2, <1>3, <1>4, PutStores DEF Settled
  <2>2. QED
    BY <1>2, <1>4, <2>1, StoreHope DEF WakeInv, Stuck
<1>5. CASE CreateTask(t)
  <2>1. PICK valid \in BOOLEAN : Put(t, Created(valid))
    BY <1>5 DEF CreateTask
  <2>2. /\ Created(valid) \in Copy /\ ~Created(valid).waiting
        /\ ~Created(valid).finalizer /\ ~Created(valid).deleting
        /\ Created(valid).assigned = None
    BY ConstantCopies DEF Created, Absent
  <2>3. tr[t].phase = "absent" /\ ~Runs(tr[t]) /\ tr[t].assigned = None
    BY <1>5 DEF CreateTask, Runs, ServedInv, NotCreated
  <2>4. ~tr[t].waiting /\ ~tr[t].finalizer
    BY <1>3, <2>3 DEF Waits
  <2>5. QED
    BY <1>3, <1>4, <2>1, <2>2, <2>3, <2>4 DEF Copy, TaskRun
<1>6. CASE TaskCompletes(t)
  <2> DEFINE o == [tr[t] EXCEPT !.phase = "completed"]
  <2>1. Put(t, o) /\ secret[t] # "none"
    BY <1>6 DEF TaskCompletes, Completes
  <2>2. ~tr[t].waiting /\ ~tr[t].deleting
    BY <1>3, <2>1 DEF Waits
  <2>3. /\ o \in Copy /\ o.waiting = tr[t].waiting /\ ~o.deleting
        /\ o.finalizer = tr[t].finalizer /\ o.assigned = tr[t].assigned
    BY <1>3, <2>2, UpdatedCopies DEF Copy, TaskRun
  <2> HIDE DEF o
  <2>4. QED
    BY <1>4, <2>1, <2>2, <2>3
<1>7. QED
  BY <1>1, <1>5, <1>6 DEF User

LEMMA NextHoped ==
    ASSUME WakesUp, ServedInv, WakeInv, [Next]_vars
    PROVE  Hoped'
<1>1. CASE \/ UNCHANGED vars \/ Deliver
           \/ \E t \in Tasks, h \in Hosts : Job(t, h) \/ ReconcileClean(t, h)
  <2>1. /\ UNCHANGED <<tr, timers, worker>> /\ queue \subseteq queue'
        /\ Deliver \/ UNCHANGED <<watch, cache>>
    BY <1>1 DEF vars, Deliver, Job, ProvisionSucceeds, ProvisionFails,
                CleanSucceeds, CleanFails, ReconcileClean
  <2>2. \A t \in Tasks : Fewer(t)
    BY <2>1, DeliverFewer, FewerIfSame DEF ServedInv, LeaseInv
  <2>3. QED
    BY <2>1, <2>2, SteadyHope DEF WakeInv
<1>2. CASE Restart
  BY <1>2 DEF Restart, Fault, WakesUp, OutcomeOnce
<1>3. CASE \E t \in Tasks : TimerFires(t) \/ User(t)
  BY <1>3, HopeTimer, HopeUser
<1>4. ASSUME NEW w \in Workers, WorkerStep(w) PROVE Hoped'
  BY <1>4, HopeWait, HopeMoves, NoUnassign, HopeUpdates, HopeWoken
  DEF WorkerStep
<1>5. ASSUME NEW w \in Workers, WorkerFault(w) PROVE Hoped'
  BY <1>5, HopeMoves
<1>6. ASSUME NEW w \in Workers, NEW t \in Tasks, ReconcileUser(w, t)
      PROVE  Hoped'
  BY <1>6, HopeStart
<1>7. ASSUME NEW w \in Workers, NEW t \in Tasks, NEW h \in Hosts,
             ReconcileProvisionKey(w, t, h)
      PROVE  Hoped'
  BY <1>7, HopeMoves
<1>8. QED
  BY <1>1, <1>2, <1>3, <1>4, <1>5, <1>6, <1>7 DEF Next

(***************************************************************************)
(* The theorem.                                                            *)
(***************************************************************************)

LEMMA InitWake == Init => WakeInv
<1> SUFFICES ASSUME Init PROVE WakeInv
  OBVIOUS
<1>1. /\ \A t \in Tasks : tr[t] = Absent /\ cache[t] = Absent
      /\ watch = <<>> /\ \A w \in Workers : worker[w] = Idle
  BY DEF Init
<1>2. \A t \in Tasks : Versions(t) = {Absent} /\ Overtaken(t) = {}
  <2> SUFFICES ASSUME NEW t \in Tasks
               PROVE  Versions(t) = {Absent} /\ Overtaken(t) = {}
    OBVIOUS
  <2>1. Events(t) = {} /\ Fresh(t)
    BY <1>1 DEF Events, Fresh
  <2>2. QED
    BY <1>1, <2>1 DEF Versions, Overtaken
<1>3. Hoped
  BY <1>1 DEF Hoped, Stuck, Absent
<1>4. ASSUME NEW t \in Tasks PROVE WakeTask(t)
  <2>1. \A w \in Workers : ReconcileWaits(worker[w], t)
    BY <1>1, NothingToRely DEF ReconcileWaits
  <2>2. Waits(t) /\ KeepsFinalizer(t)
    BY <1>1, <1>2 DEF Waits, KeepsFinalizer, Absent
  <2>3. QED
    BY <2>1, <2>2 DEF WakeTask
<1>5. QED
  BY <1>3, <1>4 DEF WakeInv

\* The number of TaskRuns with a host is a number.
LEMMA CountType == ASSUME NEW h PROVE Cardinality(AssignedTo(h)) \in Nat
<1>1. IsFiniteSet(Tasks)
  BY FS_Interval, ConstantsAssumption DEF Tasks
<1>2. AssignedTo(h) \in SUBSET Tasks
  BY DEF AssignedTo
<1>3. QED
  BY <1>1, <1>2, FS_Subset, FS_CardinalityType

\* With nothing to do there is nothing to hope for, so no TaskRun is stuck.
LEMMA HopedWakes ==
    ASSUME Hoped PROVE NoLostWakeup
<1> SUFFICES ASSUME NothingToDo, WokenBefore = {}, NEW t \in Tasks,
                    tr[t].waiting, NEW h \in Hosts \ tr[t].failed
             PROVE  Cardinality(AssignedTo(h)) >= Concurrency[h]
  BY DEF NoLostWakeup
<1>1. ~Hope
  BY DEF NothingToDo, Hope, Assigning
<1>2. ~(Concurrency[h] > 0)
  BY <1>1 DEF Hoped, Stuck, Eligible
<1>3. Concurrency[h] \in Nat
  BY ConstantsAssumption
<1>4. QED
  BY <1>2, <1>3, CountType

\* No wakeup is lost: handleWaitingTasks, called by each release, wakes one
\* TaskRun, and the label WaitingForPlatform is set with a single retry; yet
\* the controller never comes to rest with a TaskRun that waits for a host
\* that is free, however releases, assignments, retries and the events of
\* the watch interleave, whether provisioning succeeds or fails, and whichever
\* of the calls that WakesUp leaves fail.
THEOREM WakeupsKept ==
    ASSUME WakesUp
    PROVE  Spec => []NoLostWakeup
<1> DEFINE Inv == ServedInv /\ WakeInv
<1>1. Init => Inv
  BY InitServed, InitWake
<1>2. Inv /\ [Next]_vars => Inv'
  <2> SUFFICES ASSUME Inv, [Next]_vars PROVE Inv'
    OBVIOUS
  <2>1. NoHostKept
    BY DEF WakesUp, NoHostKept
  <2>2. ServedInv'
    BY <2>1, NextServed
  <2>3. Hoped' /\ \A u \in Tasks : WakeTask(u)'
    BY NextHoped, NextWakeTask
  <2>4. QED
    BY <2>2, <2>3 DEF WakeInv
<1>3. Inv => NoLostWakeup
  BY HopedWakes DEF WakeInv
<1> HIDE DEF Inv
<1>4. QED
  BY <1>1, <1>2, <1>3, PTL DEF Spec
=============================================================================
