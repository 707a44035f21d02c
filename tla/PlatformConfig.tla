--------------------------- MODULE PlatformConfig ---------------------------
(***************************************************************************)
(* getPlatformConfig (taskrun.go) and its cache, called by the reconciles  *)
(* of several TaskRuns at once, with RegisterPlatformMetrics               *)
(* (pkg/metrics/platform.go) and the tags an EC2 instance is launched with *)
(* (pkg/aws/ec2.go).                                                       *)
(*                                                                         *)
(* r.configMapResourceVersion, r.platformConfig, platformMetrics and the   *)
(* tags map of a configuration are plain fields and maps that every worker *)
(* reads and writes without a lock: each access is a step of its own.  A   *)
(* concurrent map write the Go runtime detects ends the process, which is  *)
(* a restart.  A TaskRun asks for the configuration of its platform when a *)
(* host is allocated to it, and again when it is done and the host is to   *)
(* be given back.                                                          *)
(***************************************************************************)
EXTENDS Integers, FiniteSets

CONSTANTS
    Tasks,           \* TaskRuns, no more than MaxConcurrentReconciles
    Platforms,
    Wants,           \* the PLATFORMs the TaskRuns may ask for together
    Datas,           \* contents the ConfigMap may have
    Resolve(_, _),   \* Resolve(d, p): the configuration data d gives p
    Label(_),        \* Label(p): the metrics label of p
    MapIds,          \* identities of tags maps
    None,
    MaxVersions,     \* bound: contents the ConfigMap has had
    MaxFaults        \* bound: restarts and failed reads of a behaviour

Kinds == {"error", "local", "dynamic", "pool", "static"}

\* There are as many tags maps as configurations that can be held at once: the
\* code makes a new one each time.
ASSUME ConfigAssumption ==
    /\ Wants \subseteq [Tasks -> Platforms]
    /\ \A d \in Datas, p \in Platforms :
          Resolve(d, p).kind \in Kinds /\ Resolve(d, p).capacity \in Nat
    /\ None \notin Tasks \cup MapIds
    /\ IsFiniteSet(Tasks) /\ IsFiniteSet(Platforms) /\ IsFiniteSet(MapIds)
    /\ Cardinality(MapIds) >= Cardinality(Platforms) + Cardinality(Tasks)
    /\ MaxVersions \in Nat \ {0} /\ MaxFaults \in Nat

VARIABLES
    configMap,        \* the ConfigMap as r.client reads it
    resourceVersion,  \* r.configMapResourceVersion; 0: ""
    platformConfig,   \* r.platformConfig
    registry,         \* labels the Prometheus registry has collectors of
    platformMetrics,  \* labels entered in the map of metrics sets
    tags,             \* tags[m]: the TaskRun ID in tags map m
    call,             \* call[t]: where the reconcile of t is
    task,             \* task[t]: its PLATFORM, its state and the host it holds
    leftover,         \* TaskRuns whose host was not given back
    faults            \* restarts and failed reads so far

cacheVars == <<resourceVersion, platformConfig>>
metricsVars == <<registry, platformMetrics>>
vars == <<configMap, resourceVersion, platformConfig, registry,
          platformMetrics, tags, call, task, leftover, faults>>

Versions == 1..MaxVersions

\* A configuration: what the data says (of), the version of the ConfigMap it
\* was made from, its tags map, and whether it entered the cache after the
\* cache had been dumped for another version (the last is not in the code).
Config == [of : {Resolve(d, p) : d \in Datas, p \in Platforms},
           version : Versions, tags : MapIds \cup {None}, overtaken : BOOLEAN]

\* Not to be taken for one.
ASSUME NoneAssumption == None \notin Config

\* A host held: the configuration and the read it was allocated under, which
\* static host, and the TaskRun ID in the tags of a launched instance.
PCs == {"idle", "compare", "dump", "lookup", "register", "collect", "enter",
        "store", "use", "configure"}
NoCall == [pc |-> "idle", version |-> 0, data |-> None, config |-> None]
Phases == {"new", "running", "done", "released", "failed"}
NoHost == [kind |-> "error", host |-> None, tag |-> None, fresh |-> TRUE,
           version |-> 0]

Init ==
    /\ configMap \in [version : {1}, data : Datas]
    /\ resourceVersion = 0
    /\ platformConfig = [p \in Platforms |-> None]
    /\ registry = {}
    /\ platformMetrics = {}
    /\ tags = [m \in MapIds |-> None]
    /\ call = [t \in Tasks |-> NoCall]
    /\ \E wanted \in Wants :
          task = [t \in Tasks |-> [platform |-> wanted[t], phase |-> "new",
                                  held |-> NoHost]]
    /\ leftover = {}
    /\ faults = 0

-----------------------------------------------------------------------------
(***************************************************************************)
(* getPlatformConfig.                                                      *)
(***************************************************************************)

At(t, pc) == call[t].pc = pc
Goto(t, pc) == call' = [call EXCEPT ![t].pc = pc]
P(t) == task[t].platform

\* Mistake: a TaskRun that is done is given up like one that has no host yet.
FailsMutant(t) ==
    /\ call' = [call EXCEPT ![t] = NoCall]
    /\ task' = [task EXCEPT ![t].phase = "failed"]

\* A call that ends with an error: handleHostAllocation creates an error
\* secret, handleHostAssigned returns the error and is called again.
Fails(t) ==
    /\ call' = [call EXCEPT ![t] = NoCall]
    /\ task' = [task EXCEPT ![t].phase = IF @ = "new" THEN "failed" ELSE @]

\* r.client.Get of the ConfigMap; its content stays in the call's hand.
Read(t) ==
    /\ At(t, "idle") /\ task[t].phase \in {"new", "done"}
    /\ call' = [call EXCEPT ![t] = [NoCall EXCEPT !.pc = "compare",
                                                  !.version = configMap.version,
                                                  !.data = configMap.data]]
    /\ UNCHANGED <<configMap, cacheVars, metricsVars, tags, task, leftover, faults>>

ReadFails(t) ==
    /\ At(t, "idle") /\ task[t].phase \in {"new", "done"}
    /\ faults < MaxFaults /\ faults' = faults + 1
    /\ Fails(t)
    /\ UNCHANGED <<configMap, cacheVars, metricsVars, tags, leftover>>

\* The version is compared and replaced; the map goes in the next statement.
Compare(t) ==
    /\ At(t, "compare")
    /\ IF resourceVersion # call[t].version
       THEN resourceVersion' = call[t].version /\ Goto(t, "dump")
       ELSE UNCHANGED resourceVersion /\ Goto(t, "lookup")
    /\ UNCHANGED <<configMap, platformConfig, metricsVars, tags, task, leftover, faults>>

\* Mistakes: the map becomes nil; the version is noted and the map is kept.
DumpNilMutant(t) ==
    /\ At(t, "dump")
    /\ platformConfig' = [p \in {} |-> None]
    /\ Goto(t, "lookup")
    /\ UNCHANGED <<configMap, resourceVersion, metricsVars, tags, task, leftover, faults>>
DumpMutant(t) ==
    /\ At(t, "dump")
    /\ Goto(t, "lookup")
    /\ UNCHANGED <<configMap, cacheVars, metricsVars, tags, task, leftover, faults>>

Dump(t) ==
    /\ At(t, "dump")
    /\ platformConfig' = [p \in Platforms |-> None]
    /\ Goto(t, "lookup")
    /\ UNCHANGED <<configMap, resourceVersion, metricsVars, tags, task, leftover, faults>>

\* A tags map nobody refers to any more.
InUse(m) ==
    \/ \E p \in Platforms : platformConfig[p] # None /\ platformConfig[p].tags = m
    \/ \E t \in Tasks : call[t].config # None /\ call[t].config.tags = m

\* Mistake: one tags map, made once, for all configurations.
FreshMapMutant == CHOOSE m \in MapIds : TRUE
FreshMap == CHOOSE m \in MapIds : ~InUse(m)

Hit(t) ==
    /\ At(t, "lookup") /\ platformConfig[P(t)] # None
    /\ call' = [call EXCEPT ![t].pc = "use", ![t].config = platformConfig[P(t)]]
    /\ UNCHANGED <<configMap, cacheVars, metricsVars, tags, task, leftover, faults>>

\* The configuration is made from the data read; what follows depends on its
\* kind: only a dynamic one registers its metrics before it is cached, and a
\* local one is never cached.
AfterMiss(kind) == CASE kind = "local" -> "use"
                     [] kind \in {"dynamic", "pool"} -> "register"
                     [] kind = "static" -> "store"

Miss(t) ==
    LET made == Resolve(call[t].data, P(t))
        map == IF made.kind \in {"dynamic", "pool"} THEN FreshMap ELSE None
    IN  /\ At(t, "lookup") /\ platformConfig[P(t)] = None
        /\ made.kind # "error"
        /\ call' = [call EXCEPT ![t].pc = AfterMiss(made.kind),
                                ![t].config = [of |-> made, tags |-> map,
                                               version |-> call[t].version,
                                               overtaken |-> FALSE]]
        /\ tags' = IF map = None THEN tags ELSE [tags EXCEPT ![map] = None]
        /\ UNCHANGED <<configMap, cacheVars, metricsVars, task, leftover, faults>>

MissFails(t) ==
    /\ At(t, "lookup") /\ platformConfig[P(t)] = None
    /\ Resolve(call[t].data, P(t)).kind = "error"
    /\ Fails(t)
    /\ UNCHANGED <<configMap, cacheVars, metricsVars, tags, leftover, faults>>

\* Mistake: the configuration is cached under a key all platforms share.
StoreMutant(t) ==
    /\ At(t, "store")
    /\ platformConfig' = [p \in Platforms |-> [call[t].config EXCEPT
                            !.overtaken = resourceVersion # call[t].version]]
    /\ Goto(t, IF call[t].config.of.kind = "static" THEN "register" ELSE "use")
    /\ UNCHANGED <<configMap, resourceVersion, metricsVars, tags, task, leftover, faults>>

Store(t) ==
    /\ At(t, "store")
    /\ platformConfig' = [platformConfig EXCEPT
          ![P(t)] = [call[t].config EXCEPT
                       !.overtaken = resourceVersion # call[t].version]]
    /\ Goto(t, IF call[t].config.of.kind = "static" THEN "register" ELSE "use")
    /\ UNCHANGED <<configMap, resourceVersion, metricsVars, tags, task, leftover, faults>>

-----------------------------------------------------------------------------
(***************************************************************************)
(* RegisterPlatformMetrics.                                                *)
(***************************************************************************)

AfterMetrics(t) == IF call[t].config.of.kind = "static" THEN "use" ELSE "store"

Register(t) ==
    /\ At(t, "register")
    /\ Goto(t, IF Label(P(t)) \in platformMetrics THEN AfterMetrics(t) ELSE "collect")
    /\ UNCHANGED <<configMap, cacheVars, metricsVars, tags, task, leftover, faults>>

\* Mistake: the set of metrics is not entered once its collectors are there.
CollectMutant(t) ==
    /\ At(t, "collect") /\ Label(P(t)) \notin registry
    /\ registry' = registry \cup {Label(P(t))}
    /\ Goto(t, AfterMetrics(t))
    /\ UNCHANGED <<configMap, cacheVars, platformMetrics, tags, task, leftover, faults>>

\* The collectors are registered one after the other, always in this order:
\* who registers the first one registers them all.
Collect(t) ==
    /\ At(t, "collect") /\ Label(P(t)) \notin registry
    /\ registry' = registry \cup {Label(P(t))}
    /\ Goto(t, "enter")
    /\ UNCHANGED <<configMap, cacheVars, platformMetrics, tags, task, leftover, faults>>

CollectFails(t) ==
    /\ At(t, "collect") /\ Label(P(t)) \in registry
    /\ Fails(t)
    /\ UNCHANGED <<configMap, cacheVars, metricsVars, tags, leftover, faults>>

Enter(t) ==
    /\ At(t, "enter")
    /\ platformMetrics' = platformMetrics \cup {Label(P(t))}
    /\ Goto(t, AfterMetrics(t))
    /\ UNCHANGED <<configMap, cacheVars, registry, tags, task, leftover, faults>>

-----------------------------------------------------------------------------
(***************************************************************************)
(* What the configuration is used for.                                     *)
(***************************************************************************)

\* The call is over; t holds a host, allocated under its configuration.
Holds(t, host, tag) ==
    /\ call' = [call EXCEPT ![t] = NoCall]
    /\ task' = [task EXCEPT ![t].phase = "running",
                            ![t].held = [kind |-> call[t].config.of.kind,
                                         host |-> host, tag |-> tag,
                                         version |-> call[t].version,
                                         fresh |-> call[t].config.version = call[t].version]]

Allocating(t, kinds) ==
    At(t, "use") /\ task[t].phase = "new" /\ call[t].config.of.kind \in kinds

\* HostPool.Allocate takes one of the configured hosts, and returns an error,
\* which is an error secret, when there is none.  Local.Allocate needs no host.
AllocateStatic(t) ==
    /\ Allocating(t, {"static"})
    /\ \/ \E h \in call[t].config.of.hosts : Holds(t, h, None)
       \/ call[t].config.of.hosts = {} /\ Fails(t)
    /\ UNCHANGED <<configMap, cacheVars, metricsVars, tags, leftover, faults>>

AllocateLocal(t) ==
    /\ Allocating(t, {"local"})
    /\ Holds(t, None, None)
    /\ UNCHANGED <<configMap, cacheVars, metricsVars, tags, leftover, faults>>

\* LaunchInstance writes the TaskRun's ID into the tags map of the (cached)
\* configuration; configureInstance reads it back after the EC2 client has
\* been made, and RunInstances launches an instance with what it found.
LaunchInstance(t) ==
    /\ Allocating(t, {"dynamic", "pool"})
    /\ tags' = [tags EXCEPT ![call[t].config.tags] = t]
    /\ Goto(t, "configure")
    /\ UNCHANGED <<configMap, cacheVars, metricsVars, task, leftover, faults>>

configureInstance(t) ==
    /\ At(t, "configure")
    /\ Holds(t, None, tags[call[t].config.tags])
    /\ UNCHANGED <<configMap, cacheVars, metricsVars, tags, leftover, faults>>

\* Deallocate of the configuration in hand gives the host back: a host pool
\* looks for the host in its own hosts, a DynamicResolver terminates the
\* instance the TaskRun names, a dynamic pool knows the instances of its own.
GivesBack(c, held) ==
    \/ held.kind = "local"
    \/ held.kind \in {"dynamic", "pool"} /\ c.kind = held.kind
    \/ held.kind = "static" /\ c.kind = "static" /\ held.host \in c.hosts

Deallocate(t) ==
    /\ At(t, "use") /\ task[t].phase = "done"
    /\ leftover' = IF GivesBack(call[t].config.of, task[t].held)
                   THEN leftover ELSE leftover \cup {t}
    /\ task' = [task EXCEPT ![t].phase = "released",
                            ![t].held.fresh = /\ @
                                              /\ task[t].held.version = call[t].version
                                              /\ call[t].config.version = call[t].version]
    /\ call' = [call EXCEPT ![t] = NoCall]
    /\ UNCHANGED <<configMap, cacheVars, metricsVars, tags, faults>>

-----------------------------------------------------------------------------
(***************************************************************************)
(* Outside the controller, and restarts of it.                             *)
(***************************************************************************)

ChangeConfigMap ==
    /\ configMap.version < MaxVersions
    /\ \E d \in Datas : configMap' = [version |-> configMap.version + 1, data |-> d]
    /\ UNCHANGED <<cacheVars, metricsVars, tags, call, task, leftover, faults>>

Complete(t) ==
    /\ task[t].phase = "running"
    /\ task' = [task EXCEPT ![t].phase = "done"]
    /\ UNCHANGED <<configMap, cacheVars, metricsVars, tags, call, leftover, faults>>

Restart ==
    /\ faults < MaxFaults /\ faults' = faults + 1
    /\ resourceVersion' = 0
    /\ platformConfig' = [p \in Platforms |-> None]
    /\ registry' = {} /\ platformMetrics' = {}
    /\ tags' = [m \in MapIds |-> None]
    /\ call' = [t \in Tasks |-> NoCall]
    /\ UNCHANGED <<configMap, task, leftover>>

Step(t) ==
    \/ Read(t) \/ Compare(t) \/ Dump(t) \/ Hit(t) \/ Miss(t) \/ MissFails(t)
    \/ Store(t) \/ Register(t) \/ Collect(t) \/ CollectFails(t) \/ Enter(t)
    \/ AllocateStatic(t) \/ AllocateLocal(t) \/ LaunchInstance(t)
    \/ configureInstance(t) \/ Deallocate(t)

Next ==
    \/ \E t \in Tasks : Step(t) \/ ReadFails(t) \/ Complete(t)
    \/ ChangeConfigMap \/ Restart

Spec == Init /\ [][Next]_vars

\* A worker goes on with the reconcile it is in, and a TaskRun that is done
\* or has no host is reconciled again.
FairSpec == Spec /\ \A t \in Tasks : WF_vars(Step(t))

-----------------------------------------------------------------------------
(***************************************************************************)
(* Properties.                                                             *)
(***************************************************************************)

TypeOK ==
    /\ configMap \in [version : Versions, data : Datas]
    /\ resourceVersion \in Versions \cup {0}
    /\ platformConfig \in [Platforms -> Config \cup {None}]
    /\ platformMetrics \subseteq registry
    /\ registry \subseteq {Label(p) : p \in Platforms}
    /\ tags \in [MapIds -> Tasks \cup {None}]
    /\ \A t \in Tasks : /\ call[t].pc \in PCs
                        /\ call[t].version \in Versions \cup {0}
                        /\ call[t].data \in Datas \cup {None}
                        /\ call[t].config \in Config \cup {None}
                        /\ task[t].phase \in Phases
                        /\ task[t].platform \in Platforms
    /\ leftover \subseteq Tasks
    /\ faults \in 0..MaxFaults

\* A cached configuration was made from the version the cache claims to be of,
\* with two exceptions: the cache is about to be dumped, or the configuration
\* was stored by a call that had read the ConfigMap before the cache was dumped
\* for another version.  The latter stays until the ConfigMap changes again.
CacheCoherent ==
    \A p \in Platforms : platformConfig[p] # None =>
        \/ platformConfig[p].version = resourceVersion
        \/ platformConfig[p].overtaken
        \/ \E t \in Tasks : At(t, "dump")

\* The tags map of a configuration is written by every launch under it, so an
\* instance may carry the ID of another TaskRun, but only of one of the same
\* platform: no two configurations share a tags map.
TagsStayInPlatform ==
    \A t \in Tasks : task[t].held.tag # None =>
        P(task[t].held.tag) = P(t)

\* The host of a TaskRun is left over only when its allocation and its
\* deallocation were not served configurations of one version of the
\* ConfigMap: it was changed between the two, or one of them got a stale one.
LeftoverForCause == \A t \in leftover : ~task[t].held.fresh

\* A TaskRun is refused for the sake of the metrics only, if at all, while
\* another call is about to enter them, or has done so: never because nobody
\* will, which would refuse every later TaskRun of the platform.
HalfRegistered(l) == l \in registry \ platformMetrics
RegistrationHeld ==
    \A p \in Platforms : HalfRegistered(Label(p)) =>
        \E t \in Tasks : At(t, "enter") /\ Label(P(t)) = Label(p)

\* In the end every TaskRun that was given a host is still running or was
\* released, however often its configuration could not be read or parsed,
\* unless the ConfigMap is left with one that cannot be used.
EventuallyReleased ==
    <>[](\A t \in Tasks :
            task[t].held # NoHost =>
                \/ task[t].phase \in {"running", "released"}
                \/ Resolve(configMap.data, P(t)).kind = "error")
=============================================================================
