------------------------ MODULE PlatformConfigProofs ------------------------
(***************************************************************************)
(* Proofs about PlatformConfig, for any TaskRuns, platforms, contents of   *)
(* the ConfigMap and number of its changes, and any restarts: what the     *)
(* cache holds, that metrics half registered are about to be entered,      *)
(* whose ID an instance can carry, and why a host is left over.            *)
(***************************************************************************)
EXTENDS PlatformConfig, HostConfig, FiniteSetTheorems, SequenceTheorems, TLAPS

\* A configuration getPlatformConfig returns: it is none of an error, and one
\* that launches instances has a tags map.
Usable == {c \in Config : /\ c.of.kind # "error"
                          /\ c.of.kind \in {"dynamic", "pool"} => c.tags \in MapIds}

Configured == UNION {Resolve(d, p).hosts : d \in Datas, p \in Platforms}
HostNames == Configured \cup {None}
Held == [kind : Kinds, host : HostNames, tag : Tasks \cup {None}, fresh : BOOLEAN,
         version : Versions \cup {0}]
Task == [platform : Platforms, phase : Phases, held : Held]
Call == [pc : PCs, version : Versions \cup {0}, data : Datas \cup {None},
         config : Usable \cup {None}]

\* What a call has in its hands at each point.
CallOK(t) ==
    /\ ~At(t, "idle") => /\ task[t].phase \in {"new", "done"}
                         /\ call[t].version \in Versions /\ call[t].data \in Datas
    /\ call[t].pc \in {"idle", "compare", "dump", "lookup"} <=> call[t].config = None
    /\ call[t].pc \in {"register", "collect", "enter", "store"}
       => call[t].config.version = call[t].version
    /\ At(t, "configure") => /\ task[t].phase = "new" /\ call[t].config.tags \in MapIds
                             /\ call[t].config.of.kind \in {"dynamic", "pool"}
    /\ At(t, "enter") => Label(P(t)) \in registry

TypeInv ==
    /\ configMap \in [version : Versions, data : Datas]
    /\ resourceVersion \in Versions \cup {0}
    /\ platformConfig \in [Platforms -> Usable \cup {None}]
    /\ platformMetrics \subseteq registry
    /\ registry \subseteq {Label(p) : p \in Platforms}
    /\ tags \in [MapIds -> Tasks \cup {None}]
    /\ call \in [Tasks -> Call]
    /\ task \in [Tasks -> Task]
    /\ leftover \subseteq Tasks
    /\ faults \in 0..MaxFaults
    /\ \A t \in Tasks : CallOK(t)

ConfigInv == TypeInv /\ CacheCoherent /\ RegistrationHeld

\* Tags map m belongs to a configuration of platform p, cached or in hand.
UsedBy(m, p) ==
    \/ platformConfig[p] # None /\ platformConfig[p].tags = m
    \/ \E t \in Tasks : P(t) = p /\ call[t].config # None /\ call[t].config.tags = m

TagInv ==
    /\ \A m \in MapIds : \A p, q \in Platforms : UsedBy(m, p) /\ UsedBy(m, q) => p = q
    /\ \A m \in MapIds : \A p \in Platforms :
          UsedBy(m, p) /\ tags[m] # None => P(tags[m]) = p
    /\ TagsStayInPlatform

\* The contents the ConfigMap has had, by version, account for every
\* configuration: it is what its version gives its platform.
Made(hist, c, p) == c.version <= configMap.version /\ c.of = Resolve(hist[c.version], p)

HeldUnder(held, of) == /\ held.kind = of.kind
                       /\ held.kind = "static" => held.host \in of.hosts

HeldOK(hist, t) ==
    task[t].phase \in {"running", "done"} =>
        /\ task[t].held.kind # "error"
        /\ task[t].held.fresh =>
              /\ task[t].held.version \in 1..configMap.version
              /\ HeldUnder(task[t].held, Resolve(hist[task[t].held.version], P(t)))

HistoryInv(hist) ==
    /\ configMap.data = hist[configMap.version]
    /\ \A t \in Tasks : ~At(t, "idle") => /\ call[t].version <= configMap.version
                                          /\ call[t].data = hist[call[t].version]
    /\ \A p \in Platforms : platformConfig[p] # None => Made(hist, platformConfig[p], p)
    /\ \A t \in Tasks : call[t].config # None => Made(hist, call[t].config, P(t))
    /\ \A t \in Tasks : HeldOK(hist, t)
    /\ \A t \in leftover : task[t].phase = "released" /\ ~task[t].held.fresh

LeftoverInv == \E hist \in [Versions -> Datas] : HistoryInv(hist)

-----------------------------------------------------------------------------
(***************************************************************************)
(* What the building blocks of the actions do.                             *)
(***************************************************************************)

\* Only the call and the TaskRun t are touched, and t keeps its platform.
OnlyTouches(t) ==
    /\ \A u \in Tasks \ {t} : call'[u] = call[u] /\ task'[u] = task[u]
    /\ task'[t].platform = task[t].platform

\* The fields of an idle call.
LEMMA NoCallFields ==
    /\ NoCall \in Call /\ NoCall.pc = "idle" /\ NoCall.config = None
BY DEF NoCall, Call, PCs

\* The points of a call are distinct.
LEMMA Typed ==
    ASSUME TypeInv, NEW t \in Tasks
    PROVE  /\ call[t] \in Call /\ task[t] \in Task /\ P(t) \in Platforms
           /\ CallOK(t)
           /\ call \in [Tasks -> Call] /\ task \in [Tasks -> Task]
BY DEF TypeInv, Task, P

\* A call goes on to another point.
LEMMA GotoEffect ==
    ASSUME TypeInv, NEW t \in Tasks, NEW pc \in PCs, Goto(t, pc)
    PROVE  /\ call' \in [Tasks -> Call]
           /\ \A u \in Tasks \ {t} : call'[u] = call[u]
           /\ call'[t].pc = pc /\ call'[t].config = call[t].config
           /\ call'[t].version = call[t].version /\ call'[t].data = call[t].data
BY Typed DEF Goto, Call

\* A call ends.
LEMMA EndEffect ==
    ASSUME TypeInv, NEW t \in Tasks, call' = [call EXCEPT ![t] = NoCall]
    PROVE  /\ call' \in [Tasks -> Call]
           /\ \A u \in Tasks \ {t} : call'[u] = call[u]
           /\ call'[t].pc = "idle" /\ call'[t].config = None
BY Typed, NoCallFields

\* A call ends with an error: the TaskRun fails, or stays done.
LEMMA FailsEffect ==
    ASSUME TypeInv, NEW t \in Tasks, Fails(t)
    PROVE  /\ call' \in [Tasks -> Call] /\ task' \in [Tasks -> Task]
           /\ OnlyTouches(t)
           /\ call'[t].pc = "idle" /\ call'[t].config = None
           /\ task'[t].held = task[t].held
           /\ task'[t].phase # task[t].phase => /\ task[t].phase = "new"
                                                /\ task'[t].phase = "failed"
<1>1. call' = [call EXCEPT ![t] = NoCall]
  BY DEF Fails
<1>2. task' = [task EXCEPT ![t].phase = IF @ = "new" THEN "failed" ELSE @]
  BY DEF Fails
<1>3. QED
  BY <1>1, <1>2, EndEffect, Typed DEF OnlyTouches, Task, Phases

\* A call ends with a host allocated under the configuration in hand.
LEMMA HoldsEffect ==
    ASSUME TypeInv, NEW t \in Tasks, NEW host \in HostNames, NEW tag \in Tasks \cup {None},
           call[t].config \in Usable, Holds(t, host, tag)
    PROVE  /\ call' \in [Tasks -> Call] /\ task' \in [Tasks -> Task]
           /\ OnlyTouches(t)
           /\ call'[t].pc = "idle" /\ call'[t].config = None
           /\ task'[t].phase = "running"
           /\ task'[t].held.kind = call[t].config.of.kind
           /\ task'[t].held.host = host /\ task'[t].held.tag = tag
           /\ task'[t].held.version = call[t].version
           /\ task'[t].held.fresh <=> call[t].config.version = call[t].version
<1> DEFINE held == [kind |-> call[t].config.of.kind, host |-> host, tag |-> tag,
                    version |-> call[t].version,
                    fresh |-> call[t].config.version = call[t].version]
<1>1. call' = [call EXCEPT ![t] = NoCall]
  BY DEF Holds
<1>2. task' = [task EXCEPT ![t].phase = "running", ![t].held = held]
  BY DEF Holds
<1>3. call[t].config.of.kind \in Kinds
  BY ConfigAssumption DEF Usable, Config
<1>4. held \in Held
  BY <1>3, Typed DEF Held, Call
<1> HIDE DEF held
<1>5. /\ task' \in [Tasks -> Task] /\ OnlyTouches(t)
      /\ task'[t].phase = "running" /\ task'[t].held = held
  BY <1>1, <1>2, <1>4, EndEffect, Typed DEF OnlyTouches, Task, Phases
<1>6. /\ held.kind = call[t].config.of.kind /\ held.host = host /\ held.tag = tag
      /\ held.version = call[t].version
  BY DEF held
<1>7. held.fresh <=> call[t].config.version = call[t].version
  BY Zenon DEF held
<1>8. QED
  BY <1>1, <1>5, <1>6, <1>7, EndEffect

\* The calls the step does not touch are as good as before.
LEMMA OthersOK ==
    ASSUME TypeInv, NEW t \in Tasks, OnlyTouches(t), registry \subseteq registry',
           CallOK(t)'
    PROVE  \A u \in Tasks : CallOK(u)'
<1>1. SUFFICES ASSUME NEW u \in Tasks, u # t PROVE CallOK(u)'
  OBVIOUS
<1>2. CallOK(u) /\ call'[u] = call[u] /\ task'[u] = task[u]
  BY <1>1, Typed DEF OnlyTouches
<1>3. QED
  BY <1>2 DEF CallOK, At, P

\* An idle call is good.
LEMMA IdleOK ==
    ASSUME NEW t \in Tasks, call'[t].pc = "idle", call'[t].config = None
    PROVE  CallOK(t)'
BY DEF CallOK, At

\* A configuration made from data without an error.
LEMMA MadeUsable ==
    ASSUME NEW d \in Datas, NEW p \in Platforms, NEW m \in MapIds \cup {None},
           NEW v \in Versions, NEW b \in BOOLEAN,
           Resolve(d, p).kind # "error",
           Resolve(d, p).kind \in {"dynamic", "pool"} => m \in MapIds
    PROVE  [of |-> Resolve(d, p), tags |-> m, version |-> v, overtaken |-> b] \in Usable
BY DEF Usable, Config

\* A usable configuration is not None, and remains one when it is stored.
LEMMA UsableFields ==
    ASSUME NEW c \in Usable
    PROVE  /\ c # None /\ c.of.kind \in Kinds \ {"error"} /\ c.version \in Versions
           /\ \A b \in BOOLEAN : LET s == [c EXCEPT !.overtaken = b]
                                 IN  /\ s \in Usable /\ s.overtaken = b /\ s.of = c.of
                                     /\ s.tags = c.tags /\ s.version = c.version
BY ConfigAssumption, NoneAssumption DEF Usable, Config

-----------------------------------------------------------------------------
(***************************************************************************)
(* There is always a tags map nobody refers to.                            *)
(***************************************************************************)

\* The tags maps of the cached configurations are no more than the platforms.
LEMMA CachedMaps ==
    LET M == {m \in MapIds : \E p \in Platforms : platformConfig[p] # None
                                                  /\ platformConfig[p].tags = m}
    IN  IsFiniteSet(M) /\ Cardinality(M) <= Cardinality(Platforms)
<1> DEFINE M == {m \in MapIds : \E p \in Platforms : platformConfig[p] # None
                                                     /\ platformConfig[p].tags = m}
           f == [m \in M |-> CHOOSE p \in Platforms : platformConfig[p] # None
                                                      /\ platformConfig[p].tags = m]
<1>1. \A m \in M : f[m] \in Platforms /\ platformConfig[f[m]].tags = m
  OBVIOUS
<1>2. f \in Injection(M, Platforms)
  BY <1>1 DEF Injection, IsInjective
<1>3. QED
  BY <1>2, FS_Injection, ConfigAssumption

\* Those of the configurations in hand are fewer than the calls while one call
\* has none.
LEMMA MapsInHand ==
    ASSUME NEW t \in Tasks, call[t].config = None
    PROVE  LET M == {m \in MapIds : \E u \in Tasks : call[u].config # None
                                                     /\ call[u].config.tags = m}
           IN  IsFiniteSet(M) /\ Cardinality(M) <= Cardinality(Tasks) - 1
<1> DEFINE M == {m \in MapIds : \E u \in Tasks : call[u].config # None
                                                 /\ call[u].config.tags = m}
           f == [m \in M |-> CHOOSE u \in Tasks : call[u].config # None
                                                  /\ call[u].config.tags = m]
<1>1. \A m \in M : f[m] \in Tasks \ {t} /\ call[f[m]].config.tags = m
  OBVIOUS
<1>2. f \in Injection(M, Tasks \ {t})
  BY <1>1 DEF Injection, IsInjective
<1>3. IsFiniteSet(Tasks \ {t}) /\ Cardinality(Tasks \ {t}) = Cardinality(Tasks) - 1
  BY FS_RemoveElement, ConfigAssumption
<1>4. IsFiniteSet(M) /\ Cardinality(M) <= Cardinality(Tasks \ {t})
  BY <1>2, <1>3, FS_Injection
<1>5. QED
  BY <1>3, <1>4

\* So a call that is about to make a configuration finds a map that is not in
\* use.
LEMMA FreshMapFound ==
    ASSUME NEW t \in Tasks, call[t].config = None
    PROVE  FreshMap \in MapIds /\ ~InUse(FreshMap)
<1> DEFINE A == {m \in MapIds : \E p \in Platforms : platformConfig[p] # None
                                                     /\ platformConfig[p].tags = m}
           B == {m \in MapIds : \E u \in Tasks : call[u].config # None
                                                 /\ call[u].config.tags = m}
<1>1. IsFiniteSet(A) /\ Cardinality(A) <= Cardinality(Platforms)
  BY CachedMaps
<1>2. IsFiniteSet(B) /\ Cardinality(B) <= Cardinality(Tasks) - 1
  BY MapsInHand
<1> HIDE DEF A, B
<1>3. /\ Cardinality(A) \in Nat /\ Cardinality(B) \in Nat
      /\ Cardinality(A \cap B) \in Nat
      /\ Cardinality(A \cup B) = Cardinality(A) + Cardinality(B) - Cardinality(A \cap B)
  <2>1. IsFiniteSet(A \cap B)
    BY <1>1, FS_Intersection
  <2>2. Cardinality(A \cup B) = Cardinality(A) + Cardinality(B) - Cardinality(A \cap B)
    BY <1>1, <1>2, FS_Union
  <2>3. QED
    BY <1>1, <1>2, <2>1, <2>2, FS_CardinalityType
<1>4. /\ Cardinality(Platforms) \in Nat /\ Cardinality(Tasks) \in Nat
      /\ Cardinality(MapIds) \in Nat
      /\ Cardinality(MapIds) >= Cardinality(Platforms) + Cardinality(Tasks)
  BY FS_CardinalityType, ConfigAssumption
<1>5. Cardinality(A \cup B) < Cardinality(MapIds)
  BY <1>1, <1>2, <1>3, <1>4
<1>6. A \cup B # MapIds
  <2>1. Cardinality(A \cup B) # Cardinality(MapIds)
    BY <1>3, <1>4, <1>5
  <2>2. QED
    BY <2>1, Zenon
<1>7. \E m \in MapIds : ~InUse(m)
  BY <1>6 DEF A, B, InUse
<1>8. QED
  BY <1>7 DEF FreshMap

-----------------------------------------------------------------------------
(***************************************************************************)
(* Types, the cache and the metrics: ConfigInv, step by step.              *)
(***************************************************************************)

\* The part of the type invariant the steps of one call can break is about the
\* call itself.
LEMMA StepTyped ==
    ASSUME TypeInv, NEW t \in Tasks, OnlyTouches(t), CallOK(t)',
           call' \in [Tasks -> Call], task' \in [Tasks -> Task],
           UNCHANGED configMap, resourceVersion' \in Versions \cup {0},
           platformConfig' \in [Platforms -> Usable \cup {None}],
           registry \subseteq registry', platformMetrics' \subseteq registry',
           registry' \subseteq {Label(p) : p \in Platforms},
           tags' \in [MapIds -> Tasks \cup {None}],
           leftover' \subseteq Tasks, faults' \in 0..MaxFaults
    PROVE  TypeInv'
<1>1. \A u \in Tasks : CallOK(u)'
  BY OthersOK
<1>2. QED
  BY <1>1 DEF TypeInv

\* The coherence of the cache and the registration survive a step that leaves
\* both as they are, if no call leaves the point it is at between the two
\* statements that dump the cache or register metrics.
LEMMA StepCoherent ==
    ASSUME ConfigInv, NEW t \in Tasks, OnlyTouches(t), UNCHANGED <<cacheVars, metricsVars>>,
           ~At(t, "dump"), ~At(t, "enter")
    PROVE  CacheCoherent' /\ RegistrationHeld'
<1>1. UNCHANGED <<resourceVersion, platformConfig, registry, platformMetrics>>
  BY DEF cacheVars, metricsVars
<1>2. \A u \in Tasks : /\ At(u, "dump") => At(u, "dump")'
                       /\ At(u, "enter") => At(u, "enter")' /\ P(u)' = P(u)
  BY DEF OnlyTouches, At, P
<1>3. CacheCoherent'
  BY <1>1, <1>2 DEF ConfigInv, CacheCoherent
<1>4. RegistrationHeld'
  BY <1>1, <1>2 DEF ConfigInv, RegistrationHeld, HalfRegistered
<1>5. QED
  BY <1>3, <1>4

\* The two together, for the steps that touch neither cache nor metrics.
LEMMA PlainStep ==
    ASSUME ConfigInv, NEW t \in Tasks, OnlyTouches(t), CallOK(t)',
           call' \in [Tasks -> Call], task' \in [Tasks -> Task],
           UNCHANGED <<configMap, cacheVars, metricsVars>>,
           tags' \in [MapIds -> Tasks \cup {None}],
           leftover' \subseteq Tasks, faults' \in 0..MaxFaults,
           ~At(t, "dump"), ~At(t, "enter")
    PROVE  ConfigInv'
<1>1. CacheCoherent' /\ RegistrationHeld'
  BY StepCoherent
<1>2. UNCHANGED <<configMap, resourceVersion, platformConfig, registry, platformMetrics>>
  BY DEF cacheVars, metricsVars
<1>3. TypeInv'
  BY <1>2, StepTyped DEF ConfigInv, TypeInv
<1>4. QED
  BY <1>1, <1>3 DEF ConfigInv

\* The read of the ConfigMap.
LEMMA ReadStep ==
    ASSUME ConfigInv, NEW t \in Tasks, Read(t)
    PROVE  ConfigInv'
<1> DEFINE c == [NoCall EXCEPT !.pc = "compare", !.version = configMap.version,
                               !.data = configMap.data]
<1>1. TypeInv /\ call \in [Tasks -> Call] /\ task \in [Tasks -> Task]
  BY DEF ConfigInv, TypeInv
<1>2. /\ c \in Call /\ c.pc = "compare" /\ c.config = None
      /\ c.version \in Versions /\ c.data \in Datas
  BY <1>1 DEF NoCall, Call, PCs, TypeInv
<1>3. call' = [call EXCEPT ![t] = c]
  BY DEF Read
<1> HIDE DEF c
<1>4. call' \in [Tasks -> Call] /\ call'[t] = c /\ OnlyTouches(t) /\ UNCHANGED task
  BY <1>1, <1>2, <1>3 DEF Read, OnlyTouches
<1>5. CallOK(t)'
  BY <1>2, <1>4 DEF Read, CallOK, At
<1>6. QED
  BY <1>1, <1>4, <1>5, PlainStep DEF Read, TypeInv, At

\* The steps that end a call with an error.
LEMMA FailSteps ==
    ASSUME ConfigInv, NEW t \in Tasks, Fails(t), UNCHANGED <<configMap, cacheVars, metricsVars>>,
           UNCHANGED <<tags, leftover>>, faults' \in 0..MaxFaults,
           ~At(t, "dump"), ~At(t, "enter")
    PROVE  ConfigInv'
BY FailsEffect, IdleOK, PlainStep DEF ConfigInv, TypeInv

\* The version is compared: a cache of another version is about to be dumped.
LEMMA CompareStep ==
    ASSUME ConfigInv, NEW t \in Tasks, Compare(t)
    PROVE  ConfigInv'
<1>1. TypeInv /\ CallOK(t) /\ UNCHANGED task
  BY Typed DEF ConfigInv, Compare
<1>2. PICK pc \in {"dump", "lookup"} : Goto(t, pc)
  BY DEF Compare
<1>3. /\ call' \in [Tasks -> Call] /\ OnlyTouches(t)
      /\ call'[t].pc = pc /\ call'[t].config = call[t].config
      /\ call'[t].version = call[t].version /\ call'[t].data = call[t].data
  BY <1>1, <1>2, GotoEffect DEF PCs, OnlyTouches
<1>4. CallOK(t)'
  BY <1>1, <1>2, <1>3 DEF Compare, CallOK, At
<1>5. CASE resourceVersion' = resourceVersion
  BY <1>1, <1>3, <1>4, <1>5, PlainStep DEF Compare, TypeInv, At, cacheVars
<1>6. CASE resourceVersion' = call[t].version /\ Goto(t, "dump")
  <2>1. At(t, "dump")'
    BY <1>1, <1>6, GotoEffect DEF PCs, At
  <2>2. CacheCoherent'
    BY <2>1 DEF CacheCoherent
  <2>3. UNCHANGED <<configMap, platformConfig, registry, platformMetrics, tags, leftover, faults>>
    BY DEF Compare, metricsVars
  <2>4. TypeInv'
    BY <1>1, <1>3, <1>4, <1>6, <2>3, StepTyped DEF TypeInv, CallOK, Compare, At
  <2>5. \A u \in Tasks : At(u, "enter") => At(u, "enter")' /\ P(u)' = P(u)
    BY <1>3 DEF Compare, OnlyTouches, At, P
  <2>6. RegistrationHeld'
    BY <2>3, <2>5 DEF ConfigInv, RegistrationHeld, HalfRegistered
  <2>7. QED
    BY <2>2, <2>4, <2>6 DEF ConfigInv
<1>7. QED
  BY <1>5, <1>6 DEF Compare

\* A step that changes the cache and leaves the metrics alone.
LEMMA CacheStep ==
    ASSUME ConfigInv, NEW t \in Tasks, OnlyTouches(t), CallOK(t)',
           call' \in [Tasks -> Call], UNCHANGED task,
           UNCHANGED <<configMap, resourceVersion, metricsVars, tags, leftover, faults>>,
           platformConfig' \in [Platforms -> Usable \cup {None}],
           CacheCoherent', ~At(t, "enter")
    PROVE  ConfigInv'
<1>1. UNCHANGED <<registry, platformMetrics>>
  BY DEF metricsVars
<1>2. TypeInv'
  BY <1>1, StepTyped DEF ConfigInv, TypeInv
<1>3. \A u \in Tasks : At(u, "enter") => At(u, "enter")' /\ P(u)' = P(u)
  BY DEF OnlyTouches, At, P
<1>4. RegistrationHeld'
  BY <1>1, <1>3 DEF ConfigInv, RegistrationHeld, HalfRegistered
<1>5. QED
  BY <1>2, <1>4 DEF ConfigInv

\* The cache is dumped.
LEMMA DumpStep ==
    ASSUME ConfigInv, NEW t \in Tasks, Dump(t)
    PROVE  ConfigInv'
<1>1. TypeInv /\ CallOK(t) /\ UNCHANGED task /\ Goto(t, "lookup")
  BY Typed DEF ConfigInv, Dump
<1>2. /\ call' \in [Tasks -> Call] /\ OnlyTouches(t)
      /\ call'[t].pc = "lookup" /\ call'[t].config = call[t].config
      /\ call'[t].version = call[t].version /\ call'[t].data = call[t].data
  BY <1>1, GotoEffect DEF PCs, OnlyTouches
<1>3. CallOK(t)'
  BY <1>1, <1>2 DEF Dump, CallOK, At
<1>4. platformConfig' = [p \in Platforms |-> None]
  BY DEF Dump
<1>5. CacheCoherent'
  BY <1>4 DEF CacheCoherent
<1>6. QED
  BY <1>1, <1>2, <1>3, <1>4, <1>5, CacheStep DEF Dump, At

\* A configuration that is cached is taken from the cache.
LEMMA HitStep ==
    ASSUME ConfigInv, NEW t \in Tasks, Hit(t)
    PROVE  ConfigInv'
<1> DEFINE c == [call[t] EXCEPT !.pc = "use", !.config = platformConfig[P(t)]]
<1>1. /\ TypeInv /\ CallOK(t) /\ UNCHANGED task /\ call[t] \in Call
      /\ call \in [Tasks -> Call] /\ P(t) \in Platforms
  BY Typed DEF ConfigInv, Hit
<1>2. platformConfig[P(t)] \in Usable /\ platformConfig[P(t)] # None
  BY <1>1 DEF Hit, TypeInv
<1>3. /\ c \in Call /\ c.pc = "use" /\ c.config # None
      /\ c.version = call[t].version /\ c.data = call[t].data
  BY <1>1, <1>2 DEF Call, PCs
<1>4. call' = [call EXCEPT ![t] = c]
  BY <1>1 DEF Hit
<1> HIDE DEF c
<1>5. call' \in [Tasks -> Call] /\ call'[t] = c /\ OnlyTouches(t)
  BY <1>1, <1>3, <1>4 DEF OnlyTouches
<1>6. CallOK(t)'
  BY <1>1, <1>3, <1>5 DEF Hit, CallOK, At
<1>7. QED
  BY <1>1, <1>5, <1>6, PlainStep DEF Hit, TypeInv, At

\* The configuration a call makes on a miss, and the call after it.
LEMMA MissEffect ==
    ASSUME TypeInv, NEW t \in Tasks, Miss(t)
    PROVE  /\ call' \in [Tasks -> Call] /\ UNCHANGED task /\ OnlyTouches(t)
           /\ call'[t].version = call[t].version /\ call'[t].data = call[t].data
           /\ call'[t].config \in Usable
           /\ call'[t].config.of = Resolve(call[t].data, P(t))
           /\ call'[t].config.version = call[t].version
           /\ call'[t].pc \in {"use", "register", "store"}
           /\ \/ call'[t].config.tags = None /\ tags' = tags
              \/ /\ call'[t].config.tags = FreshMap /\ tags' = [tags EXCEPT ![FreshMap] = None]
                 /\ FreshMap \in MapIds /\ ~InUse(FreshMap)
<1> DEFINE made == Resolve(call[t].data, P(t))
           map == IF made.kind \in {"dynamic", "pool"} THEN FreshMap ELSE None
           config == [of |-> made, tags |-> map, version |-> call[t].version,
                      overtaken |-> FALSE]
           c == [call[t] EXCEPT !.pc = AfterMiss(made.kind), !.config = config]
<1>1. /\ CallOK(t) /\ UNCHANGED task /\ call[t] \in Call
      /\ call \in [Tasks -> Call] /\ P(t) \in Platforms
  BY Typed DEF Miss
<1>2. call[t].config = None /\ call[t].version \in Versions /\ call[t].data \in Datas
  BY <1>1 DEF Miss, CallOK, At
<1>3. FreshMap \in MapIds /\ ~InUse(FreshMap)
  BY <1>2, FreshMapFound
<1>4. made.kind \in Kinds \ {"error"}
  BY <1>1, <1>2, ConfigAssumption DEF Miss
<1>5. /\ map \in MapIds \cup {None}
      /\ made.kind \in {"dynamic", "pool"} => map \in MapIds
      /\ tags' = IF map = None THEN tags ELSE [tags EXCEPT ![map] = None]
  BY <1>3 DEF Miss
<1>6. config \in Usable
  BY <1>1, <1>2, <1>4, <1>5, MadeUsable
<1>7. AfterMiss(made.kind) \in {"use", "register", "store"}
  BY <1>4 DEF AfterMiss, Kinds
<1>8. call' = [call EXCEPT ![t] = c]
  BY <1>1 DEF Miss
<1>9. /\ config.of = Resolve(call[t].data, P(t)) /\ config.tags = map
      /\ config.version = call[t].version
  OBVIOUS
<1>10. map = None \/ map = FreshMap
  OBVIOUS
<1> HIDE DEF config, map, made
<1>11. /\ c \in Call /\ c.pc \in {"use", "register", "store"} /\ c.config = config
       /\ c.version = call[t].version /\ c.data = call[t].data
  BY <1>1, <1>6, <1>7 DEF Call, PCs
<1> HIDE DEF c
<1>12. call' \in [Tasks -> Call] /\ call'[t] = c /\ OnlyTouches(t)
  BY <1>1, <1>8, <1>11 DEF OnlyTouches
<1>13. \/ config.tags = None /\ tags' = tags
       \/ config.tags = FreshMap /\ tags' = [tags EXCEPT ![FreshMap] = None]
  BY <1>3, <1>5, <1>9, <1>10, ConfigAssumption
<1>14. QED
  BY <1>1, <1>3, <1>6, <1>9, <1>11, <1>12, <1>13

\* A configuration is made.
LEMMA MissStep ==
    ASSUME ConfigInv, NEW t \in Tasks, Miss(t)
    PROVE  ConfigInv'
<1>1. TypeInv /\ CallOK(t) /\ call[t].pc = "lookup"
  BY Typed DEF ConfigInv, Miss, At
<1>2. call'[t].config # None
  BY <1>1, MissEffect, UsableFields
<1>3. CallOK(t)'
  BY <1>1, <1>2, MissEffect DEF CallOK, At
<1>4. tags' \in [MapIds -> Tasks \cup {None}]
  BY <1>1, MissEffect DEF TypeInv
<1>5. QED
  BY <1>1, <1>3, <1>4, MissEffect, PlainStep DEF Miss, TypeInv, At

\* It enters the cache, marked when the cache has become of another version.
LEMMA StoreEffect ==
    ASSUME TypeInv, NEW t \in Tasks, Store(t)
    PROVE  /\ call' \in [Tasks -> Call] /\ UNCHANGED task /\ OnlyTouches(t) /\ CallOK(t)'
           /\ call'[t].config = call[t].config
           /\ platformConfig' \in [Platforms -> Usable \cup {None}]
           /\ \A p \in Platforms \ {P(t)} : platformConfig'[p] = platformConfig[p]
           /\ platformConfig'[P(t)].version = call[t].version
           /\ platformConfig'[P(t)].overtaken <=> resourceVersion # call[t].version
           /\ platformConfig'[P(t)].of = call[t].config.of
           /\ platformConfig'[P(t)].tags = call[t].config.tags
           /\ call[t].config \in Usable /\ call[t].config.version = call[t].version
           /\ call'[t].version = call[t].version /\ call'[t].data = call[t].data
           /\ call'[t].pc # "idle"
<1> DEFINE b == resourceVersion # call[t].version
           s == [call[t].config EXCEPT !.overtaken = b]
<1>1. /\ CallOK(t) /\ UNCHANGED task /\ P(t) \in Platforms /\ call[t] \in Call
  BY Typed DEF Store
<1>2. call[t].config \in Usable /\ call[t].config.version = call[t].version
  BY <1>1 DEF Store, CallOK, At, Call
<1>3. b \in BOOLEAN
  OBVIOUS
<1>4. platformConfig' = [platformConfig EXCEPT ![P(t)] = s]
  BY DEF Store
<1>5. PICK pc \in {"register", "use"} : Goto(t, pc)
  BY DEF Store
<1>6. /\ call' \in [Tasks -> Call] /\ OnlyTouches(t)
      /\ call'[t].pc = pc /\ call'[t].config = call[t].config
      /\ call'[t].version = call[t].version /\ call'[t].data = call[t].data
  BY <1>1, <1>5, GotoEffect DEF PCs, OnlyTouches
<1>7. CallOK(t)'
  BY <1>1, <1>6 DEF Store, CallOK, At
<1> HIDE DEF b
<1>8. /\ s \in Usable /\ (s.overtaken <=> b) /\ s.of = call[t].config.of
      /\ s.tags = call[t].config.tags /\ s.version = call[t].version
  BY <1>2, <1>3, UsableFields
<1> HIDE DEF s
<1>9. /\ platformConfig' \in [Platforms -> Usable \cup {None}]
      /\ platformConfig'[P(t)] = s
      /\ \A p \in Platforms \ {P(t)} : platformConfig'[p] = platformConfig[p]
  BY <1>1, <1>4, <1>8 DEF TypeInv
<1>10. QED
  BY <1>1, <1>2, <1>6, <1>7, <1>8, <1>9 DEF b

LEMMA StoreStep ==
    ASSUME ConfigInv, NEW t \in Tasks, Store(t)
    PROVE  ConfigInv'
<1>1. TypeInv /\ P(t) \in Platforms
  BY Typed DEF ConfigInv
<1>2. UNCHANGED resourceVersion
  BY DEF Store
<1>3. \A u \in Tasks : At(u, "dump") => At(u, "dump")'
  BY <1>1, StoreEffect DEF Store, OnlyTouches, At
<1>4. CacheCoherent'
  BY <1>1, <1>2, <1>3, StoreEffect DEF ConfigInv, CacheCoherent
<1>5. QED
  BY <1>1, <1>4, StoreEffect, CacheStep DEF Store, At

\* The metrics are looked up: there is no need to register them, or there is.
LEMMA RegisterStep ==
    ASSUME ConfigInv, NEW t \in Tasks, Register(t)
    PROVE  ConfigInv'
<1>1. TypeInv /\ CallOK(t) /\ UNCHANGED task
  BY Typed DEF ConfigInv, Register
<1>2. PICK pc \in {"use", "store", "collect"} : Goto(t, pc)
  BY DEF Register, AfterMetrics
<1>3. /\ call' \in [Tasks -> Call] /\ OnlyTouches(t)
      /\ call'[t].pc = pc /\ call'[t].config = call[t].config
      /\ call'[t].version = call[t].version /\ call'[t].data = call[t].data
  BY <1>1, <1>2, GotoEffect DEF PCs, OnlyTouches
<1>4. CallOK(t)'
  BY <1>1, <1>2, <1>3 DEF Register, CallOK, At
<1>5. QED
  BY <1>1, <1>3, <1>4, PlainStep DEF Register, TypeInv, At

\* They are registered, and then entered: RegisterPlatformMetrics.
LEMMA MetricsSteps ==
    ASSUME ConfigInv, NEW t \in Tasks, Collect(t) \/ Enter(t)
    PROVE  ConfigInv'
<1>1. /\ TypeInv /\ CallOK(t) /\ UNCHANGED task /\ P(t) \in Platforms
      /\ UNCHANGED <<configMap, resourceVersion, platformConfig, tags, leftover, faults>>
  BY Typed DEF ConfigInv, Collect, Enter, cacheVars
<1>2. PICK pc \in {"use", "store", "enter"} : Goto(t, pc) /\ (Collect(t) <=> pc = "enter")
  BY DEF Collect, Enter, AfterMetrics, At
<1>3. /\ call' \in [Tasks -> Call] /\ OnlyTouches(t)
      /\ call'[t].pc = pc /\ call'[t].config = call[t].config
      /\ call'[t].version = call[t].version /\ call'[t].data = call[t].data
  BY <1>1, <1>2, GotoEffect DEF PCs, OnlyTouches
<1>4. Collect(t) => registry' = registry \cup {Label(P(t))} /\ UNCHANGED platformMetrics
  BY DEF Collect
<1>5. Enter(t) => platformMetrics' = platformMetrics \cup {Label(P(t))} /\ UNCHANGED registry
  BY DEF Enter
<1>6. call[t].pc \in {"collect", "enter"} /\ (call[t].pc = "enter" => Enter(t))
  BY DEF Collect, Enter, At
<1>7. CallOK(t)'
  BY <1>1, <1>2, <1>3, <1>4, <1>6 DEF CallOK, At, P
<1>8. TypeInv'
  <2>1. Enter(t) => Label(P(t)) \in registry
    BY <1>1 DEF Enter, CallOK
  <2>2. /\ registry \subseteq registry' /\ platformMetrics' \subseteq registry'
        /\ registry' \subseteq {Label(p) : p \in Platforms}
    BY <1>1, <1>4, <1>5, <2>1 DEF TypeInv
  <2>3. QED
    BY <1>1, <1>3, <1>7, <2>2, StepTyped DEF TypeInv
<1>9. CacheCoherent'
  <2>1. \A u \in Tasks : At(u, "dump") => At(u, "dump")'
    BY <1>3, <1>6 DEF OnlyTouches, At
  <2>2. QED
    BY <1>1, <2>1 DEF ConfigInv, CacheCoherent
<1>10. RegistrationHeld'
  <2>1. SUFFICES ASSUME NEW p \in Platforms, HalfRegistered(Label(p))'
                 PROVE  \E u \in Tasks : At(u, "enter")' /\ Label(P(u)') = Label(p)
    BY DEF RegistrationHeld
  <2>2. \A u \in Tasks : P(u)' = P(u)
    BY <1>1 DEF P
  <2>3. CASE Collect(t)
    <3>1. At(t, "enter")' /\ \A u \in Tasks : At(u, "enter") => At(u, "enter")'
      BY <1>2, <1>3, <2>3 DEF Collect, OnlyTouches, At
    <3>2. HalfRegistered(Label(p)) \/ Label(p) = Label(P(t))
      BY <1>4, <2>1, <2>3 DEF HalfRegistered
    <3>3. QED
      BY <2>2, <3>1, <3>2 DEF ConfigInv, RegistrationHeld
  <2>4. CASE Enter(t)
    <3>1. HalfRegistered(Label(p)) /\ Label(p) # Label(P(t))
      BY <1>5, <2>1, <2>4 DEF HalfRegistered
    <3>2. PICK u \in Tasks : At(u, "enter") /\ Label(P(u)) = Label(p)
      BY <3>1 DEF ConfigInv, RegistrationHeld
    <3>3. At(u, "enter")'
      BY <1>3, <3>1, <3>2 DEF OnlyTouches, At
    <3>4. QED
      BY <2>2, <3>2, <3>3
  <2>5. QED
    BY <2>3, <2>4
<1>11. QED
  BY <1>8, <1>9, <1>10 DEF ConfigInv

\* The configuration in hand where it is used.
LEMMA InHand ==
    ASSUME TypeInv, NEW t \in Tasks, call[t].pc \in {"use", "configure"}
    PROVE  /\ call[t].config \in Usable
           /\ call[t].config.of.hosts \subseteq HostNames
<1>1. call[t].config \in Usable
  BY Typed DEF CallOK, Call
<1>2. PICK d \in Datas, p \in Platforms : call[t].config.of = Resolve(d, p)
  BY <1>1 DEF Usable, Config
<1>3. QED
  BY <1>1, <1>2 DEF HostNames, Configured

\* No static host is needed for the others.
LEMMA NoneHost == None \in HostNames
BY DEF HostNames

\* A host is allocated, or an instance launched; the rest of a call that has a
\* configuration.
LEMMA AllocateSteps ==
    ASSUME ConfigInv, NEW t \in Tasks,
           AllocateStatic(t) \/ AllocateLocal(t) \/ configureInstance(t)
    PROVE  ConfigInv'
<1>1. /\ TypeInv /\ CallOK(t) /\ call[t].pc \in {"use", "configure"}
      /\ UNCHANGED <<configMap, cacheVars, metricsVars, tags, leftover, faults>>
  BY Typed DEF ConfigInv, AllocateStatic, AllocateLocal, configureInstance, Allocating, At
<1>2. ~At(t, "dump") /\ ~At(t, "enter") /\ faults' \in 0..MaxFaults
  BY <1>1 DEF TypeInv, At
<1>3. CASE Fails(t)
  BY <1>1, <1>2, <1>3, FailSteps
<1>4. ASSUME NEW host \in HostNames, NEW tag \in Tasks \cup {None}, Holds(t, host, tag)
      PROVE  ConfigInv'
  <2>1. call[t].config \in Usable
    BY <1>1, InHand
  <2>2. /\ call' \in [Tasks -> Call] /\ task' \in [Tasks -> Task] /\ OnlyTouches(t)
        /\ call'[t].pc = "idle" /\ call'[t].config = None
    BY <1>1, <1>4, <2>1, HoldsEffect
  <2>3. /\ CallOK(t)' /\ tags' \in [MapIds -> Tasks \cup {None}] /\ leftover' \subseteq Tasks
    BY <1>1, <2>2, IdleOK DEF TypeInv
  <2>4. QED
    BY <1>1, <1>2, <2>2, <2>3, PlainStep
<1>5. CASE AllocateStatic(t)
  BY <1>1, <1>3, <1>4, <1>5, InHand DEF AllocateStatic
<1>6. CASE AllocateLocal(t)
  BY <1>4, <1>6, NoneHost DEF AllocateLocal
<1>7. CASE configureInstance(t)
  <2>1. tags[call[t].config.tags] \in Tasks \cup {None}
    BY <1>1, <1>7 DEF configureInstance, CallOK, TypeInv, At
  <2>2. QED
    BY <1>4, <1>7, <2>1, NoneHost DEF configureInstance
<1>8. QED
  BY <1>5, <1>6, <1>7

LEMMA LaunchStep ==
    ASSUME ConfigInv, NEW t \in Tasks, LaunchInstance(t)
    PROVE  ConfigInv'
<1>1. /\ TypeInv /\ CallOK(t) /\ UNCHANGED task /\ Goto(t, "configure")
      /\ call[t].pc = "use" /\ task[t].phase = "new"
      /\ call[t].config.of.kind \in {"dynamic", "pool"}
  BY Typed DEF ConfigInv, LaunchInstance, Allocating, At
<1>2. /\ call' \in [Tasks -> Call] /\ OnlyTouches(t)
      /\ call'[t].pc = "configure" /\ call'[t].config = call[t].config
      /\ call'[t].version = call[t].version /\ call'[t].data = call[t].data
  BY <1>1, GotoEffect DEF PCs, OnlyTouches
<1>3. call[t].config.tags \in MapIds
  BY <1>1, InHand DEF Usable
<1>4. CallOK(t)'
  BY <1>1, <1>2, <1>3 DEF CallOK, At
<1>5. tags' \in [MapIds -> Tasks \cup {None}]
  BY <1>1, <1>3 DEF LaunchInstance, TypeInv
<1>6. QED
  BY <1>1, <1>2, <1>4, <1>5, PlainStep DEF LaunchInstance, TypeInv, At

\* Deallocate: the TaskRun is released, whatever became of its host.
LEMMA DeallocateEffect ==
    ASSUME TypeInv, NEW t \in Tasks, Deallocate(t)
    PROVE  /\ call' \in [Tasks -> Call] /\ task' \in [Tasks -> Task] /\ OnlyTouches(t)
           /\ call'[t].pc = "idle" /\ call'[t].config = None
           /\ task'[t].phase = "released" /\ task'[t].held.tag = task[t].held.tag
           /\ task'[t].held.fresh => /\ task[t].held.fresh
                                     /\ task[t].held.version = call[t].version
                                     /\ call[t].config.version = call[t].version
<1> DEFINE b == /\ task[t].held.fresh
                /\ task[t].held.version = call[t].version
                /\ call[t].config.version = call[t].version
           h == [task[t].held EXCEPT !.fresh = b]
           k == [task[t] EXCEPT !.phase = "released", !.held = h]
<1>1. task[t] \in Task /\ task \in [Tasks -> Task] /\ task[t].held \in Held
  BY Typed DEF Task
<1>2. b \in BOOLEAN
  OBVIOUS
<1>3. task' = [task EXCEPT ![t] = k]
  BY <1>1 DEF Deallocate
<1> HIDE DEF b
<1>4. h \in Held /\ (h.fresh <=> b) /\ h.tag = task[t].held.tag
  BY <1>1, <1>2 DEF Held
<1> HIDE DEF h
<1>5. k \in Task /\ k.phase = "released" /\ k.held = h /\ k.platform = task[t].platform
  BY <1>1, <1>4 DEF Task, Phases
<1> HIDE DEF k
<1>6. call' = [call EXCEPT ![t] = NoCall]
  BY DEF Deallocate
<1>7. task' \in [Tasks -> Task] /\ task'[t] = k /\ OnlyTouches(t)
  BY <1>1, <1>3, <1>5, <1>6, EndEffect DEF OnlyTouches
<1>8. QED
  BY <1>4, <1>5, <1>6, <1>7, EndEffect DEF b

LEMMA DeallocateStep ==
    ASSUME ConfigInv, NEW t \in Tasks, Deallocate(t)
    PROVE  ConfigInv'
<1>1. TypeInv /\ call[t].pc = "use"
  BY DEF ConfigInv, Deallocate, At
<1>2. leftover' \subseteq Tasks
  BY <1>1 DEF Deallocate, TypeInv
<1>3. QED
  BY <1>1, <1>2, DeallocateEffect, IdleOK, PlainStep DEF Deallocate, TypeInv, At

\* Outside the calls: the ConfigMap changes, a TaskRun completes.
LEMMA OutsideSteps ==
    ASSUME ConfigInv, ChangeConfigMap \/ \E t \in Tasks : Complete(t)
    PROVE  ConfigInv'
<1>1. CASE ChangeConfigMap
  <2>1. UNCHANGED <<resourceVersion, platformConfig, registry, platformMetrics, tags, call, task,
                    leftover, faults>>
    BY <1>1 DEF ChangeConfigMap, cacheVars, metricsVars
  <2>2. configMap' \in [version : Versions, data : Datas]
    BY <1>1, ConfigAssumption DEF ChangeConfigMap, ConfigInv, TypeInv, Versions
  <2>3. \A u \in Tasks : CallOK(u)'
    BY <2>1 DEF ConfigInv, TypeInv, CallOK, At, P
  <2>4. CacheCoherent' /\ RegistrationHeld'
    BY <2>1 DEF ConfigInv, CacheCoherent, RegistrationHeld, HalfRegistered, At, P
  <2>5. TypeInv'
    BY <2>1, <2>2, <2>3 DEF ConfigInv, TypeInv
  <2>6. QED
    BY <2>4, <2>5 DEF ConfigInv
<1>2. ASSUME NEW t \in Tasks, Complete(t) PROVE ConfigInv'
  <2>1. TypeInv /\ CallOK(t) /\ task[t].phase = "running"
    BY <1>2, Typed DEF ConfigInv, Complete
  <2>2. task' \in [Tasks -> Task] /\ OnlyTouches(t) /\ UNCHANGED call
    BY <1>2, <2>1, Typed DEF Complete, OnlyTouches, Task, Phases
  <2>3. call[t].pc = "idle" /\ call[t].config = None
    BY <2>1 DEF CallOK, At
  <2>4. QED
    BY <1>2, <2>1, <2>2, <2>3, IdleOK, PlainStep DEF Complete, TypeInv, At
<1>3. QED
  BY <1>1, <1>2

\* A restart forgets the cache, the metrics and the calls.
LEMMA RestartStep ==
    ASSUME ConfigInv, Restart
    PROVE  ConfigInv'
<1>1. \A t \in Tasks : call'[t].pc = "idle" /\ call'[t].config = None
  BY NoCallFields DEF Restart
<1>2. \A t \in Tasks : CallOK(t)'
  BY <1>1, IdleOK
<1>3. TypeInv'
  BY <1>2, NoCallFields, ConfigAssumption DEF Restart, ConfigInv, TypeInv
<1>4. CacheCoherent' /\ RegistrationHeld'
  BY DEF Restart, CacheCoherent, RegistrationHeld, HalfRegistered
<1>5. QED
  BY <1>3, <1>4 DEF ConfigInv

\* Before the first reconcile.
LEMMA ConfigInit == Init => ConfigInv
<1>1. SUFFICES ASSUME Init PROVE ConfigInv
  OBVIOUS
<1>2. PICK wanted \in Wants :
         task = [t \in Tasks |-> [platform |-> wanted[t], phase |-> "new", held |-> NoHost]]
  BY <1>1 DEF Init
<1>3. NoHost \in Held
  BY NoneHost DEF NoHost, Held, Kinds
<1>4. task \in [Tasks -> Task]
  BY <1>2, <1>3, ConfigAssumption DEF Task, Phases
<1>5. \A t \in Tasks : CallOK(t)
  BY <1>1, NoCallFields DEF Init, CallOK, At
<1>6. configMap \in [version : Versions, data : Datas]
  BY <1>1, ConfigAssumption DEF Init, Versions
<1>7. TypeInv
  BY <1>1, <1>4, <1>5, <1>6, NoCallFields, ConfigAssumption DEF Init, TypeInv
<1>8. CacheCoherent /\ RegistrationHeld
  BY <1>1 DEF Init, CacheCoherent, RegistrationHeld, HalfRegistered
<1>9. QED
  BY <1>7, <1>8 DEF ConfigInv

\* ConfigInv is inductive.
LEMMA ConfigNext == ConfigInv /\ [Next]_vars => ConfigInv'
<1>1. SUFFICES ASSUME ConfigInv, [Next]_vars PROVE ConfigInv'
  OBVIOUS
<1>2. CASE UNCHANGED vars
  BY <1>1, <1>2 DEF vars, ConfigInv, TypeInv, CallOK, CacheCoherent, RegistrationHeld,
                    HalfRegistered, At, P
<1>3. ASSUME NEW t \in Tasks, ReadFails(t) \/ MissFails(t) \/ CollectFails(t)
      PROVE  ConfigInv'
  <2>1. /\ Fails(t) /\ UNCHANGED <<configMap, cacheVars, metricsVars>>
        /\ UNCHANGED <<tags, leftover>> /\ ~At(t, "dump") /\ ~At(t, "enter")
    BY <1>3 DEF ReadFails, MissFails, CollectFails, At
  <2>2. faults' \in 0..MaxFaults
    BY <1>1, <1>3, ConfigAssumption DEF ReadFails, MissFails, CollectFails, ConfigInv, TypeInv
  <2>3. QED
    BY <1>1, <2>1, <2>2, FailSteps
<1>4. ASSUME NEW t \in Tasks, Step(t) PROVE ConfigInv'
  BY <1>1, <1>3, <1>4, ReadStep, CompareStep, DumpStep, HitStep, MissStep, StoreStep,
     RegisterStep, MetricsSteps, AllocateSteps, LaunchStep, DeallocateStep DEF Step
<1>5. QED
  BY <1>1, <1>2, <1>3, <1>4, OutsideSteps, RestartStep DEF Next

\* Every variable of the cache, the metrics and the calls keeps its type, and a
\* set of metrics is entered only when its collectors are registered.
THEOREM ConfigTyping == Spec => []TypeOK
<1>1. ConfigInv => TypeOK
  BY DEF ConfigInv, TypeInv, TypeOK, Usable, Call, Task
<1>2. QED
  BY <1>1, ConfigInit, ConfigNext, PTL DEF Spec

\* A cached configuration is of the version the cache claims to be of, unless
\* the cache is about to be dumped or the call that stored it was overtaken: the
\* only ways in which the unlocked fields of the reconciler disagree
\* (taskrun.go, getPlatformConfig).
THEOREM CacheIsCoherent == Spec => []CacheCoherent
<1>1. ConfigInv => CacheCoherent
  BY DEF ConfigInv
<1>2. QED
  BY <1>1, ConfigInit, ConfigNext, PTL DEF Spec

\* Metrics that are registered and not entered are about to be entered by a
\* call, so that no platform is refused for ever (RegisterPlatformMetrics in
\* pkg/metrics/platform.go).
THEOREM RegistrationIsHeld == Spec => []RegistrationHeld
<1>1. ConfigInv => RegistrationHeld
  BY DEF ConfigInv
<1>2. QED
  BY <1>1, ConfigInit, ConfigNext, PTL DEF Spec

-----------------------------------------------------------------------------
(***************************************************************************)
(* The tags maps.                                                          *)
(***************************************************************************)

SamePlatforms == \A u \in Tasks : task'[u].platform = task[u].platform

\* A step after which every configuration there is, and every tag of a host
\* held, was there before.
MapsKept ==
    /\ SamePlatforms
    /\ \A p \in Platforms : platformConfig'[p] \in {None, platformConfig[p]}
    /\ \A u \in Tasks : call'[u].config \in {None, call[u].config}
    /\ \A u \in Tasks : task'[u].held.tag \in {None, task[u].held.tag}

\* The tags as they are stored in a TaskRun's host.
LEMMA HeldTag ==
    ASSUME TypeInv, NEW t \in Tasks
    PROVE  task[t].held.tag \in Tasks \cup {None}
BY Typed DEF Task, Held

\* The invariant speaks only of the platforms that use a map, of what is in the
\* maps and of the tags held: it survives a step that adds to none of them.
LEMMA TagsKept ==
    ASSUME TypeInv, TagInv, SamePlatforms,
           \A m \in MapIds : \A p \in Platforms : UsedBy(m, p)' => UsedBy(m, p),
           \A m \in MapIds : tags'[m] \in {None, tags[m]},
           \A u \in Tasks : task'[u].held.tag \in {None, task[u].held.tag}
    PROVE  TagInv'
<1>1. \A m \in MapIds : tags[m] \in Tasks \cup {None}
  BY DEF TypeInv
<1>2. \A m \in MapIds : \A p, q \in Platforms : UsedBy(m, p)' /\ UsedBy(m, q)' => p = q
  BY DEF TagInv
<1>3. \A m \in MapIds : \A p \in Platforms :
         UsedBy(m, p)' /\ tags'[m] # None => P(tags[m])' = p
  BY <1>1 DEF TagInv, SamePlatforms, P
<1>4. TagsStayInPlatform'
  BY HeldTag DEF TagInv, TagsStayInPlatform, SamePlatforms, P
<1>5. QED
  BY <1>2, <1>3, <1>4 DEF TagInv

\* No configuration is new: no platform uses another map than before.
LEMMA MapsKeptHolds ==
    ASSUME TypeInv, TagInv, MapsKept, \A m \in MapIds : tags'[m] \in {None, tags[m]}
    PROVE  TagInv'
<1>1. \A m \in MapIds : \A p \in Platforms : UsedBy(m, p)' => UsedBy(m, p)
  BY DEF MapsKept, SamePlatforms, UsedBy, P
<1>2. QED
  BY <1>1, TagsKept DEF MapsKept

\* The configuration in hand, or in the cache, is one of the TaskRun's platform.
LEMMA InHandUsed ==
    ASSUME NEW t \in Tasks, NEW m, call[t].config # None, call[t].config.tags = m
    PROVE  UsedBy(m, P(t))
BY DEF UsedBy

\* A hit and a store copy a configuration within its platform.
LEMMA CopySteps ==
    ASSUME TypeInv, TagInv, NEW t \in Tasks, Hit(t) \/ Store(t)
    PROVE  TagInv'
<1>1. /\ UNCHANGED <<task, tags>> /\ SamePlatforms /\ P(t) \in Platforms
      /\ \A u \in Tasks : P(u)' = P(u)
  BY Typed DEF Hit, Store, SamePlatforms, P
<1>2. CASE Hit(t)
  <2>1. /\ call'[t].config = platformConfig[P(t)] /\ platformConfig[P(t)] # None
        /\ UNCHANGED platformConfig /\ \A u \in Tasks \ {t} : call'[u] = call[u]
    BY <1>2, Typed DEF Hit, Call, cacheVars
  <2>2. \A m \in MapIds : \A p \in Platforms : UsedBy(m, p)' => UsedBy(m, p)
    BY <1>1, <2>1 DEF UsedBy
  <2>3. QED
    BY <1>1, <2>2, TagsKept
<1>3. CASE Store(t)
  <2>1. /\ call[t].config # None
        /\ \A u \in Tasks : call'[u].config = call[u].config
        /\ platformConfig'[P(t)].tags = call[t].config.tags
        /\ \A p \in Platforms \ {P(t)} : platformConfig'[p] = platformConfig[p]
    BY <1>3, StoreEffect, UsableFields DEF OnlyTouches
  <2>2. \A m \in MapIds : \A p \in Platforms : UsedBy(m, p)' => UsedBy(m, p)
    BY <1>1, <2>1 DEF UsedBy
  <2>3. QED
    BY <1>1, <2>2, TagsKept
<1>4. QED
  BY <1>2, <1>3

\* A miss makes a map nobody uses, and empties it.
LEMMA MissTags ==
    ASSUME TypeInv, TagInv, NEW t \in Tasks, Miss(t)
    PROVE  TagInv'
<1>1. /\ UNCHANGED task /\ SamePlatforms /\ \A u \in Tasks : P(u)' = P(u)
      /\ UNCHANGED platformConfig /\ \A u \in Tasks \ {t} : call'[u] = call[u]
      /\ P(t) \in Platforms
  BY MissEffect, Typed DEF Miss, SamePlatforms, P, OnlyTouches, cacheVars
<1>2. \A m \in MapIds : \A p \in Platforms :
         UsedBy(m, p)' => UsedBy(m, p) \/ (m = call'[t].config.tags /\ p = P(t))
  BY <1>1 DEF UsedBy
<1>3. CASE call'[t].config.tags = None /\ tags' = tags
  <2>1. \A m \in MapIds : \A p \in Platforms : UsedBy(m, p)' => UsedBy(m, p)
    BY <1>2, <1>3, ConfigAssumption
  <2>2. QED
    BY <1>1, <1>3, <2>1, TagsKept
<1>4. CASE /\ call'[t].config.tags = FreshMap /\ tags' = [tags EXCEPT ![FreshMap] = None]
           /\ FreshMap \in MapIds /\ ~InUse(FreshMap)
  <2>1. \A p \in Platforms : ~UsedBy(FreshMap, p)
    BY <1>4 DEF UsedBy, InUse
  <2>2. /\ tags'[FreshMap] = None
        /\ \A m \in MapIds : m # FreshMap => tags'[m] = tags[m]
    BY <1>4 DEF TypeInv
  <2>3. \A m \in MapIds : \A p, q \in Platforms : UsedBy(m, p)' /\ UsedBy(m, q)' => p = q
    BY <1>2, <1>4, <2>1 DEF TagInv
  <2>4. \A m \in MapIds : \A p \in Platforms :
           UsedBy(m, p)' /\ tags'[m] # None => UsedBy(m, p) /\ tags'[m] = tags[m]
    BY <1>2, <1>4, <2>2
  <2>5. \A m \in MapIds : \A p \in Platforms :
           UsedBy(m, p)' /\ tags'[m] # None => P(tags[m])' = p
    BY <1>1, <2>4 DEF TagInv, P
  <2>6. TagsStayInPlatform'
    BY <1>1 DEF TagInv, TagsStayInPlatform, P
  <2>7. QED
    BY <2>3, <2>5, <2>6 DEF TagInv
<1>5. QED
  BY <1>3, <1>4, MissEffect

\* A launch writes its TaskRun's ID into a map its platform uses, and so does no
\* other platform.
LEMMA LaunchTags ==
    ASSUME TypeInv, TagInv, NEW t \in Tasks, LaunchInstance(t)
    PROVE  TagInv'
<1> DEFINE m == call[t].config.tags
<1>1. /\ UNCHANGED task /\ UNCHANGED platformConfig /\ Goto(t, "configure")
      /\ tags' = [tags EXCEPT ![m] = t]
      /\ call[t].pc = "use" /\ call[t].config.of.kind \in {"dynamic", "pool"}
  BY DEF LaunchInstance, Allocating, At, cacheVars
<1>2. /\ \A u \in Tasks : call'[u].config = call[u].config
      /\ \A u \in Tasks : P(u)' = P(u)
      /\ P(t) \in Platforms
  BY <1>1, GotoEffect, Typed DEF PCs, P
<1>3. m \in MapIds /\ call[t].config # None
  BY <1>1, InHand, UsableFields DEF Usable
<1>4. UsedBy(m, P(t))
  BY <1>3, InHandUsed
<1>5. \A n \in MapIds : \A p \in Platforms : UsedBy(n, p)' = UsedBy(n, p)
  BY <1>1, <1>2 DEF UsedBy
<1>6. tags'[m] = t /\ \A n \in MapIds : n # m => tags'[n] = tags[n]
  BY <1>1, <1>3 DEF TypeInv
<1> HIDE DEF m
<1>7. \A n \in MapIds : \A p \in Platforms :
         UsedBy(n, p)' /\ tags'[n] # None => P(tags[n])' = p
  <2>1. SUFFICES ASSUME NEW n \in MapIds, NEW p \in Platforms, UsedBy(n, p)', tags'[n] # None
                 PROVE  task[tags'[n]].platform = p
    BY <1>1 DEF P
  <2>2. CASE n = m
    BY <1>2, <1>4, <1>5, <1>6, <2>1, <2>2 DEF TagInv, P
  <2>3. CASE n # m
    BY <1>5, <1>6, <2>1, <2>3 DEF TagInv, P
  <2>4. QED
    BY <2>2, <2>3
<1>8. TagsStayInPlatform'
  BY <1>1 DEF TagInv, TagsStayInPlatform, P
<1>9. QED
  BY <1>5, <1>7, <1>8 DEF TagInv

\* An instance is launched with what is in the map.
LEMMA ConfigureTags ==
    ASSUME TypeInv, TagInv, NEW t \in Tasks, configureInstance(t)
    PROVE  TagInv'
<1> DEFINE m == call[t].config.tags
<1>1. /\ Holds(t, None, tags[m]) /\ call[t].pc = "configure" /\ CallOK(t)
      /\ P(t) \in Platforms /\ UNCHANGED <<tags, platformConfig>>
  BY Typed DEF configureInstance, At, cacheVars
<1>2. m \in MapIds /\ tags[m] \in Tasks \cup {None}
  BY <1>1 DEF CallOK, At, TypeInv
<1>3. call[t].config \in Usable /\ call[t].config # None
  BY <1>1, InHand, UsableFields
<1>4. /\ OnlyTouches(t) /\ task'[t].held.tag = tags[m] /\ call'[t].config = None
  BY <1>1, <1>2, <1>3, NoneHost, HoldsEffect
<1>5. \A u \in Tasks : P(u)' = P(u)
  BY <1>4 DEF OnlyTouches, P
<1>6. \A n \in MapIds : \A p \in Platforms : UsedBy(n, p)' => UsedBy(n, p)
  BY <1>1, <1>4, <1>5 DEF UsedBy, OnlyTouches
<1>7. UsedBy(m, P(t))
  BY <1>3, InHandUsed
<1> HIDE DEF m
<1>8. tags[m] # None => P(tags[m]) = P(t)
  BY <1>1, <1>2, <1>7 DEF TagInv
<1>9. TagsStayInPlatform'
  <2>1. SUFFICES ASSUME NEW u \in Tasks, task'[u].held.tag # None
                 PROVE  task'[task'[u].held.tag].platform = task'[u].platform
    BY DEF TagsStayInPlatform, P
  <2>2. task'[u].held.tag \in Tasks
    BY <1>2, <1>4, <2>1, HeldTag DEF OnlyTouches
  <2>3. P(task'[u].held.tag) = P(u)
    BY <1>4, <1>8, <2>1 DEF TagInv, TagsStayInPlatform, OnlyTouches
  <2>4. QED
    BY <1>5, <2>2, <2>3 DEF P
<1>10. \A n \in MapIds : \A p \in Platforms :
         UsedBy(n, p)' /\ tags'[n] # None => P(tags[n])' = p
  <2>1. \A n \in MapIds : tags[n] \in Tasks \cup {None}
    BY DEF TypeInv
  <2>2. QED
    BY <1>1, <1>5, <1>6, <2>1 DEF TagInv, P
<1>11. QED
  BY <1>6, <1>9, <1>10 DEF TagInv

\* A step that makes no configuration, reads none and gives no TaskRun a host.
Quiet ==
    /\ MapsKept /\ UNCHANGED <<configMap, leftover>>
    /\ \A u \in Tasks : ~At(u, "idle")' => /\ ~At(u, "idle")
                                           /\ call'[u].version = call[u].version
                                           /\ call'[u].data = call[u].data
    /\ \A u \in Tasks : task'[u].held = task[u].held
    /\ \A u \in Tasks : task'[u].phase = task[u].phase
                        \/ /\ task[u].phase # "released"
                           /\ task'[u].phase \in {"running", "done"}
                              => task[u].phase \in {"running", "done"}

LEMMA GotoQuiet ==
    ASSUME TypeInv, NEW t \in Tasks, NEW pc \in PCs, Goto(t, pc), ~At(t, "idle"),
           UNCHANGED <<task, configMap, leftover>>,
           \A p \in Platforms : platformConfig'[p] \in {None, platformConfig[p]}
    PROVE  Quiet
<1>1. \A u \in Tasks : /\ call'[u].config = call[u].config
                       /\ call'[u].version = call[u].version /\ call'[u].data = call[u].data
  BY GotoEffect
<1>2. \A u \in Tasks : ~At(u, "idle")' => ~At(u, "idle")
  BY GotoEffect DEF At
<1>3. QED
  BY <1>1, <1>2 DEF Quiet, MapsKept, SamePlatforms

LEMMA FailsQuiet ==
    ASSUME TypeInv, NEW t \in Tasks, Fails(t), UNCHANGED <<configMap, leftover, platformConfig>>
    PROVE  Quiet
BY FailsEffect DEF Quiet, MapsKept, SamePlatforms, OnlyTouches, At

\* Most steps are quiet, and leave the tags maps alone or forget them.
LEMMA QuietSteps ==
    ASSUME TypeInv, NEW t \in Tasks,
           ReadFails(t) \/ Compare(t) \/ Dump(t) \/ MissFails(t) \/ Register(t) \/ Collect(t)
           \/ CollectFails(t) \/ Enter(t) \/ (AllocateStatic(t) /\ Fails(t))
    PROVE  Quiet /\ UNCHANGED tags
<1>1. UNCHANGED <<tags, configMap, leftover>>
  BY DEF ReadFails, Compare, Dump, MissFails, Register, Collect, CollectFails, Enter,
         AllocateStatic
<1>2. CASE ReadFails(t) \/ MissFails(t) \/ CollectFails(t) \/ (AllocateStatic(t) /\ Fails(t))
  BY <1>1, <1>2, FailsQuiet DEF ReadFails, MissFails, CollectFails, AllocateStatic, cacheVars
<1>3. CASE Compare(t) \/ Dump(t) \/ Register(t) \/ Collect(t) \/ Enter(t)
  <2>1. \E pc \in PCs : Goto(t, pc)
    BY <1>3 DEF Compare, Dump, Register, Collect, Enter, AfterMetrics, PCs
  <2>2. ~At(t, "idle") /\ UNCHANGED task
    BY <1>3 DEF Compare, Dump, Register, Collect, Enter, At
  <2>3. \A p \in Platforms : platformConfig'[p] \in {None, platformConfig[p]}
    BY <1>3 DEF Compare, Dump, Register, Collect, Enter, cacheVars
  <2>4. QED
    BY <1>1, <2>1, <2>2, <2>3, GotoQuiet
<1>4. QED
  BY <1>2, <1>3

LEMMA OutsideQuiet ==
    ASSUME TypeInv, Restart \/ \E t \in Tasks : Complete(t)
    PROVE  Quiet /\ \A m \in MapIds : tags'[m] \in {None, tags[m]}
<1>1. CASE Restart
  <2>1. /\ UNCHANGED <<task, configMap, leftover>>
        /\ \A m \in MapIds : tags'[m] = None
        /\ \A p \in Platforms : platformConfig'[p] = None
        /\ \A u \in Tasks : call'[u].pc = "idle" /\ call'[u].config = None
    BY <1>1, NoCallFields DEF Restart
  <2>2. QED
    BY <2>1 DEF Quiet, MapsKept, SamePlatforms, At
<1>2. ASSUME NEW t \in Tasks, Complete(t)
      PROVE  Quiet /\ UNCHANGED tags
  <2>1. /\ UNCHANGED <<platformConfig, tags, call, configMap, leftover>>
        /\ task[t].phase = "running"
    BY <1>2 DEF Complete, cacheVars
  <2>2. \A u \in Tasks : /\ task'[u].held = task[u].held
                         /\ task'[u].platform = task[u].platform
                         /\ u # t => task'[u].phase = task[u].phase
    BY <1>2, Typed DEF Complete, Task
  <2>3. QED
    BY <2>1, <2>2 DEF Quiet, MapsKept, SamePlatforms, At
<1>3. QED
  BY <1>1, <1>2

\* The other steps that bring no new configuration.
LEMMA MapsKeptSteps ==
    ASSUME TypeInv, NEW t \in Tasks,
           Read(t) \/ AllocateStatic(t) \/ AllocateLocal(t) \/ Deallocate(t)
    PROVE  MapsKept /\ UNCHANGED tags
<1>1. UNCHANGED <<tags, platformConfig>>
  BY DEF Read, AllocateStatic, AllocateLocal, Deallocate, cacheVars
<1>2. CASE Read(t)
  <2>1. /\ UNCHANGED task /\ call'[t].config = None
        /\ \A u \in Tasks \ {t} : call'[u] = call[u]
    BY <1>2, Typed DEF Read, NoCall
  <2>2. QED
    BY <1>1, <2>1 DEF MapsKept, SamePlatforms
<1>3. CASE AllocateStatic(t) \/ AllocateLocal(t)
  <2>1. call[t].config \in Usable /\ call[t].config.of.hosts \subseteq HostNames
    BY <1>3, InHand DEF AllocateStatic, AllocateLocal, Allocating, At
  <2>2. CASE Fails(t)
    BY <1>1, <2>2, FailsEffect DEF MapsKept, SamePlatforms, OnlyTouches
  <2>3. ASSUME NEW host \in HostNames, Holds(t, host, None)
        PROVE  MapsKept
    <3>1. OnlyTouches(t) /\ call'[t].config = None /\ task'[t].held.tag = None
      BY <2>1, <2>3, HoldsEffect
    <3>2. QED
      BY <1>1, <3>1 DEF MapsKept, SamePlatforms, OnlyTouches
  <2>4. QED
    BY <1>1, <1>3, <2>1, <2>2, <2>3, NoneHost DEF AllocateStatic, AllocateLocal
<1>4. CASE Deallocate(t)
  BY <1>1, <1>4, DeallocateEffect DEF MapsKept, SamePlatforms, OnlyTouches
<1>5. QED
  BY <1>2, <1>3, <1>4

\* TagInv is inductive relative to the types.
LEMMA TagNext == ConfigInv /\ TagInv /\ [Next]_vars => TagInv'
<1>1. SUFFICES ASSUME TypeInv, TagInv, [Next]_vars PROVE TagInv'
  BY DEF ConfigInv
<1>2. CASE UNCHANGED vars
  BY <1>1, <1>2 DEF vars, TagInv, UsedBy, TagsStayInPlatform, P
<1>3. ASSUME Quiet \/ MapsKept, \A m \in MapIds : tags'[m] \in {None, tags[m]}
      PROVE  TagInv'
  BY <1>1, <1>3, MapsKeptHolds DEF Quiet
<1>4. ASSUME NEW t \in Tasks, Step(t) \/ ReadFails(t) PROVE TagInv'
  <2>1. CASE Hit(t) \/ Store(t) \/ Miss(t) \/ LaunchInstance(t) \/ configureInstance(t)
    BY <1>1, <2>1, CopySteps, MissTags, LaunchTags, ConfigureTags
  <2>2. CASE Read(t) \/ AllocateStatic(t) \/ AllocateLocal(t) \/ Deallocate(t)
    BY <1>1, <1>3, <2>2, MapsKeptSteps
  <2>3. CASE ReadFails(t) \/ Compare(t) \/ Dump(t) \/ MissFails(t) \/ Register(t) \/ Collect(t)
             \/ CollectFails(t) \/ Enter(t)
    BY <1>1, <1>3, <2>3, QuietSteps
  <2>4. QED
    BY <1>4, <2>1, <2>2, <2>3 DEF Step
<1>5. CASE ChangeConfigMap
  <2>1. UNCHANGED <<platformConfig, tags, call, task>>
    BY <1>5 DEF ChangeConfigMap, cacheVars
  <2>2. QED
    BY <1>3, <2>1 DEF MapsKept, SamePlatforms
<1>6. CASE Restart \/ \E t \in Tasks : Complete(t)
  BY <1>1, <1>3, <1>6, OutsideQuiet
<1>7. QED
  BY <1>1, <1>2, <1>4, <1>5, <1>6 DEF Next

LEMMA TagInit == Init => TagInv
<1>1. SUFFICES ASSUME Init PROVE TagInv
  OBVIOUS
<1>2. /\ \A p \in Platforms : platformConfig[p] = None
      /\ \A t \in Tasks : call[t].config = None /\ task[t].held.tag = None
  BY <1>1, NoCallFields DEF Init, NoHost
<1>3. QED
  BY <1>2 DEF TagInv, UsedBy, TagsStayInPlatform

\* An instance may be launched with the ID of another TaskRun in its tags, but
\* only of one of the same platform, however the launches of several workers
\* write and read the tags map they share (LaunchInstance and configureInstance
\* in pkg/aws/ec2.go).
THEOREM TagsStay == Spec => []TagsStayInPlatform
<1>1. TagInv => TagsStayInPlatform
  BY DEF TagInv
<1>2. QED
  BY <1>1, ConfigInit, ConfigNext, TagInit, TagNext, PTL DEF Spec

-----------------------------------------------------------------------------
(***************************************************************************)
(* The hosts that are not given back.                                      *)
(***************************************************************************)

\* A version the ConfigMap has had is one of the bounded versions.
LEMMA VersionsUpTo ==
    ASSUME TypeInv
    PROVE  /\ configMap.version \in Versions
           /\ \A v \in Versions : v <= configMap.version <=> v \in 1..configMap.version
BY ConfigAssumption DEF TypeInv, Versions

\* Quiet steps keep the history.
LEMMA QuietHistory ==
    ASSUME TypeInv, NEW hist \in [Versions -> Datas], HistoryInv(hist), Quiet
    PROVE  HistoryInv(hist)'
<1>1. UNCHANGED <<configMap, leftover>>
  BY DEF Quiet
<1>2. /\ \A u \in Tasks : task'[u].platform = task[u].platform /\ task'[u].held = task[u].held
      /\ \A u \in Tasks : P(u)' = P(u)
  BY DEF Quiet, MapsKept, SamePlatforms, P
<1>3. \A u \in Tasks : ~At(u, "idle")' => /\ call'[u].version <= configMap.version
                                          /\ call'[u].data = hist[call'[u].version]
  BY DEF Quiet, HistoryInv
<1>4. \A p \in Platforms : platformConfig'[p] # None => Made(hist, platformConfig[p], p)'
  BY <1>1 DEF Quiet, MapsKept, HistoryInv, Made
<1>5. \A u \in Tasks : call'[u].config # None => Made(hist, call[u].config, P(u))'
  BY <1>1, <1>2 DEF Quiet, MapsKept, HistoryInv, Made
<1>6. \A u \in Tasks : HeldOK(hist, u)'
  BY <1>1, <1>2 DEF Quiet, HistoryInv, HeldOK
<1>7. \A u \in leftover : task'[u].phase = "released" /\ ~task'[u].held.fresh
  BY <1>2 DEF Quiet, HistoryInv, TypeInv
<1>8. QED
  BY <1>1, <1>2, <1>3, <1>4, <1>5, <1>6, <1>7 DEF HistoryInv

\* A step of one call keeps it if what the call and its TaskRun have is
\* accounted for.
LEMMA TouchHistory ==
    ASSUME TypeInv, NEW hist \in [Versions -> Datas], HistoryInv(hist),
           NEW t \in Tasks, OnlyTouches(t), UNCHANGED configMap,
           ~At(t, "idle")' => /\ call'[t].version <= configMap.version
                              /\ call'[t].data = hist[call'[t].version],
           \A p \in Platforms : platformConfig'[p] # None
                                => \/ platformConfig'[p] = platformConfig[p]
                                   \/ Made(hist, platformConfig[p], p)',
           call'[t].config # None => Made(hist, call[t].config, P(t))',
           HeldOK(hist, t)',
           leftover' \subseteq leftover \cup {t},
           t \in leftover' => task'[t].phase = "released" /\ ~task'[t].held.fresh
    PROVE  HistoryInv(hist)'
<1>1. \A u \in Tasks \ {t} : call'[u] = call[u] /\ task'[u] = task[u]
  BY DEF OnlyTouches
<1>2. \A u \in Tasks : ~At(u, "idle")' => /\ call'[u].version <= configMap.version
                                          /\ call'[u].data = hist[call'[u].version]
  BY <1>1 DEF HistoryInv, At
<1>3. \A p \in Platforms : platformConfig'[p] # None => Made(hist, platformConfig[p], p)'
  BY DEF HistoryInv, Made
<1>4. \A u \in Tasks : call'[u].config # None => Made(hist, call[u].config, P(u))'
  BY <1>1 DEF HistoryInv, Made, P
<1>5. \A u \in Tasks : HeldOK(hist, u)'
  BY <1>1 DEF HistoryInv, HeldOK, P
<1>6. \A u \in leftover' : task'[u].phase = "released" /\ ~task'[u].held.fresh
  BY <1>1 DEF HistoryInv, TypeInv
<1>7. QED
  BY <1>2, <1>3, <1>4, <1>5, <1>6 DEF HistoryInv

\* A call has read the present content.
LEMMA ReadHistory ==
    ASSUME TypeInv, NEW hist \in [Versions -> Datas], HistoryInv(hist),
           NEW t \in Tasks, Read(t)
    PROVE  HistoryInv(hist)'
<1>1. /\ UNCHANGED <<configMap, platformConfig, task, leftover>>
      /\ call'[t].config = None /\ call'[t].version = configMap.version
      /\ call'[t].data = configMap.data /\ OnlyTouches(t)
  BY Typed DEF Read, NoCall, OnlyTouches, cacheVars
<1>2. configMap.version <= configMap.version /\ configMap.data = hist[configMap.version]
  BY ConfigAssumption DEF HistoryInv, TypeInv, Versions
<1>3. HeldOK(hist, t)'
  BY <1>1 DEF HistoryInv, HeldOK, P
<1>4. QED
  BY <1>1, <1>2, <1>3, TouchHistory DEF HistoryInv, TypeInv

\* A configuration is taken from the cache, made or stored.
LEMMA ConfigHistory ==
    ASSUME TypeInv, NEW hist \in [Versions -> Datas], HistoryInv(hist),
           NEW t \in Tasks, Hit(t) \/ Miss(t) \/ Store(t)
    PROVE  HistoryInv(hist)'
<1>1. /\ UNCHANGED <<configMap, task, leftover>> /\ P(t) \in Platforms /\ ~At(t, "idle")
      /\ P(t)' = P(t) /\ CallOK(t)
  BY Typed DEF Hit, Miss, Store, At, P
<1>2. call[t].version <= configMap.version /\ call[t].data = hist[call[t].version]
  BY <1>1 DEF HistoryInv
<1>3. HeldOK(hist, t)' /\ (t \in leftover => task'[t].phase = "released" /\ ~task'[t].held.fresh)
  BY <1>1 DEF HistoryInv, HeldOK, P
<1>4. CASE Hit(t)
  <2>1. /\ call'[t].config = platformConfig[P(t)] /\ platformConfig[P(t)] # None
        /\ call'[t].version = call[t].version /\ call'[t].data = call[t].data
        /\ UNCHANGED platformConfig /\ OnlyTouches(t)
    BY <1>1, <1>4, Typed DEF Hit, Call, cacheVars, OnlyTouches
  <2>2. Made(hist, call[t].config, P(t))'
    BY <1>1, <2>1 DEF HistoryInv, Made
  <2>3. QED
    BY <1>1, <1>2, <1>3, <2>1, <2>2, TouchHistory
<1>5. CASE Miss(t)
  <2>1. UNCHANGED platformConfig /\ OnlyTouches(t)
    BY <1>5, MissEffect DEF Miss, cacheVars
  <2>2. Made(hist, call[t].config, P(t))'
    BY <1>1, <1>2, <1>5, MissEffect DEF Made
  <2>3. QED
    BY <1>1, <1>2, <1>3, <1>5, <2>1, <2>2, MissEffect, TouchHistory
<1>6. CASE Store(t)
  <2>1. Made(hist, call[t].config, P(t)) /\ OnlyTouches(t)
    BY <1>6, StoreEffect, UsableFields DEF HistoryInv
  <2>2. Made(hist, call[t].config, P(t))'
    BY <1>1, <1>6, <2>1, StoreEffect DEF Made
  <2>3. Made(hist, platformConfig[P(t)], P(t))'
    BY <1>1, <1>6, <2>1, StoreEffect DEF Made
  <2>4. \A p \in Platforms : \/ platformConfig'[p] = platformConfig[p]
                             \/ Made(hist, platformConfig[p], p)'
    BY <1>1, <1>6, <2>3, StoreEffect
  <2>5. QED
    BY <1>1, <1>2, <1>3, <1>6, <2>1, <2>2, <2>4, StoreEffect, TouchHistory
<1>7. QED
  BY <1>4, <1>5, <1>6

\* A host is allocated under the configuration of the version the call read, or
\* not fresh.
LEMMA HoldsHistory ==
    ASSUME TypeInv, NEW hist \in [Versions -> Datas], HistoryInv(hist),
           NEW t \in Tasks, NEW host \in HostNames, NEW tag \in Tasks \cup {None},
           call[t].pc \in {"use", "configure"}, task[t].phase = "new",
           call[t].config.of.kind = "static" => host \in call[t].config.of.hosts,
           Holds(t, host, tag), UNCHANGED <<configMap, platformConfig, leftover>>
    PROVE  HistoryInv(hist)'
<1>1. /\ call[t].config \in Usable /\ call[t].config # None
      /\ call[t].config.of.kind # "error" /\ call[t].config.version \in Versions
  BY InHand, UsableFields
<1>2. Made(hist, call[t].config, P(t))
  BY <1>1 DEF HistoryInv
<1>3. /\ OnlyTouches(t) /\ call'[t].pc = "idle" /\ call'[t].config = None
      /\ task'[t].phase = "running"
      /\ task'[t].held.kind = call[t].config.of.kind
      /\ task'[t].held.host = host
      /\ task'[t].held.version = call[t].version
      /\ task'[t].held.fresh <=> call[t].config.version = call[t].version
  BY <1>1, HoldsEffect
<1>4. P(t)' = P(t)
  BY <1>3 DEF OnlyTouches, P
<1>5. ASSUME task'[t].held.fresh
      PROVE  /\ task'[t].held.version \in 1..configMap.version
             /\ HeldUnder(task'[t].held, Resolve(hist[task'[t].held.version], P(t)))
  BY <1>1, <1>2, <1>3, <1>5, VersionsUpTo DEF Made, HeldUnder
<1>6. HeldOK(hist, t)'
  BY <1>1, <1>3, <1>4, <1>5 DEF HeldOK
<1>7. t \notin leftover
  BY DEF HistoryInv
<1>8. QED
  BY <1>3, <1>6, <1>7, TouchHistory DEF At

\* A host is left over only if it is not fresh: the configuration in hand would
\* otherwise be the one it was allocated under.
LEMMA DeallocateHistory ==
    ASSUME TypeInv, NEW hist \in [Versions -> Datas], HistoryInv(hist),
           NEW t \in Tasks, Deallocate(t)
    PROVE  HistoryInv(hist)'
<1>1. /\ call[t].pc = "use" /\ task[t].phase = "done"
      /\ UNCHANGED <<configMap, platformConfig>>
      /\ leftover' = IF GivesBack(call[t].config.of, task[t].held)
                     THEN leftover ELSE leftover \cup {t}
  BY DEF Deallocate, At, cacheVars
<1>2. call[t].config # None
  BY <1>1, InHand, UsableFields
<1>3. Made(hist, call[t].config, P(t))
  BY <1>2 DEF HistoryInv
<1>4. task[t].held.kind \in Kinds \ {"error"}
  BY <1>1, Typed DEF HistoryInv, HeldOK, Task, Held
<1>5. ASSUME task'[t].held.fresh
      PROVE  GivesBack(call[t].config.of, task[t].held)
  <2>1. /\ task[t].held.fresh /\ task[t].held.version = call[t].version
        /\ call[t].config.version = call[t].version
    BY <1>5, DeallocateEffect
  <2>2. HeldUnder(task[t].held, call[t].config.of)
    BY <1>1, <1>3, <2>1 DEF HistoryInv, HeldOK, Made
  <2>3. QED
    BY <1>4, <2>2 DEF HeldUnder, GivesBack, Kinds
<1>6. t \notin leftover
  BY <1>1 DEF HistoryInv
<1>7. t \in leftover' => task'[t].phase = "released" /\ ~task'[t].held.fresh
  BY <1>1, <1>5, <1>6, DeallocateEffect
<1>8. HeldOK(hist, t)'
  BY DeallocateEffect DEF HeldOK
<1>9. QED
  BY <1>1, <1>7, <1>8, DeallocateEffect, TouchHistory DEF At

\* A new content is one more entry of the history.
LEMMA ChangeHistory ==
    ASSUME TypeInv, NEW hist \in [Versions -> Datas], HistoryInv(hist), ChangeConfigMap
    PROVE  LeftoverInv'
<1> PICK v : v = configMap.version + 1
  OBVIOUS
<1>1. PICK d \in Datas : v = configMap.version + 1
                         /\ configMap' = [version |-> v, data |-> d]
  BY DEF ChangeConfigMap
<1>2. v \in Versions /\ configMap.version \in Versions
  BY <1>1, ConfigAssumption DEF ChangeConfigMap, TypeInv, Versions
<1>3. PICK new \in [Versions -> Datas] : new = [hist EXCEPT ![v] = d]
  BY <1>2
<1>4. /\ new[v] = d
      /\ \A w \in Versions : w <= configMap.version => new[w] = hist[w] /\ w <= v
  BY <1>1, <1>2, <1>3 DEF Versions
<1>5. UNCHANGED <<platformConfig, call, task, leftover>>
  BY DEF ChangeConfigMap, cacheVars
<1>6. configMap'.version = v /\ configMap'.data = d
  BY <1>1
<1>7. \A t \in Tasks : ~At(t, "idle")' => /\ call'[t].version <= configMap'.version
                                          /\ call'[t].data = new[call'[t].version]
  BY <1>4, <1>5, <1>6, Typed DEF HistoryInv, At, CallOK
<1>8. ASSUME NEW c \in Usable, NEW p, Made(hist, c, p)
      PROVE  c.version <= configMap'.version /\ c.of = Resolve(new[c.version], p)
  BY <1>4, <1>6, <1>8, UsableFields DEF Made
<1>9. \A p \in Platforms : platformConfig'[p] # None => Made(new, platformConfig[p], p)'
  BY <1>5, <1>8 DEF HistoryInv, TypeInv, Made
<1>10. \A t \in Tasks : call'[t].config # None => Made(new, call[t].config, P(t))'
  BY <1>5, <1>8, Typed DEF HistoryInv, Call, Made, P
<1>11. \A t \in Tasks : HeldOK(new, t)'
  <2>1. \A w \in 1..configMap.version : new[w] = hist[w] /\ w \in 1..v
    BY <1>1, <1>2, <1>4, ConfigAssumption DEF Versions
  <2>2. QED
    BY <1>5, <1>6, <2>1 DEF HistoryInv, HeldOK, P
<1>12. HistoryInv(new)'
  BY <1>4, <1>5, <1>6, <1>7, <1>9, <1>10, <1>11 DEF HistoryInv
<1>13. QED
  BY <1>12 DEF LeftoverInv

\* LeftoverInv is inductive relative to the types.
LEMMA LeftoverNext == ConfigInv /\ LeftoverInv /\ [Next]_vars => LeftoverInv'
<1>1. SUFFICES ASSUME TypeInv, LeftoverInv, [Next]_vars PROVE LeftoverInv'
  BY DEF ConfigInv
<1>2. PICK hist \in [Versions -> Datas] : HistoryInv(hist)
  BY <1>1 DEF LeftoverInv
<1>3. ASSUME HistoryInv(hist)' PROVE LeftoverInv'
  BY <1>3 DEF LeftoverInv
<1>4. CASE UNCHANGED vars
  BY <1>2, <1>3, <1>4 DEF vars, HistoryInv, HeldOK, Made, At, P
<1>5. ASSUME NEW t \in Tasks, Step(t) \/ ReadFails(t) PROVE LeftoverInv'
  <2>1. CASE Read(t) \/ Hit(t) \/ Miss(t) \/ Store(t) \/ Deallocate(t)
    BY <1>1, <1>2, <1>3, <2>1, ReadHistory, ConfigHistory, DeallocateHistory
  <2>2. CASE ReadFails(t) \/ Compare(t) \/ Dump(t) \/ MissFails(t) \/ Register(t) \/ Collect(t)
             \/ CollectFails(t) \/ Enter(t) \/ (AllocateStatic(t) /\ Fails(t))
    BY <1>1, <1>2, <1>3, <2>2, QuietSteps, QuietHistory
  <2>3. CASE LaunchInstance(t)
    <3>1. /\ Goto(t, "configure") /\ ~At(t, "idle")
          /\ UNCHANGED <<task, configMap, leftover, platformConfig>>
      BY <2>3 DEF LaunchInstance, Allocating, At, cacheVars
    <3>2. Quiet
      BY <1>1, <3>1, GotoQuiet DEF PCs
    <3>3. QED
      BY <1>1, <1>2, <1>3, <3>2, QuietHistory
  <2>4. CASE \E h \in call[t].config.of.hosts : AllocateStatic(t) /\ Holds(t, h, None)
    <3>1. PICK h \in call[t].config.of.hosts : AllocateStatic(t) /\ Holds(t, h, None)
      BY <2>4
    <3>2. /\ call[t].pc = "use" /\ task[t].phase = "new"
          /\ UNCHANGED <<configMap, platformConfig, leftover>>
      BY <3>1 DEF AllocateStatic, Allocating, At, cacheVars
    <3>3. h \in HostNames
      BY <1>1, <3>2, InHand
    <3>4. QED
      BY <1>1, <1>2, <1>3, <3>1, <3>2, <3>3, HoldsHistory
  <2>5. CASE AllocateLocal(t)
    <3>1. /\ call[t].pc = "use" /\ task[t].phase = "new" /\ call[t].config.of.kind = "local"
          /\ UNCHANGED <<configMap, platformConfig, leftover>> /\ Holds(t, None, None)
      BY <2>5 DEF AllocateLocal, Allocating, At, cacheVars
    <3>2. QED
      BY <1>1, <1>2, <1>3, <3>1, NoneHost, HoldsHistory
  <2>6. CASE configureInstance(t)
    <3>1. /\ call[t].pc = "configure" /\ Holds(t, None, tags[call[t].config.tags])
          /\ UNCHANGED <<configMap, platformConfig, leftover>>
      BY <2>6 DEF configureInstance, At, cacheVars
    <3>2. /\ task[t].phase = "new" /\ tags[call[t].config.tags] \in Tasks \cup {None}
          /\ call[t].config.of.kind # "static"
      BY <1>1, <3>1 DEF TypeInv, CallOK, At
    <3>3. QED
      BY <1>1, <1>2, <1>3, <3>1, <3>2, NoneHost, HoldsHistory
  <2>7. QED
    BY <1>5, <2>1, <2>2, <2>3, <2>4, <2>5, <2>6 DEF Step, AllocateStatic
<1>6. CASE ChangeConfigMap
  BY <1>1, <1>2, <1>6, ChangeHistory
<1>7. CASE Restart \/ \E t \in Tasks : Complete(t)
  BY <1>1, <1>2, <1>3, <1>7, OutsideQuiet, QuietHistory
<1>8. QED
  BY <1>1, <1>4, <1>5, <1>6, <1>7 DEF Next

LEMMA LeftoverInit == Init => LeftoverInv
<1>1. SUFFICES ASSUME Init PROVE LeftoverInv
  OBVIOUS
<1> DEFINE hist == [v \in Versions |-> configMap.data]
<1>2. configMap.version \in Versions /\ configMap.data \in Datas
  BY <1>1, ConfigInit DEF ConfigInv, TypeInv
<1>3. /\ \A p \in Platforms : platformConfig[p] = None
      /\ \A t \in Tasks : /\ call[t].config = None /\ call[t].pc = "idle"
                          /\ task[t].phase = "new"
      /\ leftover = {}
  BY <1>1, NoCallFields DEF Init
<1>4. HistoryInv(hist)
  BY <1>2, <1>3 DEF HistoryInv, HeldOK, At
<1>5. QED
  BY <1>2, <1>4 DEF LeftoverInv

\* The host of a TaskRun is left over only when its allocation and its
\* deallocation were not served configurations of one version of the ConfigMap,
\* whatever the unlocked cache serves other calls meanwhile and however often
\* the controller restarts (taskrun.go, getPlatformConfig and
\* handleHostAssigned).
THEOREM LeftoversHaveCause == Spec => []LeftoverForCause
<1>1. LeftoverInv => LeftoverForCause
  BY DEF LeftoverInv, HistoryInv, LeftoverForCause
<1>2. QED
  BY <1>1, ConfigInit, ConfigNext, LeftoverInit, LeftoverNext, PTL DEF Spec

-----------------------------------------------------------------------------
(***************************************************************************)
(* The operators of HostConfig: which instance tags a platform accepts.    *)
(***************************************************************************)

\* Where the part w stands in an instance type.
Places(s, w) == {i \in DOMAIN s : s[i] = w}

\* The parts of a bijection: onto, and one to one.
LEMMA BijectionFacts ==
    ASSUME NEW S, NEW T, NEW f \in Bijection(S, T)
    PROVE  /\ f \in [S -> T]
           /\ \A a, b \in S : f[a] = f[b] => a = b
           /\ \A y \in T : \E x \in S : f[x] = y
BY DEF Bijection, Injection, Surjection, IsInjective

LEMMA BijectionBy ==
    ASSUME NEW S, NEW T, NEW f \in [S -> T],
           \A a, b \in S : f[a] = f[b] => a = b,
           \A y \in T : \E x \in S : f[x] = y
    PROVE  f \in Bijection(S, T)
BY DEF Bijection, Injection, Surjection, IsInjective

LEMMA PlacesFinite ==
    ASSUME NEW W, NEW s \in Seq(W), NEW w
    PROVE  IsFiniteSet(Places(s, w))
<1>1. DOMAIN s = 1..Len(s) /\ Len(s) \in Nat
  BY LenProperties
<1>2. IsFiniteSet(DOMAIN s)
  BY <1>1, FS_Interval
<1>3. QED
  BY <1>2, FS_Subset DEF Places

\* As many of each part in two types: match the places of each part.
LEMMA CountsReorder ==
    ASSUME NEW W, NEW s \in Seq(W), NEW t \in Seq(W), SameType(s, t)
    PROVE  Reordered(s, t)
<1> DEFINE b(w) == CHOOSE f \in Bijection(Places(s, w), Places(t, w)) : TRUE
<1> DEFINE order == [i \in DOMAIN s |-> b(s[i])[i]]
<1>1. ASSUME NEW w \in ToSet(s) \cup ToSet(t)
      PROVE  b(w) \in Bijection(Places(s, w), Places(t, w))
  <2>1. Cardinality(Places(s, w)) = Cardinality(Places(t, w))
    BY SMTT(30) DEF SameType, Places
  <2>2. ExistsBijection(Places(s, w), Places(t, w))
    BY <2>1, PlacesFinite, FS_SameCardinalityBij
  <2>3. QED
    BY <2>2 DEF ExistsBijection
<1>2. ASSUME NEW i \in DOMAIN s
      PROVE  /\ b(s[i]) \in Bijection(Places(s, s[i]), Places(t, s[i]))
             /\ i \in Places(s, s[i])
  BY <1>1 DEF ToSet, Places
<1>3. ASSUME NEW i \in DOMAIN s
      PROVE  order[i] \in DOMAIN t /\ t[order[i]] = s[i]
  <2>1. b(s[i])[i] \in Places(t, s[i])
    BY <1>2, BijectionFacts
  <2>2. QED
    BY <2>1 DEF Places
<1>4. order \in [DOMAIN s -> DOMAIN t]
  BY <1>3
<1>5. ASSUME NEW i \in DOMAIN s, NEW j \in DOMAIN s, order[i] = order[j]
      PROVE  i = j
  <2>1. s[i] = s[j]
    BY <1>3, <1>5
  <2>2. b(s[i])[i] = b(s[i])[j]
    BY <1>5, <2>1
  <2>3. i \in Places(s, s[i]) /\ j \in Places(s, s[i])
    BY <2>1, <1>2
  <2>4. QED
    BY <1>2, <2>2, <2>3, BijectionFacts
<1>6. ASSUME NEW j \in DOMAIN t
      PROVE  \E i \in DOMAIN s : order[i] = j
  <2>1. /\ b(t[j]) \in Bijection(Places(s, t[j]), Places(t, t[j]))
        /\ j \in Places(t, t[j])
    BY <1>1 DEF ToSet, Places
  <2>2. PICK i \in Places(s, t[j]) : b(t[j])[i] = j
    <3> HIDE DEF b
    <3>1. QED
      BY <2>1, BijectionFacts
  <2>3. i \in DOMAIN s /\ s[i] = t[j]
    BY DEF Places
  <2>4. order[i] = j
    BY <2>2, <2>3
  <2>5. QED
    BY <2>3, <2>4
<1>7. order \in Bijection(DOMAIN s, DOMAIN t)
  <2> HIDE DEF order
  <2>1. QED
    BY <1>4, <1>5, <1>6, BijectionBy
<1>8. \A i \in DOMAIN s : t[order[i]] = s[i]
  BY <1>3
<1>9. QED
  BY <1>7, <1>8 DEF Reordered

\* And a reordering moves the places of a part to the places of that part.
LEMMA ReorderCounts ==
    ASSUME NEW W, NEW s \in Seq(W), NEW t \in Seq(W), Reordered(s, t)
    PROVE  SameType(s, t)
<1>1. PICK order \in Bijection(DOMAIN s, DOMAIN t) :
              \A i \in DOMAIN s : t[order[i]] = s[i]
  BY DEF Reordered
<1>2. /\ order \in [DOMAIN s -> DOMAIN t]
      /\ \A i, j \in DOMAIN s : order[i] = order[j] => i = j
      /\ \A j \in DOMAIN t : \E i \in DOMAIN s : order[i] = j
  BY <1>1, BijectionFacts
<1>3. ASSUME NEW w
      PROVE  Cardinality(Places(s, w)) = Cardinality(Places(t, w))
  <2> DEFINE f == [i \in Places(s, w) |-> order[i]]
  <2>1. f \in [Places(s, w) -> Places(t, w)]
    BY <1>1, <1>2 DEF Places
  <2>2. \A i, j \in Places(s, w) : f[i] = f[j] => i = j
    BY <1>2 DEF Places
  <2>3. ASSUME NEW j \in Places(t, w)
        PROVE  \E i \in Places(s, w) : f[i] = j
    <3>1. PICK i \in DOMAIN s : order[i] = j
      BY <1>2 DEF Places
    <3>2. i \in Places(s, w)
      BY <1>1, <3>1 DEF Places
    <3>3. QED
      BY <3>1, <3>2
  <2>4. f \in Bijection(Places(s, w), Places(t, w))
    <3> HIDE DEF f
    <3>1. QED
      BY <2>1, <2>2, <2>3, BijectionBy
  <2>5. ExistsBijection(Places(s, w), Places(t, w))
    BY <2>4 DEF ExistsBijection
  <2>6. QED
    BY <2>5, PlacesFinite, FS_Bijection
<1>4. QED
  BY <1>3 DEF SameType, Places


LEMMA SameTypeSymmetric ==
    ASSUME NEW s, NEW t, SameType(s, t)
    PROVE  SameType(t, s)
BY DEF SameType

LEMMA SameTypeReflexive == ASSUME NEW s PROVE SameType(s, s)
BY DEF SameType

LEMMA OnePart ==
    ASSUME NEW W, NEW e \in W
    PROVE  /\ <<e>> \in Seq(W) /\ Len(<<e>>) = 1
           /\ DOMAIN <<e>> = {1} /\ <<e>>[1] = e
           /\ <<e>> # <<>>
OBVIOUS

\* No parts, or one empty part, are those of no other type.
LEMMA NoParts ==
    ASSUME NEW W, NEW t \in Seq(W), Reordered(<<>>, t)
    PROVE  t = <<>>
<1>1. DOMAIN t = 1..Len(t) /\ Len(t) \in Nat
  BY LenProperties
<1>2. PICK f \in Bijection(DOMAIN <<>>, DOMAIN t) : TRUE
  BY DEF Reordered
<1>3. \A j \in DOMAIN t : \E i \in DOMAIN <<>> : f[i] = j
  BY <1>2, BijectionFacts
<1>4. DOMAIN <<>> = {}
  OBVIOUS
<1>5. 1 \notin 1..Len(t)
  BY <1>1, <1>3, <1>4
<1>6. QED
  BY <1>1, <1>5, EmptySeq

LEMMA SamePart ==
    ASSUME NEW W, NEW t \in Seq(W), NEW e \in W, Reordered(<<e>>, t)
    PROVE  t = <<e>>
<1> DEFINE s == <<e>>
<1>1. s \in Seq(W) /\ Len(s) = 1 /\ DOMAIN s = {1} /\ s[1] = e
  BY OnePart
<1>2. DOMAIN t = 1..Len(t) /\ Len(t) \in Nat
  BY LenProperties
<1> HIDE DEF s
<1>3. PICK f \in Bijection(DOMAIN s, DOMAIN t) : \A i \in DOMAIN s : t[f[i]] = s[i]
  BY DEF Reordered, s
<1>4. /\ f \in [DOMAIN s -> DOMAIN t]
      /\ \A y \in DOMAIN t : \E x \in DOMAIN s : f[x] = y
  BY <1>3, BijectionFacts
<1>5. /\ f[1] \in DOMAIN t /\ t[f[1]] = e
      /\ \A j \in DOMAIN t : j = f[1]
  BY <1>1, <1>3, <1>4
<1>6. f[1] \in 1..Len(t)
  BY <1>2, <1>5
<1>7. 1 \in 1..Len(t) /\ Len(t) \in 1..Len(t)
  BY <1>2, <1>6
<1>8. f[1] = 1 /\ f[1] = Len(t)
  BY <1>2, <1>5, <1>7
<1>9. Len(t) = 1 /\ t[1] = e
  BY <1>5, <1>8
<1>10. t = s
  BY <1>1, <1>9, SeqEqual
<1>11. QED
  BY <1>10 DEF s

\* Two instance types are the same to the code when they are meant to be.
LEMMA TypesMatch ==
    ASSUME NEW W, "" \in W, NEW s \in Seq(W), NEW t \in Seq(W)
    PROVE  SameType(InstanceType(s), InstanceType(t)) <=> SamePair(s, t)
<1>1. <<>> \in Seq(W) /\ <<"">> \in Seq(W) /\ <<>> # <<"">>
  BY OnePart, EmptySeq
<1>2. \A u, v \in Seq(W) : SameType(u, v) <=> Reordered(u, v)
  BY CountsReorder, ReorderCounts
<1>3. \A u \in Seq(W) : Reordered(u, u)
  BY <1>2, SameTypeReflexive
<1>4. \A u, v \in Seq(W) : Reordered(u, v) <=> Reordered(v, u)
  BY <1>2, SameTypeSymmetric
<1>5. \A u \in Seq(W) : /\ Reordered(<<>>, u) => u = <<>>
                        /\ Reordered(<<"">>, u) => u = <<"">>
  BY NoParts, SamePart
<1>6. CASE s = <<"">> /\ t = <<"">>
  BY <1>1, <1>2, <1>3, <1>6 DEF InstanceType, SamePair
<1>7. CASE s = <<"">> /\ t # <<"">>
  <2>1. SameType(<<>>, t) <=> t = <<>>
    BY <1>1, <1>2, <1>3, <1>5
  <2>2. ~ Reordered(s, t)
    BY <1>5, <1>7
  <2>3. {s, t} = {<<>>, <<"">>} <=> t = <<>>
    BY <1>1, <1>7
  <2>4. QED
    BY <1>7, <2>1, <2>2, <2>3 DEF InstanceType, SamePair
<1>8. CASE s # <<"">> /\ t = <<"">>
  <2>1. SameType(s, <<>>) <=> s = <<>>
    BY <1>1, <1>2, <1>3, <1>4, <1>5
  <2>2. ~ Reordered(s, t)
    BY <1>1, <1>4, <1>5, <1>8
  <2>3. {s, t} = {<<>>, <<"">>} <=> s = <<>>
    BY <1>1, <1>8
  <2>4. QED
    BY <1>8, <2>1, <2>2, <2>3 DEF InstanceType, SamePair
<1>9. CASE s # <<"">> /\ t # <<"">>
  <2>1. {s, t} # {<<>>, <<"">>}
    BY <1>9
  <2>2. QED
    BY <1>2, <1>9, <2>1 DEF InstanceType, SamePair
<1>10. QED
  BY <1>6, <1>7, <1>8, <1>9

\* "os-type-arch" is put together from what its parser takes it apart into.
LEMMA KeyParts ==
    ASSUME NEW W, NEW key \in Seq(W), Len(key) >= 2
    PROVE  /\ SubSeq(key, 2, Len(key) - 1) \in Seq(W)
           /\ key[1] \in W /\ key[Len(key)] \in W
           /\ key = <<key[1]>> \o SubSeq(key, 2, Len(key) - 1) \o <<key[Len(key)]>>
<1>1. /\ Len(key) \in Nat /\ key[1] \in W /\ key[Len(key)] \in W
      /\ \A i \in 1..Len(key) : key[i] \in W
  BY LenProperties
<1> DEFINE x == SubSeq(key, 2, Len(key) - 1)
           whole == <<key[1]>> \o x \o <<key[Len(key)]>>
<1>2. /\ x \in Seq(W) /\ Len(x) = Len(key) - 2
      /\ \A i \in 1..Len(x) : x[i] = key[i + 1]
  <2>1. /\ Len(key) - 1 \in Int /\ 2 \in Int
        /\ \A i \in 2..Len(key) - 1 : key[i] \in W
    BY <1>1
  <2>2. /\ x \in Seq(W)
        /\ Len(x) = IF 2 <= Len(key) - 1 THEN Len(key) - 1 - 2 + 1 ELSE 0
        /\ \A i \in 1..Len(key) - 1 - 2 + 1 : x[i] = key[2 + i - 1]
    BY <2>1, SubSeqProperties
  <2> HIDE DEF x
  <2>3. \A n \in Nat : n >= 2 =>
             (IF 2 <= n - 1 THEN n - 1 - 2 + 1 ELSE 0) = n - 2
    OBVIOUS
  <2>4. Len(x) = Len(key) - 2
    BY ONLY <1>1, <2>2, <2>3, Len(key) >= 2
  <2>5. QED
    BY <1>1, <2>2, <2>4
<1>3. whole \in Seq(W) /\ Len(whole) = Len(key)
  BY <1>1, <1>2
<1>4. ASSUME NEW i \in 1..Len(key) PROVE whole[i] = key[i]
  <2> HIDE DEF x
  <2>1. CASE i = 1
    BY <1>1, <1>2, <2>1
  <2>2. CASE i = Len(key)
    BY <1>1, <1>2, <2>2
  <2>3. CASE i # 1 /\ i # Len(key)
    <3>1. i - 1 \in 1..Len(x) /\ x[i - 1] = key[i]
      BY <1>1, <1>2, <2>3
    <3>2. whole[i] = x[i - 1]
      BY <1>1, <1>2, <2>3, <3>1
    <3>3. QED
      BY <3>1, <3>2
  <2>4. QED
    BY <2>1, <2>2, <2>3
<1>5. key = whole
  <2> HIDE DEF whole
  <2>1. QED
    BY <1>3, <1>4, SeqEqual
<1>6. QED
  BY <1>1, <1>2, <1>5


\* The parsers take a key and a tag apart into their architecture and type.
KeySplits(key, type, arch) ==
    Len(key) >= 2 /\ key[Len(key)] = arch /\ SubSeq(key, 2, Len(key) - 1) = type
TagSplits(tag, type, arch) ==
    Len(tag) >= 2 /\ tag[2] = arch /\ SubSeq(tag, 3, Len(tag)) = type

LEMMA PartsOfKey ==
    ASSUME NEW W, NEW x \in Seq(W), NEW os \in W, NEW arch \in W
    PROVE  KeySplits(KeyOf(os, x, arch), x, arch)
<1> DEFINE key == KeyOf(os, x, arch)
<1> HIDE DEF key
<1>1. Len(x) \in Nat /\ DOMAIN x = 1..Len(x) /\ \A i \in 1..Len(x) : x[i] \in W
  BY LenProperties
<1>2. /\ <<os>> \in Seq(W) /\ Len(<<os>>) = 1 /\ <<os>>[1] = os
      /\ <<arch>> \in Seq(W) /\ Len(<<arch>>) = 1 /\ <<arch>>[1] = arch
  BY OnePart
<1> DEFINE front == <<os>> \o x
<1>3. /\ front \in Seq(W) /\ Len(front) = Len(x) + 1
      /\ \A i \in 1..Len(x) : front[i + 1] = x[i]
  <2>1. /\ front \in Seq(W) /\ Len(front) = 1 + Len(x)
        /\ \A i \in 1..1 + Len(x) : front[i] = IF i <= 1 THEN <<os>>[i] ELSE x[i - 1]
    BY <1>2, ConcatProperties
  <2> HIDE DEF front
  <2>2. ASSUME NEW i \in 1..Len(x) PROVE front[i + 1] = x[i]
    <3>1. /\ i + 1 \in 1..1 + Len(x) /\ ~ (i + 1 <= 1) /\ i + 1 - 1 = i
      BY <1>1
    <3>2. QED
      BY <2>1, <3>1
  <2>3. QED
    BY <1>1, <2>1, <2>2
<1> HIDE DEF front
<1>4. /\ key \in Seq(W) /\ Len(key) = Len(front) + 1
      /\ \A i \in 1..Len(front) + 1 :
            key[i] = IF i <= Len(front) THEN front[i] ELSE <<arch>>[i - Len(front)]
  <2>1. key = front \o <<arch>>
    BY DEF front, key, KeyOf
  <2>2. QED
    BY <1>2, <1>3, <2>1, ConcatProperties
<1>5. /\ Len(key) = Len(x) + 2 /\ Len(key) >= 2
  BY <1>1, <1>3, <1>4
<1>6. key[Len(key)] = arch
  <2>1. /\ Len(key) \in 1..Len(front) + 1 /\ ~ (Len(key) <= Len(front))
        /\ Len(key) - Len(front) = 1
    BY <1>1, <1>3, <1>4
  <2>2. QED
    BY <1>2, <1>4, <2>1
<1>7. \A i \in 1..Len(x) : key[i + 1] = x[i]
  <2>1. ASSUME NEW i \in 1..Len(x) PROVE key[i + 1] = x[i]
    <3>1. i + 1 \in 1..Len(front) + 1 /\ i + 1 <= Len(front)
      BY <1>1, <1>3
    <3>2. QED
      BY <1>3, <1>4, <3>1
  <2>2. QED
    BY <2>1
<1> DEFINE y == SubSeq(key, 2, Len(key) - 1)
<1>8. y \in Seq(W) /\ Len(y) = Len(x) /\ \A i \in 1..Len(x) : y[i] = key[i + 1]
  <2>1. /\ Len(key) - 1 = Len(x) + 1 /\ Len(x) + 1 \in Int /\ 2 \in Int
        /\ \A i \in 2..Len(x) + 1 : key[i] \in W
    BY <1>1, <1>4, <1>5, LenProperties
  <2>2. y = SubSeq(key, 2, Len(x) + 1)
    BY <2>1
  <2> HIDE DEF y
  <2>3. /\ y \in Seq(W)
        /\ Len(y) = IF 2 <= Len(x) + 1 THEN Len(x) + 1 - 2 + 1 ELSE 0
        /\ \A i \in 1..Len(x) + 1 - 2 + 1 : y[i] = key[2 + i - 1]
    BY <2>1, <2>2, SubSeqProperties
  <2>4. \A n \in Nat : (IF 2 <= n + 1 THEN n + 1 - 2 + 1 ELSE 0) = n
    OBVIOUS
  <2>5. Len(y) = Len(x)
    BY ONLY <1>1, <2>3, <2>4
  <2>6. QED
    BY <1>1, <2>3, <2>5
<1>9. y = x
  <2> HIDE DEF y
  <2>1. QED
    BY <1>7, <1>8, SeqEqual
<1>10. QED
  BY <1>5, <1>6, <1>9 DEF KeySplits, key


\* So is "prefix-arch-type".
LEMMA TailParts ==
    ASSUME NEW W, NEW tag \in Seq(W), Len(tag) >= 2
    PROVE  LET y == SubSeq(tag, 3, Len(tag))
           IN  /\ y \in Seq(W) /\ Len(y) = Len(tag) - 2
               /\ \A i \in 1..Len(y) : y[i] = tag[i + 2]
<1> DEFINE y == SubSeq(tag, 3, Len(tag))
<1>1. /\ Len(tag) \in Nat /\ Len(tag) \in Int /\ 3 \in Int
      /\ \A i \in 3..Len(tag) : tag[i] \in W
  BY LenProperties
<1>2. /\ y \in Seq(W)
      /\ Len(y) = IF 3 <= Len(tag) THEN Len(tag) - 3 + 1 ELSE 0
      /\ \A i \in 1..Len(tag) - 3 + 1 : y[i] = tag[3 + i - 1]
  BY <1>1, SubSeqProperties
<1> HIDE DEF y
<1>3. \A n \in Nat : n >= 2 => (IF 3 <= n THEN n - 3 + 1 ELSE 0) = n - 2
  OBVIOUS
<1>4. Len(y) = Len(tag) - 2
  BY ONLY <1>1, <1>2, <1>3, Len(tag) >= 2
<1>5. \A i \in 1..Len(y) : y[i] = tag[i + 2]
  BY <1>1, <1>2, <1>4
<1>6. QED
  BY <1>2, <1>4, <1>5 DEF y

LEMMA PairConcat ==
    ASSUME NEW W, NEW prefix \in W, NEW arch \in W, NEW y \in Seq(W), NEW tag,
           tag = <<prefix, arch>> \o y
    PROVE  /\ tag \in Seq(W) /\ Len(tag) = Len(y) + 2
           /\ tag[1] = prefix /\ tag[2] = arch
           /\ \A i \in 1..Len(y) : tag[i + 2] = y[i]
<1>1. /\ <<prefix, arch>> \in Seq(W) /\ Len(<<prefix, arch>>) = 2
      /\ <<prefix, arch>>[1] = prefix /\ <<prefix, arch>>[2] = arch
  OBVIOUS
<1>2. Len(y) \in Nat
  BY LenProperties
<1>3. /\ tag \in Seq(W) /\ Len(tag) = 2 + Len(y)
      /\ \A i \in 1..2 + Len(y) :
            tag[i] = IF i <= 2 THEN <<prefix, arch>>[i] ELSE y[i - 2]
  BY <1>1, ConcatProperties
<1>4. tag[1] = prefix /\ tag[2] = arch
  BY <1>1, <1>2, <1>3
<1>5. ASSUME NEW i \in 1..Len(y) PROVE tag[i + 2] = y[i]
  <2>1. i + 2 \in 1..2 + Len(y) /\ ~ (i + 2 <= 2) /\ i + 2 - 2 = i
    BY <1>2
  <2>2. QED
    BY <1>3, <2>1
<1>6. QED
  BY <1>2, <1>3, <1>4, <1>5

LEMMA TagParts ==
    ASSUME NEW W, NEW tag \in Seq(W), Len(tag) >= 2
    PROVE  /\ SubSeq(tag, 3, Len(tag)) \in Seq(W)
           /\ tag[1] \in W /\ tag[2] \in W
           /\ tag = <<tag[1], tag[2]>> \o SubSeq(tag, 3, Len(tag))
<1> DEFINE y == SubSeq(tag, 3, Len(tag))
           whole == <<tag[1], tag[2]>> \o y
<1>1. Len(tag) \in Nat /\ \A i \in 1..Len(tag) : tag[i] \in W
  BY LenProperties
<1>2. tag[1] \in W /\ tag[2] \in W
  BY <1>1
<1>3. /\ y \in Seq(W) /\ Len(y) = Len(tag) - 2
      /\ \A i \in 1..Len(y) : y[i] = tag[i + 2]
  BY TailParts
<1> HIDE DEF y
<1>4. /\ whole \in Seq(W) /\ Len(whole) = Len(y) + 2
      /\ whole[1] = tag[1] /\ whole[2] = tag[2]
      /\ \A i \in 1..Len(y) : whole[i + 2] = y[i]
  BY <1>2, <1>3, PairConcat
<1> HIDE DEF whole
<1>5. ASSUME NEW i \in 1..Len(tag) PROVE whole[i] = tag[i]
  <2>1. CASE i = 1 \/ i = 2
    BY <1>4, <2>1
  <2>2. CASE i # 1 /\ i # 2
    <3>1. i - 2 \in 1..Len(y) /\ i - 2 + 2 = i
      BY <1>1, <1>3, <2>2
    <3>2. QED
      BY <1>3, <1>4, <3>1
  <2>3. QED
    BY <2>1, <2>2
<1>6. Len(whole) = Len(tag)
  BY <1>1, <1>3, <1>4
<1>7. whole = tag
  BY <1>4, <1>5, <1>6, SeqEqual
<1>8. QED
  BY <1>2, <1>3, <1>7 DEF y, whole

LEMMA PartsOfTag ==
    ASSUME NEW W, NEW prefix \in W, NEW arch \in W, NEW y \in Seq(W)
    PROVE  TagSplits(TagOf(prefix, arch, y), y, arch)
<1> DEFINE tag == TagOf(prefix, arch, y)
<1> HIDE DEF tag
<1>1. Len(y) \in Nat
  BY LenProperties
<1>2. /\ tag \in Seq(W) /\ Len(tag) = Len(y) + 2 /\ tag[2] = arch
      /\ \A i \in 1..Len(y) : tag[i + 2] = y[i]
  BY PairConcat DEF tag, TagOf
<1>3. Len(tag) >= 2
  BY <1>1, <1>2
<1> DEFINE z == SubSeq(tag, 3, Len(tag))
<1>4. /\ z \in Seq(W) /\ Len(z) = Len(tag) - 2
      /\ \A i \in 1..Len(z) : z[i] = tag[i + 2]
  BY <1>2, <1>3, TailParts
<1> HIDE DEF z
<1>5. Len(z) = Len(y)
  BY <1>1, <1>2, <1>4
<1>6. z = y
  BY <1>2, <1>4, <1>5, SeqEqual
<1>7. QED
  BY <1>2, <1>3, <1>6 DEF z, TagSplits, tag

\* Whatever the words are, validateDynamicInstanceTag accepts the tags that
\* match a platform in the sense of Matching and are short enough for its
\* architecture, and no others: counting the sorted parts, as the code's
\* comparison does, is the same as asking for a reordering (validation.go).
THEOREM TagsMatch ==
    ASSUME NEW W, "" \in W, NEW key \in Seq(W), NEW tag \in Seq(W)
    PROVE  validateDynamicInstanceTag(key, tag)
           <=> /\ <<key, tag>> \in Matching(W, Seq(W))
               /\ TagLength(tag) <= maxInstanceTagLength(tag[2])
<1> DEFINE x == SubSeq(key, 2, Len(key) - 1)
           y == SubSeq(tag, 3, Len(tag))
           short == TagLength(tag) <= maxInstanceTagLength(tag[2])
<1>1. validateDynamicInstanceTag(key, tag)
      <=> /\ Len(key) >= 2 /\ Len(tag) >= 2 /\ key[Len(key)] = tag[2]
          /\ SameType(InstanceType(x), InstanceType(y)) /\ short
  <2> HIDE DEF x, y
  <2>1. /\ parseDynamicHostInstanceTypeKey(key).platform = key[Len(key)]
        /\ parseDynamicHostInstanceTypeKey(key).type = InstanceType(x)
    BY DEF parseDynamicHostInstanceTypeKey, x
  <2>2. /\ parseDynamicHostInstanceTypeValue(tag).platform = tag[2]
        /\ parseDynamicHostInstanceTypeValue(tag).type = InstanceType(y)
    BY DEF parseDynamicHostInstanceTypeValue, y
  <2>3. CASE Len(key) >= 2 /\ Len(tag) >= 2 /\ key[Len(key)] = tag[2]
    BY <2>1, <2>2, <2>3 DEF validateDynamicInstanceTag
  <2>4. CASE ~ (Len(key) >= 2 /\ Len(tag) >= 2 /\ key[Len(key)] = tag[2])
    BY <2>1, <2>2, <2>4 DEF validateDynamicInstanceTag
  <2>5. QED
    BY <2>3, <2>4
<1> HIDE DEF x, y, short
<1>2. ASSUME Len(key) >= 2, Len(tag) >= 2, key[Len(key)] = tag[2],
             SameType(InstanceType(x), InstanceType(y))
      PROVE  <<key, tag>> \in Matching(W, Seq(W))
  <2>1. /\ x \in Seq(W) /\ key[1] \in W /\ tag[2] \in W
        /\ key = KeyOf(key[1], x, tag[2])
    BY <1>2, KeyParts DEF x, KeyOf
  <2>2. y \in Seq(W) /\ tag[1] \in W /\ tag = TagOf(tag[1], tag[2], y)
    BY <1>2, TagParts DEF y, TagOf
  <2>3. SamePair(x, y)
    BY <1>2, <2>1, <2>2, TypesMatch
  <2> DEFINE m == [os |-> key[1], arch |-> tag[2], prefix |-> tag[1],
                   key |-> x, tag |-> y]
  <2>4. m \in Matches(W, Seq(W))
    BY <2>1, <2>2, <2>3 DEF Matches
  <2>5. <<key, tag>> = <<KeyOf(m.os, m.key, m.arch), TagOf(m.prefix, m.arch, m.tag)>>
    BY <2>1, <2>2
  <2> HIDE DEF m
  <2>6. QED
    BY <2>4, <2>5 DEF Matching
<1>3. ASSUME <<key, tag>> \in Matching(W, Seq(W))
      PROVE  /\ Len(key) >= 2 /\ Len(tag) >= 2 /\ key[Len(key)] = tag[2]
             /\ SameType(InstanceType(x), InstanceType(y))
  <2>1. PICK m \in Matches(W, Seq(W)) :
                <<key, tag>> = <<KeyOf(m.os, m.key, m.arch),
                                 TagOf(m.prefix, m.arch, m.tag)>>
    BY <1>3 DEF Matching
  <2>2. key = KeyOf(m.os, m.key, m.arch) /\ tag = TagOf(m.prefix, m.arch, m.tag)
    BY <2>1
  <2>3. /\ m.os \in W /\ m.arch \in W /\ m.prefix \in W
        /\ m.key \in Seq(W) /\ m.tag \in Seq(W) /\ SamePair(m.key, m.tag)
    BY DEF Matches
  <2>4. KeySplits(key, m.key, m.arch) /\ TagSplits(tag, m.tag, m.arch)
    BY <2>2, <2>3, PartsOfKey, PartsOfTag
  <2>5. /\ Len(key) >= 2 /\ key[Len(key)] = m.arch /\ x = m.key
        /\ Len(tag) >= 2 /\ tag[2] = m.arch /\ y = m.tag
    BY <2>4 DEF KeySplits, TagSplits, x, y
  <2>6. QED
    BY <2>3, <2>5, TypesMatch
<1>4. QED
  BY <1>1, <1>2, <1>3 DEF short


=============================================================================
