--------------------------- MODULE IbmCloudProofs ---------------------------
(***************************************************************************)
(* Proofs about IbmCloud, for every number of instances, callers and       *)
(* floating IPs and any failed requests and restarts: type correctness,    *)
(* that the address returned for an instance is its own, and how many      *)
(* addresses are created.                                                  *)
(***************************************************************************)
EXTENDS IbmCloud, FiniteSetTheorems, TLAPS

\* AddressOwned is not inductive: an instance that does not exist yet has no
\* address from an earlier life, and a call that is about to bind an address
\* does so for an instance that was launched.
Unborn == \A i \in Instances : Status(i) = "none" => address[i] = None
WasLaunched(i) == i \in Instances /\ Status(i) # "none"
Serves == \A c \in Callers : ~Calls(c, "idle") => WasLaunched(call[c].inst)
AddressInv == TypeOK /\ Unborn /\ Serves /\ AddressOwned

\* The invariant holds before the first launch.
LEMMA InitHolds == Init => AddressInv
<1>1. SUFFICES ASSUME Init PROVE AddressInv
  OBVIOUS
<1>2. TypeOK
  BY <1>1, IbmAssumption DEF Init, TypeOK, Instance, Statuses, Call, NoCall, Goroutine,
                             NoGoroutine, Calls
<1>3. QED
  BY <1>1, <1>2 DEF Init, AddressInv, Unborn, Serves, AddressOwned, Calls, NoCall

\* A step counts at most one fault.
LEMMA FaultTyped ==
    ASSUME TypeOK, Fault \/ UNCHANGED faults
    PROVE  faults' \in 0..MaxFaults
BY IbmAssumption DEF TypeOK, Fault

\* No step brings an instance back to life, or to before its launch.
Forward == \A j \in Instances :
    /\ inst'[j].status = "none" => Status(j) = "none"
    /\ inst'[j].status \in {"pending", "starting", "running"}
       => Alive(j) \/ Status(j) = "none"

\* A change of status is one of this kind.
LEMMA StatusForward ==
    ASSUME TypeOK, NEW i \in Instances,
           \/ UNCHANGED inst
           \/ SetStatus(i, "starting") /\ Alive(i)
           \/ SetStatus(i, "running") /\ Alive(i)
           \/ SetStatus(i, "deleting")
           \/ \E k \in {"z", "power"} : Launched(i, k)
    PROVE  inst' \in [Instances -> Instance] /\ Forward
<1>1. inst \in [Instances -> Instance]
  BY DEF TypeOK
<1>2. CASE UNCHANGED inst
  BY <1>1, <1>2 DEF Forward, Status, Alive
<1>3. ASSUME NEW s \in Statuses \ {"none"}, SetStatus(i, s),
             s \in {"pending", "starting", "running"} => Alive(i)
      PROVE  inst' \in [Instances -> Instance] /\ Forward
  <2>1. inst' = [inst EXCEPT ![i] = [inst[i] EXCEPT !.status = s]]
    BY <1>3 DEF SetStatus
  <2>2. [inst[i] EXCEPT !.status = s] \in Instance /\ [inst[i] EXCEPT !.status = s].status = s
    BY <1>1 DEF Instance
  <2>3. QED
    BY <1>1, <1>3, <2>1, <2>2 DEF Forward, Status, Alive
<1>4. ASSUME NEW k \in {"z", "power"}, Launched(i, k)
      PROVE  inst' \in [Instances -> Instance] /\ Forward
  <2>1. [kind |-> k, status |-> "pending"] \in Instance
    BY <1>4 DEF Instance, Statuses
  <2>2. QED
    BY <1>1, <1>4, <2>1 DEF Launched, Forward, Status, Alive
<1>5. QED
  BY <1>2, <1>3, <1>4 DEF Statuses

\* The goroutines and the cloud change the status of instances and nothing the
\* calls know.
LEMMA ForwardHolds ==
    ASSUME AddressInv, TypeOK', Forward, UNCHANGED <<owner, address, call>>
    PROVE  AddressInv'
BY DEF AddressInv, Forward, Unborn, Serves, WasLaunched, AddressOwned, Alive, Status, Calls

\* A goroutine starts, ends, goes on or is late.
LEMMA TerminatorTyped ==
    ASSUME TypeOK, NEW i \in Instances,
           \/ UNCHANGED terminator
           \/ terminator' = [terminator EXCEPT ![i].pc = "loop"]
           \/ terminator' = [terminator EXCEPT ![i].late = TRUE]
           \/ \E how \in {"satisfied", "gave up"} : Ends(i, how)
    PROVE  terminator' \in [Instances -> Goroutine]
<1>1. terminator \in [Instances -> Goroutine]
  BY DEF TypeOK
<1>2. /\ [terminator[i] EXCEPT !.pc = "loop"] \in Goroutine
      /\ [terminator[i] EXCEPT !.late = TRUE] \in Goroutine
  BY <1>1 DEF Goroutine
<1>3. ASSUME NEW how \in {"satisfied", "gave up"}
      PROVE  [pc |-> how, late |-> FALSE] \in Goroutine
  BY DEF Goroutine
<1>4. QED
  BY <1>1, <1>2, <1>3 DEF Ends

\* The steps of goroutines and those of the cloud that keep the addresses.
LEMMA InstanceSteps ==
    ASSUME AddressInv, NEW i \in Instances,
           \/ LaunchInstanceZ(i) \/ LaunchInstancePower(i) \/ Progress(i)
           \/ ResizeStep(i) \/ TerminateInstanceZ(i) \/ TerminateInstancePower(i)
           \/ TerminatorStep(i) \/ TimePasses(i) \/ GetFails(i) \/ DeleteFails(i)
    PROVE  AddressInv'
<1> USE DEF LaunchInstanceZ, LaunchInstancePower, Launched, Progress, ResizeStep,
            TerminateInstanceZ, TerminateInstancePower, Starts, TerminatorStep,
            Satisfied, DeleteInstance, TimePasses, GetFails, DeleteFails
<1>1. TypeOK
  BY DEF AddressInv
<1>2. UNCHANGED <<created, owner, address, call>>
  BY DEF ipVars
<1>3. Fault \/ UNCHANGED faults
  OBVIOUS
<1>4. \/ UNCHANGED resizer
      \/ \E v \in {"none", "trying", "late"} : resizer' = [resizer EXCEPT ![i] = v]
  BY DEF ResizeOver
<1>5. \/ UNCHANGED terminator
      \/ terminator' = [terminator EXCEPT ![i].pc = "loop"]
      \/ terminator' = [terminator EXCEPT ![i].late = TRUE]
      \/ \E how \in {"satisfied", "gave up"} : Ends(i, how)
  BY DEF NextIteration
<1>6. \/ UNCHANGED inst
      \/ SetStatus(i, "starting") /\ Alive(i)
      \/ SetStatus(i, "running") /\ Alive(i)
      \/ SetStatus(i, "deleting")
      \/ \E k \in {"z", "power"} : Launched(i, k)
  BY DEF Deleted, Alive
<1>7. TypeOK'
  <2>1. resizer' \in [Instances -> {"none", "trying", "late"}]
    BY <1>1, <1>4 DEF TypeOK
  <2>2. terminator' \in [Instances -> Goroutine]
    BY <1>1, <1>5, TerminatorTyped
  <2>3. inst' \in [Instances -> Instance]
    BY <1>1, <1>6, StatusForward
  <2>4. faults' \in 0..MaxFaults
    BY <1>1, <1>3, FaultTyped
  <2>5. QED
    BY <1>1, <1>2, <2>1, <2>2, <2>3, <2>4 DEF TypeOK, Calls
<1>8. Forward
  BY <1>1, <1>6, StatusForward
<1>9. QED
  BY <1>2, <1>7, <1>8, ForwardHolds

\* An instance that is gone leaves its address free, and no other's.
LEMMA VanishHolds ==
    ASSUME AddressInv, NEW i \in Instances, Vanish(i)
    PROVE  AddressInv'
<1>1. TypeOK
  BY DEF AddressInv
<1>2. inst' \in [Instances -> Instance] /\ inst'[i].status = "gone"
      /\ \A j \in Instances \ {i} : inst'[j] = inst[j]
  <2>1. inst' = [inst EXCEPT ![i] = [inst[i] EXCEPT !.status = "gone"]]
    BY DEF Vanish, SetStatus
  <2>2. /\ [inst[i] EXCEPT !.status = "gone"] \in Instance
        /\ [inst[i] EXCEPT !.status = "gone"].status = "gone"
    BY <1>1 DEF TypeOK, Instance, Statuses
  <2>3. QED
    BY <1>1, <2>1, <2>2 DEF TypeOK
<1>3. /\ address' \in [Instances -> IPs \cup {None}] /\ address'[i] = None
      /\ \A j \in Instances \ {i} : address'[j] = address[j]
  BY <1>1 DEF Vanish, TypeOK
<1>4. /\ owner' \in [IPs -> Instances \cup {None}]
      /\ \A a \in IPs : owner[a] # i => owner'[a] = owner[a]
  BY <1>1 DEF Vanish, TypeOK
<1>5. UNCHANGED <<created, call, terminator, resizer, faults>>
  BY DEF Vanish
<1>6. TypeOK'
  BY <1>1, <1>2, <1>3, <1>4, <1>5 DEF TypeOK, Calls
<1>7. AddressOwned'
  BY <1>1, <1>2, <1>3, <1>4 DEF AddressInv, AddressOwned, Alive, Status, TypeOK
<1>8. Unborn' /\ Serves'
  <2>1. \A j \in Instances : inst'[j].status = "none" => Status(j) = "none" /\ j # i
    BY <1>2 DEF Status
  <2>2. QED
    BY <1>3, <1>5, <2>1 DEF AddressInv, Unborn, Serves, WasLaunched, Status, Calls
<1>9. QED
  BY <1>6, <1>7, <1>8 DEF AddressInv

-----------------------------------------------------------------------------
(***************************************************************************)
(* The calls of assignIPToInstance.                                        *)
(***************************************************************************)

\* A call that goes on, or ends without an address.
LEMMA CallHolds ==
    ASSUME AddressInv, NEW c \in Callers, NEW k \in Call,
           call' = [call EXCEPT ![c] = k],
           k.pc # "idle" => WasLaunched(k.inst),
           k.pc = "bind" => k.ip \in created',
           created \subseteq created', created' \subseteq IPs,
           Fault \/ UNCHANGED faults,
           UNCHANGED <<inst, owner, address, terminator, resizer>>
    PROVE  AddressInv'
<1>1. TypeOK /\ Serves
  BY DEF AddressInv
<1>2. faults' \in 0..MaxFaults
  BY <1>1, FaultTyped
<1>3. /\ call' \in [Callers -> Call]
      /\ \A d \in Callers : call'[d].pc = "bind" => call'[d].ip \in created'
      /\ \A d \in Callers : call'[d].pc # "idle" => WasLaunched(call'[d].inst)
  BY <1>1 DEF TypeOK, Serves, Calls
<1>4. TypeOK'
  BY <1>1, <1>2, <1>3 DEF TypeOK, Calls
<1>5. QED
  BY <1>3, <1>4 DEF AddressInv, Unborn, Serves, WasLaunched, AddressOwned, Alive, Status, Calls

\* An idle call.
LEMMA NoCallTyped == NoCall \in Call /\ NoCall.pc = "idle"
BY DEF NoCall, Call

\* The steps of assignIPToInstance that return no address.
LEMMA CallSteps ==
    ASSUME AddressInv, NEW c \in Callers,
           \/ \E i \in Instances : NoAssociatedIP(c, i)
           \/ assignFloatingIP(c) \/ CreateFloatingIP(c)
           \/ AddFloatingIPFails(c) \/ AssignFails(c)
    PROVE  AddressInv'
<1>1. TypeOK /\ Serves
  BY DEF AddressInv
<1>2. call[c] \in Call /\ (~Calls(c, "idle") => WasLaunched(call[c].inst))
  BY <1>1 DEF TypeOK, Serves
<1>3. ASSUME NEW i \in Instances, NoAssociatedIP(c, i) PROVE AddressInv'
  <2> DEFINE k == [pc |-> "list", inst |-> i, ip |-> None]
  <2>1. k \in Call /\ k.pc = "list" /\ k.inst = i /\ WasLaunched(i)
    BY <1>3 DEF Call, WasLaunched, NoAssociatedIP
  <2>2. /\ call' = [call EXCEPT ![c] = k] /\ (Fault \/ UNCHANGED faults)
        /\ UNCHANGED <<inst, created, owner, address, terminator, resizer>>
    BY <1>3 DEF NoAssociatedIP
  <2> HIDE DEF k
  <2>3. QED
    BY <1>1, <2>1, <2>2, CallHolds DEF TypeOK
<1>4. ASSUME NEW pc \in {"create", "bind"}, NEW ip \in IPs \cup {None},
             ~Calls(c, "idle"), pc = "bind" => ip \in created',
             call' = [call EXCEPT ![c] = [call[c] EXCEPT !.pc = pc, !.ip = ip]],
             created \subseteq created', created' \subseteq IPs,
             UNCHANGED <<inst, owner, address, terminator, resizer, faults>>
      PROVE  AddressInv'
  <2> DEFINE k == [call[c] EXCEPT !.pc = pc, !.ip = ip]
  <2>1. k \in Call /\ k.pc = pc /\ k.ip = ip /\ k.inst = call[c].inst
    BY <1>2 DEF Call
  <2>2. call' = [call EXCEPT ![c] = k]
    BY <1>4
  <2> HIDE DEF k
  <2>3. QED
    BY <1>2, <1>4, <2>1, <2>2, CallHolds
<1>5. CASE assignFloatingIP(c)
  <2>1. CASE call' = [call EXCEPT ![c].pc = "create"]
    <3>1. call' = [call EXCEPT ![c] = [call[c] EXCEPT !.pc = "create", !.ip = call[c].ip]]
      BY <1>2, <2>1 DEF Call
    <3>2. call[c].ip \in IPs \cup {None}
      BY <1>2 DEF Call
    <3>3. QED
      BY <1>1, <1>4, <1>5, <3>1, <3>2 DEF assignFloatingIP, Calls, TypeOK
  <2>2. ASSUME NEW a \in Free, call' = [call EXCEPT ![c].pc = "bind", ![c].ip = a]
        PROVE  AddressInv'
    <3>1. call' = [call EXCEPT ![c] = [call[c] EXCEPT !.pc = "bind", !.ip = a]]
      BY <1>1, <2>2 DEF TypeOK
    <3>2. a \in created /\ a \in IPs
      BY <1>1 DEF Free, TypeOK
    <3>3. QED
      BY <1>1, <1>4, <1>5, <3>1, <3>2 DEF assignFloatingIP, Calls, TypeOK
  <2>3. QED
    BY <1>5, <2>1, <2>2 DEF assignFloatingIP
<1>6. CASE CreateFloatingIP(c)
  <2>1. PICK a \in IPs \ created :
           /\ created' = created \cup {a}
           /\ call' = [call EXCEPT ![c].pc = "bind", ![c].ip = a]
    BY <1>6 DEF CreateFloatingIP
  <2>2. call' = [call EXCEPT ![c] = [call[c] EXCEPT !.pc = "bind", !.ip = a]]
    BY <1>1, <2>1 DEF TypeOK
  <2>3. created \subseteq created' /\ created' \subseteq IPs /\ a \in created'
    BY <1>1, <2>1 DEF TypeOK
  <2>4. QED
    BY <1>4, <1>6, <2>2, <2>3 DEF CreateFloatingIP, Calls
<1>7. CASE AddFloatingIPFails(c) \/ AssignFails(c)
  <2>1. /\ Returns(c) /\ (Fault \/ UNCHANGED faults)
        /\ UNCHANGED <<inst, created, owner, address, terminator, resizer>>
    BY <1>7 DEF AddFloatingIPFails, AssignFails
  <2>2. QED
    BY <1>1, <2>1, NoCallTyped, CallHolds DEF Returns, TypeOK
<1>8. QED
  BY <1>3, <1>5, <1>6, <1>7

\* The address that is returned is bound to the instance.
LEMMA ReturnHolds ==
    ASSUME AddressInv, NEW c \in Callers, NEW i \in Instances, NEW a \in IPs,
           WasLaunched(i), ReturnsAddress(c, i, a), owner[a] \in {i, None},
           owner' = [owner EXCEPT ![a] = i],
           UNCHANGED <<inst, created, terminator, resizer, faults>>
    PROVE  AddressInv'
<1>1. TypeOK /\ Serves
  BY DEF AddressInv
<1>2. /\ call' \in [Callers -> Call]
      /\ \A d \in Callers : call'[d] = call[d] \/ call'[d].pc = "idle"
  BY <1>1, NoCallTyped DEF ReturnsAddress, Returns, TypeOK
<1>3. /\ address' \in [Instances -> IPs \cup {None}] /\ address'[i] = a
      /\ \A j \in Instances \ {i} : address'[j] = address[j]
  BY <1>1 DEF ReturnsAddress, TypeOK
<1>4. /\ owner' \in [IPs -> Instances \cup {None}] /\ owner'[a] = i
      /\ \A b \in IPs \ {a} : owner'[b] = owner[b]
  BY <1>1 DEF TypeOK
<1>5. TypeOK'
  BY <1>1, <1>2, <1>3, <1>4 DEF TypeOK, Calls
<1>6. AddressOwned'
  <2>1. SUFFICES ASSUME NEW j \in Instances, Alive(j), address'[j] # None
                 PROVE  owner'[address'[j]] = j
    BY DEF AddressOwned, Alive, Status
  <2>2. CASE j = i
    BY <1>3, <1>4, <2>2
  <2>3. CASE j # i
    <3>1. address'[j] = address[j] /\ owner[address[j]] = j /\ address[j] \in IPs
      BY <1>1, <1>3, <2>1, <2>3 DEF AddressInv, AddressOwned, TypeOK
    <3>2. j # None
      BY IbmAssumption
    <3>3. QED
      BY <1>4, <2>3, <3>1, <3>2
  <2>4. QED
    BY <2>2, <2>3
<1>7. Unborn' /\ Serves'
  BY <1>1, <1>2, <1>3 DEF AddressInv, Unborn, Serves, WasLaunched, Status, Calls
<1>8. QED
  BY <1>5, <1>6, <1>7 DEF AddressInv

\* It was bound before, or is bound in this step.
LEMMA ReturnSteps ==
    ASSUME AddressInv, NEW c \in Callers,
           AddFloatingIP(c) \/ \E i \in Instances : AssociatedIP(c, i)
    PROVE  AddressInv'
<1>1. TypeOK /\ Serves
  BY DEF AddressInv
<1>2. ASSUME NEW i \in Instances, AssociatedIP(c, i) PROVE AddressInv'
  <2>1. PICK a \in IPs : owner[a] = i /\ ReturnsAddress(c, i, a)
    BY <1>2 DEF AssociatedIP, Bound
  <2>2. owner' = [owner EXCEPT ![a] = i] /\ WasLaunched(i)
    BY <1>1, <1>2, <2>1 DEF AssociatedIP, Found, WasLaunched, TypeOK
  <2>3. QED
    BY <1>2, <2>1, <2>2, ReturnHolds DEF AssociatedIP
<1>3. CASE AddFloatingIP(c)
  <2>1. WasLaunched(call[c].inst) /\ call[c].ip \in IPs /\ owner[call[c].ip] = None
    BY <1>1, <1>3 DEF AddFloatingIP, CanBind, Serves, Calls, TypeOK
  <2>2. QED
    BY <1>3, <2>1, ReturnHolds DEF AddFloatingIP, WasLaunched
<1>4. QED
  BY <1>2, <1>3

\* A restart ends the calls and the goroutines.
LEMMA RestartHolds ==
    ASSUME AddressInv, Restart
    PROVE  AddressInv'
<1>1. TypeOK
  BY DEF AddressInv
<1>2. faults' \in 0..MaxFaults
  BY <1>1, FaultTyped DEF Restart
<1>3. /\ call' \in [Callers -> Call] /\ \A c \in Callers : call'[c].pc = "idle"
      /\ resizer' \in [Instances -> {"none", "trying", "late"}]
  BY NoCallTyped DEF Restart
<1>4. terminator' \in [Instances -> Goroutine]
  BY <1>1 DEF Restart, TypeOK, Goroutine
<1>5. TypeOK'
  BY <1>1, <1>2, <1>3, <1>4 DEF Restart, TypeOK, Calls
<1>6. QED
  BY <1>3, <1>5 DEF Restart, AddressInv, Unborn, Serves, AddressOwned, Alive, Status, Calls

\* AddressInv is inductive.
LEMMA NextHolds == AddressInv /\ [Next]_vars => AddressInv'
<1>1. SUFFICES ASSUME AddressInv, [Next]_vars PROVE AddressInv'
  OBVIOUS
<1>2. CASE UNCHANGED vars
  BY <1>1, <1>2 DEF vars, AddressInv, TypeOK, Unborn, Serves, WasLaunched, AddressOwned,
                    Alive, Status, Calls
<1>3. CASE Next
  BY <1>1, <1>3, InstanceSteps, VanishHolds, CallSteps, ReturnSteps, RestartHolds DEF Next
<1>4. QED
  BY <1>1, <1>2, <1>3

\* Type correctness of the IBM providers and the cloud they use.
THEOREM IbmTyping == Spec => []TypeOK
<1>1. AddressInv => TypeOK
  BY DEF AddressInv
<1>2. QED
  BY <1>1, InitHolds, NextHolds, PTL DEF Spec

\* The address returned for an instance is bound to it as long as it lives,
\* however the calls that find, create and bind addresses interleave
\* (ibmz_helpers.go, assignIPToInstance).
THEOREM AddressesOwned == Spec => []AddressOwned
<1>1. AddressInv => AddressOwned
  BY DEF AddressInv
<1>2. QED
  BY <1>1, InitHolds, NextHolds, PTL DEF Spec

-----------------------------------------------------------------------------
(***************************************************************************)
(* The number of addresses that are created.                               *)
(***************************************************************************)

Zs == {i \in Instances : Status(i) # "none" /\ IsZ(i)}
Creating == {c \in Callers : Calls(c, "create")}

\* As long as nothing fails, some caller was told the truth: it is in no call,
\* or the instance of its call has no address yet.
Truthful == \E c \in Callers : Calls(c, "idle") \/ Bound(call[c].inst) = {}

\* Addresses are bound to System Z instances, one to one, and the bound counts
\* the addresses that are about to be created.
CountInv ==
    /\ AddressInv /\ IsFiniteSet(created)
    /\ \A a \in IPs : owner[a] # None => a \in created /\ owner[a] \in Zs
    /\ \A a, b \in IPs : owner[a] # None /\ owner[a] = owner[b] => a = b
    /\ \A c \in Callers : ~Calls(c, "idle") => call[c].inst \in Zs
    /\ faults = 0 => Truthful
    /\ Cardinality(created) + Cardinality(Creating)
         <= Cardinality(Zs) + Cardinality(Callers) - 1 + faults

\* What is counted is finite, before a step and after it.
LEMMA Counted ==
    ASSUME CountInv
    PROVE  /\ IsFiniteSet(Zs) /\ Cardinality(Zs) \in Nat
           /\ IsFiniteSet(Zs') /\ Cardinality(Zs') \in Nat
           /\ IsFiniteSet(Creating) /\ Cardinality(Creating) \in Nat
           /\ IsFiniteSet(Creating') /\ Cardinality(Creating') \in Nat
           /\ Cardinality(Creating') <= Cardinality(Callers)
           /\ Cardinality(Callers) \in Nat /\ Cardinality(created) \in Nat
           /\ faults \in Nat
<1>1. /\ Zs \subseteq Instances /\ Zs' \subseteq Instances
      /\ Creating \subseteq Callers /\ Creating' \subseteq Callers
  BY DEF Zs, Creating
<1>2. /\ IsFiniteSet(Zs) /\ IsFiniteSet(Zs') /\ IsFiniteSet(Creating) /\ IsFiniteSet(Creating')
      /\ Cardinality(Creating') <= Cardinality(Callers)
  BY <1>1, FS_Subset, IbmAssumption
<1>3. IsFiniteSet(created) /\ faults \in Nat
  BY IbmAssumption DEF CountInv, AddressInv, TypeOK
<1>4. QED
  BY <1>2, <1>3, FS_CardinalityType, IbmAssumption

\* No step unbinds the kind of an instance that was launched.
LEMMA ZsKept ==
    ASSUME CountInv,
           \A i \in Instances : Status(i) # "none"
                                => inst'[i].kind = inst[i].kind /\ inst'[i].status # "none"
    PROVE  Zs \subseteq Zs'
BY DEF Zs, Status, IsZ

\* A step that creates and binds no address, and starts no call.
LEMMA CountCalm ==
    ASSUME CountInv, AddressInv', UNCHANGED created, Zs \subseteq Zs',
           Creating' \subseteq Creating, Fault \/ UNCHANGED faults,
           \A a \in IPs : owner'[a] \in {None, owner[a]},
           \A c \in Callers : \/ call'[c].pc = "idle"
                              \/ ~Calls(c, "idle") /\ call'[c].inst = call[c].inst
    PROVE  CountInv'
<1>1. \A a \in IPs : owner'[a] # None => a \in created' /\ owner'[a] \in Zs'
  BY DEF CountInv
<1>2. \A a, b \in IPs : owner'[a] # None /\ owner'[a] = owner'[b] => a = b
  BY DEF CountInv
<1>3. \A c \in Callers : call'[c].pc # "idle" => call'[c].inst \in Zs'
  BY DEF CountInv
<1>4. faults' = 0 => Truthful'
  <2>1. SUFFICES ASSUME faults' = 0 PROVE Truthful'
    OBVIOUS
  <2>2. Truthful
    BY <2>1, Counted DEF CountInv, Fault
  <2>3. PICK c \in Callers : Calls(c, "idle") \/ Bound(call[c].inst) = {}
    BY <2>2 DEF Truthful
  <2>4. CASE call'[c].pc = "idle"
    BY <2>4 DEF Truthful, Calls
  <2>5. CASE ~Calls(c, "idle") /\ call'[c].inst = call[c].inst
    <3>1. call[c].inst # None
      BY <2>5, IbmAssumption DEF CountInv, Zs
    <3>2. \A a \in IPs : owner'[a] # call'[c].inst
      BY <2>3, <2>5, <3>1 DEF Bound
    <3>3. QED
      BY <3>2 DEF Truthful, Bound
  <2>6. QED
    BY <2>4, <2>5
<1>5. /\ Cardinality(Creating') <= Cardinality(Creating)
      /\ Cardinality(Zs) <= Cardinality(Zs')
  BY Counted, FS_Subset
<1>6. faults <= faults' /\ faults' \in Nat
  BY Counted DEF Fault
<1>7. Cardinality(created) + Cardinality(Creating)
         <= Cardinality(Zs) + Cardinality(Callers) - 1 + faults
  BY DEF CountInv
<1>8. Cardinality(created') + Cardinality(Creating')
         <= Cardinality(Zs') + Cardinality(Callers) - 1 + faults'
  BY <1>5, <1>6, <1>7, Counted
<1>9. IsFiniteSet(created')
  BY DEF CountInv
<1>10. QED
  BY <1>1, <1>2, <1>3, <1>4, <1>8, <1>9 DEF CountInv, Calls

\* The steps of instances and goroutines are such steps.
LEMMA InstanceCount ==
    ASSUME CountInv, AddressInv', NEW i \in Instances,
           \/ LaunchInstanceZ(i) \/ LaunchInstancePower(i) \/ Progress(i) \/ Vanish(i)
           \/ ResizeStep(i) \/ TerminateInstanceZ(i) \/ TerminateInstancePower(i)
           \/ TerminatorStep(i) \/ TimePasses(i) \/ GetFails(i) \/ DeleteFails(i)
    PROVE  CountInv'
<1> USE DEF LaunchInstanceZ, LaunchInstancePower, Launched, Progress, Vanish, ResizeStep,
            TerminateInstanceZ, TerminateInstancePower, Starts, TerminatorStep,
            Satisfied, DeleteInstance, TimePasses, GetFails, DeleteFails
<1>1. UNCHANGED <<created, call>> /\ (Fault \/ UNCHANGED faults)
  BY DEF ipVars
<1>2. \/ UNCHANGED inst
      \/ \E s \in Statuses \ {"none"} : SetStatus(i, s)
      \/ Status(i) = "none" /\ \E k \in {"z", "power"} : Launched(i, k)
  BY DEF Deleted, Statuses
<1>3. inst \in [Instances -> Instance]
  BY DEF CountInv, AddressInv, TypeOK
<1>4. \A j \in Instances : Status(j) # "none"
                           => inst'[j].kind = inst[j].kind /\ inst'[j].status # "none"
  <2>1. CASE UNCHANGED inst
    BY <2>1 DEF Status
  <2>2. ASSUME NEW s \in Statuses \ {"none"}, SetStatus(i, s)
        PROVE  \A j \in Instances : Status(j) # "none"
                  => inst'[j].kind = inst[j].kind /\ inst'[j].status # "none"
    BY <1>3, <2>2 DEF SetStatus, Status, Instance
  <2>3. CASE Status(i) = "none" /\ \E k \in {"z", "power"} : Launched(i, k)
    BY <1>3, <2>3 DEF Status
  <2>4. QED
    BY <1>2, <2>1, <2>2, <2>3
<1>5. \A a \in IPs : owner'[a] \in {None, owner[a]}
  BY DEF ipVars
<1>6. Creating' \subseteq Creating
  BY <1>1 DEF Creating, Calls
<1>7. \A c \in Callers : \/ call'[c].pc = "idle"
                         \/ ~Calls(c, "idle") /\ call'[c].inst = call[c].inst
  BY <1>1 DEF Calls
<1>8. Zs \subseteq Zs'
  BY <1>4, ZsKept
<1>9. QED
  BY <1>1, <1>5, <1>6, <1>7, <1>8, CountCalm

\* A call begins for an instance that has no address, unless a request failed.
LEMMA BeginCount ==
    ASSUME CountInv, AddressInv', NEW c \in Callers, NEW i \in Instances, NoAssociatedIP(c, i)
    PROVE  CountInv'
<1>1. /\ UNCHANGED <<inst, created, owner>> /\ (Fault \/ UNCHANGED faults)
      /\ faults' = faults => Bound(i) = {}
      /\ call' = [call EXCEPT ![c] = [pc |-> "list", inst |-> i, ip |-> None]]
      /\ i \in Zs
  BY Counted DEF NoAssociatedIP, Fault, Zs
<1>2. /\ call'[c].pc = "list" /\ call'[c].inst = i
      /\ \A d \in Callers \ {c} : call'[d] = call[d]
  BY <1>1 DEF CountInv, AddressInv, TypeOK
<1>3. Zs' = Zs /\ Creating' \subseteq Creating
  BY <1>1, <1>2 DEF Zs, Status, IsZ, Creating, Calls
<1>4. \A d \in Callers : call'[d].pc # "idle" => call'[d].inst \in Zs'
  BY <1>1, <1>2, <1>3 DEF CountInv, Calls
<1>5. faults' = 0 => Truthful'
  <2>1. faults' = 0 => faults' = faults
    BY <1>1, Counted DEF Fault
  <2>2. QED
    BY <1>1, <1>2, <2>1 DEF Truthful, Bound
<1>6. Cardinality(Creating') <= Cardinality(Creating)
  BY <1>3, Counted, FS_Subset
<1>7. Cardinality(created) + Cardinality(Creating)
         <= Cardinality(Zs) + Cardinality(Callers) - 1 + faults
  BY DEF CountInv
<1>8. Cardinality(created') + Cardinality(Creating')
         <= Cardinality(Zs') + Cardinality(Callers) - 1 + faults'
  BY <1>1, <1>3, <1>6, <1>7, Counted DEF Fault
<1>9. QED
  BY <1>1, <1>3, <1>4, <1>5, <1>8 DEF CountInv, Calls

\* When no address is free there are no more of them than instances that have
\* one.
LEMMA NoneFree ==
    ASSUME CountInv, Free = {}
    PROVE  Cardinality(created) <= Cardinality({i \in Zs : Bound(i) # {}})
<1> DEFINE B == {i \in Zs : Bound(i) # {}}
           f == [a \in created |-> owner[a]]
<1>1. created \subseteq IPs /\ \A a \in created : owner[a] \in Zs /\ owner[a] # None
  BY DEF Free, CountInv, AddressInv, TypeOK
<1>2. \A a \in created : a \in Bound(owner[a])
  BY <1>1 DEF Bound
<1>3. f \in [created -> B]
  BY <1>1, <1>2
<1>4. \A a, b \in created : f[a] = f[b] => a = b
  BY <1>1 DEF CountInv
<1>5. f \in Injection(created, B)
  BY <1>3, <1>4 DEF Injection, IsInjective
<1>6. IsFiniteSet(B)
  BY Counted, FS_Subset
<1>7. QED
  BY <1>5, <1>6, FS_Injection

\* A call is about to create an address: there is room for it, since another
\* caller does not, some instance has none, or a request failed.
LEMMA CreatingCount ==
    ASSUME CountInv, AddressInv', NEW c \in Callers, Calls(c, "list"), Free = {},
           call' = [call EXCEPT ![c].pc = "create"],
           UNCHANGED <<inst, created, owner, faults>>
    PROVE  CountInv'
<1> DEFINE B == {i \in Zs : Bound(i) # {}}
<1>1. /\ call'[c].pc = "create" /\ call'[c].inst = call[c].inst
      /\ \A d \in Callers \ {c} : call'[d] = call[d]
      /\ call[c].pc = "list"
  BY DEF CountInv, AddressInv, TypeOK, Calls, Call
<1>2. Zs' = Zs
  BY DEF Zs, Status, IsZ
<1>3. \A d \in Callers : call'[d].pc # "idle" => call'[d].inst \in Zs'
  BY <1>1, <1>2 DEF CountInv, Calls
<1>4. Truthful => Truthful'
  BY <1>1 DEF Truthful, Calls, Bound
<1>5. Cardinality(created) <= Cardinality(B)
  BY NoneFree
<1>6. IsFiniteSet(B) /\ Cardinality(B) \in Nat /\ Cardinality(B) <= Cardinality(Zs)
  BY Counted, FS_Subset, FS_CardinalityType
<1>7. Cardinality(created) + Cardinality(Creating')
         <= Cardinality(Zs) + Cardinality(Callers) - 1 + faults
  <2>1. CASE faults > 0
    BY <1>5, <1>6, <2>1, Counted
  <2>2. CASE faults = 0
    <3>1. PICK d \in Callers : Calls(d, "idle") \/ Bound(call[d].inst) = {}
      BY <2>2 DEF CountInv, Truthful
    <3>2. CASE Calls(d, "idle")
      <4>1. Creating' \subseteq Callers \ {d}
        BY <1>1, <3>2 DEF Creating, Calls
      <4>2. /\ IsFiniteSet(Callers \ {d})
            /\ Cardinality(Callers \ {d}) = Cardinality(Callers) - 1
        BY FS_RemoveElement, IbmAssumption
      <4>3. Cardinality(Creating') <= Cardinality(Callers) - 1
        BY <4>1, <4>2, FS_Subset
      <4>4. QED
        BY <1>5, <1>6, <2>2, <4>3, Counted
    <3>3. CASE ~Calls(d, "idle") /\ Bound(call[d].inst) = {}
      <4>1. call[d].inst \in Zs /\ B \subseteq Zs \ {call[d].inst}
        BY <3>3 DEF CountInv
      <4>2. /\ IsFiniteSet(Zs \ {call[d].inst})
            /\ Cardinality(Zs \ {call[d].inst}) = Cardinality(Zs) - 1
        BY <4>1, Counted, FS_RemoveElement
      <4>3. Cardinality(B) <= Cardinality(Zs) - 1
        BY <4>1, <4>2, FS_Subset
      <4>4. QED
        BY <1>5, <1>6, <2>2, <4>3, Counted
    <3>4. QED
      BY <3>1, <3>2, <3>3
  <2>3. QED
    BY <2>1, <2>2, Counted
<1>8. QED
  BY <1>2, <1>3, <1>4, <1>7 DEF CountInv, Calls

\* An address is created: it was counted already.
LEMMA CreateCount ==
    ASSUME CountInv, AddressInv', NEW c \in Callers, CreateFloatingIP(c)
    PROVE  CountInv'
<1>1. PICK a \in IPs \ created : /\ created' = created \cup {a}
                                 /\ call' = [call EXCEPT ![c].pc = "bind", ![c].ip = a]
  BY DEF CreateFloatingIP
<1>2. /\ call[c].pc = "create" /\ UNCHANGED <<inst, owner, faults>>
      /\ call'[c].pc = "bind" /\ call'[c].inst = call[c].inst
      /\ \A d \in Callers \ {c} : call'[d] = call[d]
  BY <1>1 DEF CreateFloatingIP, CountInv, AddressInv, TypeOK, Calls, Call
<1>3. Zs' = Zs /\ Creating' = Creating \ {c} /\ c \in Creating
  BY <1>2 DEF Zs, Status, IsZ, Creating, Calls
<1>4. \A d \in Callers : call'[d].pc # "idle" => call'[d].inst \in Zs'
  BY <1>2, <1>3 DEF CountInv, Calls
<1>5. Truthful => Truthful'
  BY <1>2 DEF Truthful, Calls, Bound
<1>6. IsFiniteSet(created') /\ Cardinality(created') = Cardinality(created) + 1
  BY <1>1, FS_AddElement DEF CountInv
<1>7. Cardinality(Creating') = Cardinality(Creating) - 1
  BY <1>3, Counted, FS_RemoveElement
<1>8. Cardinality(created) + Cardinality(Creating)
         <= Cardinality(Zs) + Cardinality(Callers) - 1 + faults
  BY DEF CountInv
<1>9. Cardinality(created') + Cardinality(Creating')
         <= Cardinality(Zs') + Cardinality(Callers) - 1 + faults'
  BY <1>2, <1>3, <1>6, <1>7, <1>8, Counted
<1>10. \A b \in IPs : owner'[b] # None => b \in created' /\ owner'[b] \in Zs'
  BY <1>1, <1>2, <1>3 DEF CountInv
<1>11. QED
  BY <1>2, <1>4, <1>5, <1>6, <1>9, <1>10 DEF CountInv, Calls

\* A free address is bound to an instance that has none.
LEMMA BindCount ==
    ASSUME CountInv, AddressInv', NEW c \in Callers, AddFloatingIP(c)
    PROVE  CountInv'
<1> DEFINE a == call[c].ip
           i == call[c].inst
<1>1. /\ call[c].pc = "bind" /\ owner[a] = None /\ Bound(i) = {}
      /\ UNCHANGED <<inst, created, faults>>
      /\ owner' = [owner EXCEPT ![a] = i] /\ call' = [call EXCEPT ![c] = NoCall]
  BY DEF AddFloatingIP, CanBind, ReturnsAddress, Returns, Calls
<1>2. a \in created /\ a \in IPs /\ i \in Zs
  BY <1>1 DEF CountInv, AddressInv, TypeOK, Calls
<1> HIDE DEF a, i
<1>3. owner'[a] = i /\ \A b \in IPs \ {a} : owner'[b] = owner[b]
  BY <1>1, <1>2 DEF CountInv, AddressInv, TypeOK
<1>4. /\ call'[c].pc = "idle" /\ \A d \in Callers \ {c} : call'[d] = call[d]
  BY <1>1, NoCallTyped DEF CountInv, AddressInv, TypeOK
<1>5. Zs' = Zs /\ Creating' \subseteq Creating
  BY <1>1, <1>4 DEF Zs, Status, IsZ, Creating, Calls
<1>6. \A b \in IPs : owner[b] # i
  BY <1>1 DEF Bound
<1>7. \A b \in IPs : owner'[b] # None => b \in created' /\ owner'[b] \in Zs'
  BY <1>1, <1>2, <1>3, <1>5 DEF CountInv
<1>8. \A b, d \in IPs : owner'[b] # None /\ owner'[b] = owner'[d] => b = d
  BY <1>3, <1>6 DEF CountInv
<1>9. Truthful' /\ \A d \in Callers : call'[d].pc # "idle" => call'[d].inst \in Zs'
  BY <1>4, <1>5 DEF Truthful, CountInv, Calls
<1>10. Cardinality(Creating') <= Cardinality(Creating)
  BY <1>5, Counted, FS_Subset
<1>11. Cardinality(created) + Cardinality(Creating)
         <= Cardinality(Zs) + Cardinality(Callers) - 1 + faults
  BY DEF CountInv
<1>12. Cardinality(created') + Cardinality(Creating')
         <= Cardinality(Zs') + Cardinality(Callers) - 1 + faults'
  BY <1>1, <1>5, <1>10, <1>11, Counted
<1>13. QED
  BY <1>1, <1>7, <1>8, <1>9, <1>12 DEF CountInv, Calls

\* The other steps of the calls, and a restart.
LEMMA CallCount ==
    ASSUME CountInv, AddressInv',
           \/ Restart
           \/ \E c \in Callers : \/ \E i \in Instances : AssociatedIP(c, i)
                                 \/ assignFloatingIP(c) /\ Free # {}
                                 \/ AddFloatingIPFails(c) \/ AssignFails(c)
    PROVE  CountInv'
<1>1. /\ UNCHANGED <<inst, created, owner>> /\ (Fault \/ UNCHANGED faults)
  BY DEF Restart, AssociatedIP, assignFloatingIP, AddFloatingIPFails, AssignFails
<1>2. call \in [Callers -> Call]
  BY DEF CountInv, AddressInv, TypeOK
<1>3. \A d \in Callers : \/ call'[d] = call[d] \/ call'[d].pc = "idle"
                         \/ /\ call'[d].pc = "bind" /\ call[d].pc = "list"
                            /\ call'[d].inst = call[d].inst
  <2>1. CASE Restart
    BY <2>1, NoCallTyped DEF Restart
  <2>2. ASSUME NEW c \in Callers, Returns(c)
        PROVE  \A d \in Callers : call'[d] = call[d] \/ call'[d].pc = "idle"
    BY <1>2, <2>2, NoCallTyped DEF Returns
  <2>3. ASSUME NEW c \in Callers, assignFloatingIP(c), Free # {}
        PROVE  \A d \in Callers : \/ call'[d] = call[d]
                                  \/ /\ call'[d].pc = "bind" /\ call[d].pc = "list"
                                     /\ call'[d].inst = call[d].inst
    <3>1. PICK a \in Free : call' = [call EXCEPT ![c].pc = "bind", ![c].ip = a]
      BY <2>3 DEF assignFloatingIP
    <3>2. QED
      BY <1>2, <2>3, <3>1 DEF assignFloatingIP, Calls, Call
  <2>4. QED
    BY <2>1, <2>2, <2>3 DEF AssociatedIP, AddFloatingIPFails, AssignFails, ReturnsAddress
<1>4. Zs' = Zs /\ Creating' \subseteq Creating
  BY <1>1, <1>3 DEF Zs, Status, IsZ, Creating, Calls
<1>5. \A d \in Callers : \/ call'[d].pc = "idle"
                         \/ ~Calls(d, "idle") /\ call'[d].inst = call[d].inst
  BY <1>3 DEF Calls
<1>6. QED
  BY <1>1, <1>4, <1>5, CountCalm

\* CountInv is inductive.
LEMMA CountNext == CountInv /\ [Next]_vars => CountInv'
<1>1. SUFFICES ASSUME CountInv, [Next]_vars PROVE CountInv'
  OBVIOUS
<1>2. AddressInv'
  BY <1>1, NextHolds DEF CountInv
<1>3. CASE UNCHANGED vars
  <2>1. Zs' = Zs /\ Creating' = Creating /\ (Truthful => Truthful')
    BY <1>3 DEF vars, Zs, Creating, Truthful, Bound, Status, IsZ, Calls
  <2>2. QED
    BY <1>1, <1>2, <1>3, <2>1 DEF vars, CountInv, Calls
<1>4. ASSUME NEW c \in Callers, assignFloatingIP(c) PROVE CountInv'
  <2>1. CASE Free # {}
    BY <1>1, <1>2, <1>4, <2>1, CallCount
  <2>2. CASE Free = {}
    BY <1>1, <1>2, <1>4, <2>2, CreatingCount DEF assignFloatingIP
  <2>3. QED
    BY <2>1, <2>2
<1>5. ASSUME NEW c \in Callers,
             \/ \E i \in Instances : AssociatedIP(c, i) \/ NoAssociatedIP(c, i)
             \/ CreateFloatingIP(c) \/ AddFloatingIP(c) \/ AddFloatingIPFails(c)
             \/ AssignFails(c)
      PROVE  CountInv'
  BY <1>1, <1>2, <1>5, BeginCount, CreateCount, BindCount, CallCount
<1>6. CASE Restart
  BY <1>1, <1>2, <1>6, CallCount
<1>7. QED
  BY <1>1, <1>2, <1>3, <1>4, <1>5, <1>6, InstanceCount DEF Next

LEMMA CountInit == Init => CountInv
<1>1. SUFFICES ASSUME Init PROVE CountInv
  OBVIOUS
<1>2. Zs = {} /\ Creating = {} /\ created = {} /\ faults = 0 /\ Truthful
  BY <1>1, IbmAssumption DEF Init, Zs, Status, Creating, Calls, NoCall, Truthful
<1>3. Cardinality(Callers) \in Nat /\ Cardinality(Callers) # 0
  BY FS_EmptySet, FS_CardinalityType, IbmAssumption
<1>4. Cardinality({}) = 0 /\ IsFiniteSet({})
  BY FS_EmptySet
<1>5. /\ \A a \in IPs : owner[a] = None
      /\ \A c \in Callers : Calls(c, "idle")
  BY <1>1 DEF Init, Calls, NoCall
<1>6. QED
  BY <1>1, <1>2, <1>3, <1>4, <1>5, InitHolds DEF CountInv

\* There are never more floating IP addresses than System Z instances launched,
\* one for every other caller and one for every failed request, however the
\* calls that look for a free address, create one and bind it interleave
\* (ibmz_helpers.go, assignFloatingIP).
THEOREM AddressesAreBounded == Spec => []AddressesBounded
<1>1. ASSUME CountInv PROVE AddressesBounded
  <2>1. Cardinality(created) + Cardinality(Creating)
           <= Cardinality(Zs) + Cardinality(Callers) - 1 + faults
    BY <1>1 DEF CountInv
  <2>2. Cardinality(created) <= Cardinality(Zs) + (Cardinality(Callers) - 1) + faults
    BY <1>1, <2>1, Counted
  <2>3. QED
    BY <2>2 DEF AddressesBounded, Zs
<1>2. QED
  BY <1>1, CountInit, CountNext, PTL DEF Spec

=============================================================================
