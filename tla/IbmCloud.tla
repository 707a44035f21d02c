------------------------------ MODULE IbmCloud ------------------------------
(***************************************************************************)
(* The IBM Z (ibmz.go, ibmz_helpers.go) and IBM Power (ibmp.go,            *)
(* ibmp_client.go) cloud providers: the goroutines that terminate an       *)
(* instance and resize its volume after the call that started them has     *)
(* returned, and the floating IP addresses that concurrent calls find,     *)
(* create and bind for System Z instances.                                 *)
(*                                                                         *)
(* The cloud itself (statuses, floating IPs) is external: it is what these *)
(* calls take it to be.                                                    *)
(***************************************************************************)
EXTENDS Integers, FiniteSets

CONSTANTS
    Instances,   \* identities of instances, in the order of their launch
    Callers,     \* reconciles that ask for an address
    IPs,         \* floating IP addresses, in the order of their creation
    None,
    MaxFaults    \* bound: failed requests and restarts

ASSUME IbmAssumption ==
    /\ Instances \subseteq Nat /\ IPs \subseteq Nat /\ MaxFaults \in Nat
    /\ None \notin Nat /\ IsFiniteSet(Instances)
    /\ IsFiniteSet(Callers) /\ Callers # {}

VARIABLES
    inst,       \* inst[i]: its provider and its status
    created,    \* the floating IPs there are
    owner,      \* owner[a]: the instance a is bound to
    address,    \* address[i]: the address last returned for i
    call,       \* call[c]: the call of assignIPToInstance caller c is in
    terminator, \* terminator[i]: the goroutine of TerminateInstance
    resizer,    \* resizer[i]: the goroutine of resizeInstanceVolume
    faults      \* failed requests and restarts so far

ipVars == <<created, owner, address, call>>
vars == <<inst, created, owner, address, call, terminator, resizer, faults>>

Statuses == {"none", "pending", "starting", "running", "deleting", "gone"}
Status(i) == inst[i].status
Alive(i) == Status(i) \in {"pending", "starting", "running"}
IsZ(i) == inst[i].kind = "z"
IsPower(i) == inst[i].kind = "power"

\* A GET finds the instance.
Found(i) == Status(i) \notin {"none", "gone"}

NoCall == [pc |-> "idle", inst |-> None, ip |-> None]
\* late: the 10 minutes of the goroutine are over.  It ends "satisfied" that
\* the instance goes, or gives up.
NoGoroutine == [pc |-> "none", late |-> FALSE]

Init ==
    /\ inst = [i \in Instances |-> [kind |-> "z", status |-> "none"]]
    /\ created = {}
    /\ owner = [a \in IPs |-> None]
    /\ address = [i \in Instances |-> None]
    /\ call = [c \in Callers |-> NoCall]
    /\ terminator = [i \in Instances |-> NoGoroutine]
    /\ resizer = [i \in Instances |-> "none"]
    /\ faults = 0

Fault == faults < MaxFaults /\ faults' = faults + 1
SetStatus(i, s) == inst' = [inst EXCEPT ![i].status = s]

-----------------------------------------------------------------------------
(***************************************************************************)
(* LaunchInstance, and the life of an instance.                            *)
(***************************************************************************)

Launched(i, kind) ==
    /\ Status(i) = "none" /\ \A j \in Instances : j < i => Status(j) # "none"
    /\ inst' = [inst EXCEPT ![i] = [kind |-> kind, status |-> "pending"]]
    /\ UNCHANGED <<ipVars, terminator, faults>>

LaunchInstanceZ(i) == Launched(i, "z") /\ UNCHANGED resizer

\* A Power instance gets a goroutine that resizes its volume.
LaunchInstancePower(i) ==
    Launched(i, "power") /\ resizer' = [resizer EXCEPT ![i] = "trying"]

\* It may stay in a status for ever.  A System Z instance that fails is to these
\* calls as one that is starting, a Power instance that does as one that runs.
Progress(i) ==
    /\ \/ Status(i) = "pending" /\ SetStatus(i, "starting")
       \/ Status(i) = "starting" /\ SetStatus(i, "running")
    /\ UNCHANGED <<ipVars, terminator, resizer, faults>>

\* The floating IP of an instance that is gone is free again.
Vanish(i) ==
    /\ Status(i) = "deleting" /\ SetStatus(i, "gone")
    /\ owner' = [a \in IPs |-> IF owner[a] = i THEN None ELSE owner[a]]
    /\ address' = [address EXCEPT ![i] = None]
    /\ UNCHANGED <<created, call, terminator, resizer, faults>>

-----------------------------------------------------------------------------
(***************************************************************************)
(* resizeInstanceVolume: every 10 seconds, until it is done or, whatever   *)
(* the requests return, 10 minutes have passed.                            *)
(***************************************************************************)

Resizes(i) == resizer[i] # "none"
ResizeOver(i) == resizer' = [resizer EXCEPT ![i] = "none"]

\* The instance has volumes once it is not pending.  While it has none, is gone
\* or a request of this "quite unstable" API fails, the loop goes on.
HasVolume(i) == Found(i) /\ Status(i) # "pending"

\* Mistake: the time is looked at after the instance has been read.
ResizeStepMutant(i) ==
    /\ Resizes(i) /\ HasVolume(i)
    /\ ResizeOver(i)
    /\ UNCHANGED <<inst, ipVars, terminator, faults>>

\* The time is looked at first, at the top of every iteration.
ResizeStep(i) ==
    /\ Resizes(i)
    /\ resizer[i] = "late" \/ HasVolume(i)
    /\ ResizeOver(i)
    /\ UNCHANGED <<inst, ipVars, terminator, faults>>

-----------------------------------------------------------------------------
(***************************************************************************)
(* TerminateInstance.  An iteration of its goroutine is one step: nothing  *)
(* that happens between the GET and the DELETE makes a difference to it.   *)
(***************************************************************************)

Active(i) == terminator[i].pc = "loop"
Ends(i, how) == terminator' = [terminator EXCEPT ![i] = [pc |-> how, late |-> FALSE]]

\* A DELETE "doesn't really work" on a Power instance that is starting.
Deleted(i) ==
    \/ Alive(i) /\ SetStatus(i, "deleting")
    \/ IsPower(i) /\ Status(i) \in {"pending", "starting"} /\ UNCHANGED inst
    \/ ~Alive(i) /\ UNCHANGED inst

Starts(i) ==
    /\ Status(i) # "none" /\ terminator[i].pc = "none"
    /\ terminator' = [terminator EXCEPT ![i].pc = "loop"]
    /\ UNCHANGED <<ipVars, resizer, faults>>

\* Power sends a DELETE before it starts the goroutine, Z does not.
TerminateInstanceZ(i) == IsZ(i) /\ Starts(i) /\ UNCHANGED inst
TerminateInstancePower(i) == IsPower(i) /\ Starts(i) /\ Deleted(i)

\* An instance that cannot be read is gone; Z leaves one alone that is deleting.
Satisfied(i) ==
    /\ Active(i)
    /\ ~Found(i) \/ (IsZ(i) /\ Status(i) = "deleting")
    /\ Ends(i, "satisfied")
    /\ UNCHANGED <<inst, ipVars, resizer, faults>>

\* Both take any error of the GET for "it is gone".
GetFails(i) ==
    /\ Active(i) /\ Fault
    /\ Ends(i, "gave up")
    /\ UNCHANGED <<inst, ipVars, resizer>>

\* Z sends no DELETE while the instance is pending: it sleeps and reads again,
\* without a look at the time.
Deletes(i) ==
    /\ Active(i) /\ Found(i)
    /\ IsZ(i) => Status(i) \notin {"pending", "deleting"}

\* Only at the end of an iteration the loop looks at the time.
NextIteration(i) ==
    IF terminator[i].late THEN Ends(i, "gave up") ELSE UNCHANGED terminator

\* Mistake: one DELETE is enough.
DeleteInstanceMutant(i) ==
    /\ Deletes(i)
    /\ Deleted(i)
    /\ Ends(i, "satisfied")
    /\ UNCHANGED <<ipVars, resizer, faults>>
DeleteInstance(i) ==
    /\ Deletes(i)
    /\ Deleted(i)
    /\ NextIteration(i)
    /\ UNCHANGED <<ipVars, resizer, faults>>

DeleteFails(i) ==
    /\ Deletes(i) /\ Fault
    /\ NextIteration(i)
    /\ UNCHANGED <<inst, ipVars, resizer>>

TimePasses(i) ==
    /\ \/ /\ Active(i) /\ ~terminator[i].late
          /\ terminator' = [terminator EXCEPT ![i].late = TRUE]
          /\ UNCHANGED resizer
       \/ /\ resizer[i] = "trying"
          /\ resizer' = [resizer EXCEPT ![i] = "late"]
          /\ UNCHANGED terminator
    /\ UNCHANGED <<inst, ipVars, faults>>

TerminatorStep(i) == Satisfied(i) \/ DeleteInstance(i)

-----------------------------------------------------------------------------
(***************************************************************************)
(* assignIPToInstance, called by GetInstanceAddress and ListInstances for  *)
(* instances with public addresses.                                        *)
(***************************************************************************)

Bound(i) == {a \in IPs : owner[a] = i}
Free == {a \in created : owner[a] = None}
Calls(c, pc) == call[c].pc = pc
Returns(c) == call' = [call EXCEPT ![c] = NoCall]
ReturnsAddress(c, i, a) == Returns(c) /\ address' = [address EXCEPT ![i] = a]

\* assignNetworkInterfaceFloatingIP: an address that is there is returned.
\* Without one, only a running instance gets one: the others return an error,
\* or "" while they start.
AssociatedIP(c, i) ==
    /\ Calls(c, "idle") /\ IsZ(i) /\ Found(i)
    /\ \E a \in Bound(i) : ReturnsAddress(c, i, a)
    /\ UNCHANGED <<inst, created, owner, terminator, resizer, faults>>

\* An error of the request is taken for "there is none".
NoAssociatedIP(c, i) ==
    /\ Calls(c, "idle") /\ IsZ(i) /\ Status(i) = "running"
    /\ IF Bound(i) = {} THEN UNCHANGED faults ELSE Fault
    /\ call' = [call EXCEPT ![c] = [pc |-> "list", inst |-> i, ip |-> None]]
    /\ UNCHANGED <<inst, created, owner, address, terminator, resizer>>

\* Mistake: an address is created without a look at the free ones.
assignFloatingIPMutant(c) ==
    /\ Calls(c, "list")
    /\ call' = [call EXCEPT ![c].pc = "create"]
    /\ UNCHANGED <<inst, created, owner, address, terminator, resizer, faults>>

\* Mistake: an empty result is not told from an address.
assignFloatingIPEmptyMutant(c) ==
    /\ Calls(c, "list")
    /\ \/ Free = {} /\ call' = [call EXCEPT ![c].pc = "bind"]
       \/ \E a \in Free : /\ \A b \in Free : a <= b
                          /\ call' = [call EXCEPT ![c].pc = "bind", ![c].ip = a]
    /\ UNCHANGED <<inst, created, owner, address, terminator, resizer, faults>>

\* The first floating IP that is available, or else a new one.
assignFloatingIP(c) ==
    /\ Calls(c, "list")
    /\ \/ Free = {} /\ call' = [call EXCEPT ![c].pc = "create"]
       \/ \E a \in Free : /\ \A b \in Free : a <= b
                          /\ call' = [call EXCEPT ![c].pc = "bind", ![c].ip = a]
    /\ UNCHANGED <<inst, created, owner, address, terminator, resizer, faults>>

CreateFloatingIP(c) ==
    /\ Calls(c, "create")
    /\ \E a \in IPs \ created :
          /\ \A b \in IPs \ created : a <= b
          /\ created' = created \cup {a}
          /\ call' = [call EXCEPT ![c].pc = "bind", ![c].ip = a]
    /\ UNCHANGED <<inst, owner, address, terminator, resizer, faults>>

\* A network interface with infrastructure NAT takes one floating IP, and a
\* floating IP one network interface.
CanBind(c) ==
    /\ owner[call[c].ip] = None /\ Bound(call[c].inst) = {}
    /\ Status(call[c].inst) \notin {"deleting", "gone"}

AddFloatingIP(c) ==
    /\ Calls(c, "bind") /\ CanBind(c)
    /\ owner' = [owner EXCEPT ![call[c].ip] = call[c].inst]
    /\ ReturnsAddress(c, call[c].inst, call[c].ip)
    /\ UNCHANGED <<inst, created, terminator, resizer, faults>>

\* Mistake: the error of the request is only logged.
AddFloatingIPFailsMutant(c) ==
    /\ Calls(c, "bind") /\ ~CanBind(c)
    /\ ReturnsAddress(c, call[c].inst, call[c].ip)
    /\ UNCHANGED <<inst, created, owner, terminator, resizer, faults>>

\* The error is returned, and an address that was created stays free.
AddFloatingIPFails(c) ==
    /\ Calls(c, "bind") /\ ~CanBind(c)
    /\ Returns(c)
    /\ UNCHANGED <<inst, created, owner, address, terminator, resizer, faults>>

\* Any request of the call fails.
AssignFails(c) ==
    /\ ~Calls(c, "idle") /\ Fault
    /\ Returns(c)
    /\ UNCHANGED <<inst, created, owner, address, terminator, resizer>>

-----------------------------------------------------------------------------
\* The goroutines end with the process, and nobody starts them again.
Restart ==
    /\ Fault
    /\ call' = [c \in Callers |-> NoCall]
    /\ terminator' = [i \in Instances |->
          IF Active(i) THEN [pc |-> "gave up", late |-> FALSE] ELSE terminator[i]]
    /\ resizer' = [i \in Instances |-> "none"]
    /\ UNCHANGED <<inst, created, owner, address>>

Next ==
    \/ \E i \in Instances :
          \/ LaunchInstanceZ(i) \/ LaunchInstancePower(i)
          \/ Progress(i) \/ Vanish(i)
          \/ ResizeStep(i)
          \/ TerminateInstanceZ(i) \/ TerminateInstancePower(i)
          \/ TerminatorStep(i) \/ TimePasses(i)
          \/ GetFails(i) \/ DeleteFails(i)
    \/ \E c \in Callers :
          \/ \E i \in Instances : AssociatedIP(c, i) \/ NoAssociatedIP(c, i)
          \/ assignFloatingIP(c) \/ CreateFloatingIP(c)
          \/ AddFloatingIP(c) \/ AddFloatingIPFails(c) \/ AssignFails(c)
    \/ Restart

Spec == Init /\ [][Next]_vars

\* Goroutines run, time passes and the cloud deletes what it was told to; an
\* instance need not ever leave the status pending.  Time passes once for each
\* goroutine, an instance goes once, and a goroutine ends once it is late: so
\* fairness to all of them together is fairness to each.
FairSpec ==
    /\ Spec
    /\ WF_vars(\E i \in Instances : TimePasses(i) \/ Vanish(i))
    /\ WF_vars(\E i \in Instances : TerminatorStep(i) \/ ResizeStep(i))

-----------------------------------------------------------------------------
(***************************************************************************)
(* Properties.                                                             *)
(***************************************************************************)

Instance == [kind : {"z", "power"}, status : Statuses]
Call == [pc : {"idle", "list", "create", "bind"},
         inst : Instances \cup {None}, ip : IPs \cup {None}]
Goroutine == [pc : {"none", "loop", "satisfied", "gave up"}, late : BOOLEAN]

\* An address is bound only after it was found or created.
TypeOK ==
    /\ inst \in [Instances -> Instance]
    /\ created \subseteq IPs
    /\ owner \in [IPs -> Instances \cup {None}]
    /\ address \in [Instances -> IPs \cup {None}]
    /\ call \in [Callers -> Call]
    /\ \A c \in Callers : Calls(c, "bind") => call[c].ip \in created
    /\ terminator \in [Instances -> Goroutine]
    /\ resizer \in [Instances -> {"none", "trying", "late"}]
    /\ faults \in 0..MaxFaults

\* The address returned for an instance is its own as long as it lives: calls
\* that found the same free address do not both return it.
AddressOwned ==
    \A i \in Instances : Alive(i) /\ address[i] # None => owner[address[i]] = i

\* No instance has two addresses and none is created without need (each is
\* charged for a month): there are never more than instances launched, one for
\* every other call in flight, and one for every failed request.
AddressesBounded ==
    Cardinality(created)
        <= Cardinality({i \in Instances : Status(i) # "none" /\ IsZ(i)})
           + (Cardinality(Callers) - 1) + faults

\* The goroutine of TerminateInstance ends, whatever the requests return, and
\* then the instance goes, unless the goroutine gave up: it was told an error it
\* took for the end of it, ran out of time, or died with the process.  The one
\* exception is a System Z instance that stays pending: its loop has no end.
TerminationDone ==
    \A i \in Instances :
        \/ <>[](IsZ(i) /\ Status(i) = "pending")
        \/ Active(i) ~> /\ ~Active(i)
                        /\ Status(i) = "gone" \/ terminator[i].pc = "gave up"

\* The resizing of a volume is given up in the end, also when the instance stays
\* pending or was deleted meanwhile and can no longer be read.
ResizeEnds == \A i \in Instances : Resizes(i) ~> ~Resizes(i)
=============================================================================
