-------------------------- MODULE MCPlatformConfig --------------------------
(***************************************************************************)
(* Instances of PlatformConfig for TLC, with the configurations HostConfig *)
(* makes of a few ConfigMaps, and the checks of HostConfig's operators     *)
(* against what they are meant to accept.                                  *)
(***************************************************************************)
EXTENDS PlatformConfig, HostConfig

Arm == << <<"linux">>, <<"arm64">> >>
Z == << <<"linux", "large">>, <<"s390x">> >>

Fields(type, max, secret, tag) ==
    [NoFields EXCEPT !.type = type, !.max = max, !.secret = secret, !.tag = tag]
Host(p, n) == [address |-> "IPv4", platform |-> p, secret |-> {"key", "s390x"},
               concurrency |-> n]
EmptyData == [local |-> <<>>, dynamicPlatforms |-> <<>>, poolPlatforms |-> <<>>,
              instanceTag |-> <<"prod">>, dynamic |-> [n \in {} |-> NoFields],
              hosts |-> [h \in {} |-> Host(Blank, NoNumber)]]

ArmFields == Fields("aws", Number(2), {"key"}, <<"prod", "arm64">>)
ZFields == Fields("ibmz", Number(1), {"ibm", "s390x"}, <<"prod", "s390x", "large">>)

\* Both platforms dynamic.
DynamicData ==
    [EmptyData EXCEPT !.dynamicPlatforms = <<Arm, Z, Blank>>,
                      !.dynamic = [n \in {platformConfigName(Arm), platformConfigName(Z)} |->
                                      IF n = platformConfigName(Arm) THEN ArmFields ELSE ZFields]]
\* Arm a dynamic pool, Z one static host.
PoolData ==
    [EmptyData EXCEPT !.poolPlatforms = <<Arm>>,
                      !.dynamic = [n \in {platformConfigName(Arm)} |->
                                      [ArmFields EXCEPT !.concurrency = Number(4),
                                                        !.age = Number(60)]],
                      !.hosts = [h \in {"z1"} |-> Host(Z, Number(1))]]
\* Arm local; a host of Z whose concurrency is no number.
BrokenData ==
    [EmptyData EXCEPT !.local = <<Arm, Blank>>,
                      !.hosts = [h \in {"z1"} |-> Host(Z, Junk)]]
\* Both static; Z has lost its host.
StaticData == [EmptyData EXCEPT !.hosts = [h \in {"a1"} |-> Host(Arm, Number(2))]]

\* Platforms and contents of the ConfigMap by name, and what each content
\* configures for each platform.
PlatformNamed == [arm |-> Arm, z |-> Z, malformed |-> << <<"linux">> >>]
Contents == [dynamic |-> DynamicData, pool |-> PoolData,
             broken |-> BrokenData, static |-> StaticData]
\* handleUserTask refuses the others before it asks for a configuration.
MCPlatforms ==
    {p \in DOMAIN PlatformNamed :
        ValidatePlatform(<<[name |-> "IMAGE", value |-> Blank],
                           [name |-> "PLATFORM", value |-> PlatformNamed[p]]>>).ok}
\* All on one platform, or one on the other.
MCWants == {[t \in Tasks |-> "arm"]}
           \cup {[[t \in Tasks |-> "arm"] EXCEPT ![CHOOSE t \in Tasks : TRUE] = "z"]}
MCDatas == DOMAIN Contents
Resolved == [d \in MCDatas, p \in MCPlatforms |->
                PlatformConfigOf(Contents[d], PlatformNamed[p])]
MCResolve(d, p) == Resolved[d, p]
Labels == [p \in MCPlatforms |-> platformConfigName(PlatformNamed[p])]
MCLabel(p) == Labels[p]

-----------------------------------------------------------------------------
(***************************************************************************)
(* The checks of HostConfig: input is the name of a platform to try    *)
(* its operators on, or None, in the behaviours of PlatformConfig.         *)
(***************************************************************************)
VARIABLE input

Sequences(S, from, to) == UNION {[1..n -> S] : n \in from..to}
Words == {"s390x", "d", ""}
Names == Sequences(Words, 1, 4)

MCInit == Init /\ input \in Names \cup {None}
MCNext == input = None /\ Next /\ UNCHANGED input
MCSpec == /\ MCInit /\ [][MCNext]_<<vars, input>>
          /\ \A t \in Tasks : WF_vars(input = None /\ Step(t))

\* validateDynamicInstanceTag accepts a tag when it is "prefix-arch" followed
\* by the parts of the instance type of "os-type-arch" in any order (one empty
\* part being no type): a tag is matched with its platform although the two
\* are written differently.
Accepted == Matching(Words, Sequences(Words, 0, 2))
TagChecked ==
    input # None => \A tag \in Names :
        validateDynamicInstanceTag(input, tag) <=> <<input, tag>> \in Accepted
=============================================================================
