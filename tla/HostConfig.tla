----------------------------- MODULE HostConfig -----------------------------
(***************************************************************************)
(* The host-config ConfigMap and what it configures: pkg/config/config.go  *)
(* and validation.go, and the part of getPlatformConfig (taskrun.go) that  *)
(* turns the ConfigMap's data into the configuration of one platform.      *)
(*                                                                         *)
(* A label or a tag is the sequence of its words, split at "-"; a platform *)
(* the sequence of its labels, split at "/".  An error message is not      *)
(* modelled: a result has ok = FALSE, whatever was wrong first.            *)
(***************************************************************************)
EXTENDS Integers, SequencesExt

-----------------------------------------------------------------------------
(***************************************************************************)
(* validation.go.                                                          *)
(***************************************************************************)

\* A number as it is written: nothing, an integer, or something else.
NoNumber == [text |-> "empty", n |-> 0]
Junk == [text |-> "junk", n |-> 0]
Number(n) == [text |-> "integer", n |-> n]

\* validation.IsDNS1035Label: words in lower case, neither dash at an end.
IsDNS1035Label(label) ==
    /\ label # <<>> /\ label[1] # "" /\ label[Len(label)] # ""
    /\ \A i \in DOMAIN label : label[i] \notin {"Prod", "x86_64", "a_b"}

ExceptionalPlatforms ==
    {<< <<"local">> >>, << <<"localhost">> >>, << <<"linux">>, <<"x86_64">> >>}

validatePlatformFormat(p) ==
    \/ p \in ExceptionalPlatforms
    \/ Len(p) = 2 /\ IsDNS1035Label(p[1]) /\ IsDNS1035Label(p[2])

\* The PLATFORM of a TaskRun is its first parameter of that name.
ExtractPlatform(params) ==
    LET named == SelectSeq(params, LAMBDA q : q.name = "PLATFORM")
    IN  IF named = <<>> THEN [ok |-> FALSE, platform |-> <<>>]
                        ELSE [ok |-> TRUE, platform |-> named[1].value]

ValidatePlatform(params) ==
    LET found == ExtractPlatform(params)
    IN  [found EXCEPT !.ok = @ /\ validatePlatformFormat(found.platform)]

validateNonZeroPositiveNumber(v) == v.text = "integer" /\ v.n >= 1
validateNonZeroPositiveNumberWithMax(v, max) ==
    validateNonZeroPositiveNumber(v) /\ v.n <= max

\* net.ParseIP: also an IPv6 address.
ValidateIPFormat(address) == address \in {"IPv4", "IPv6"}

\* The name of the platform and of the secret hold the same architecture.
validateIBMHostSecret(words, secret) ==
    \E arch \in {"s390x", "ppc64le"} : arch \in words /\ arch \in secret

\* The parts of an instance type joined again: one empty part is no type.
InstanceType(parts) == IF parts = <<"">> THEN <<>> ELSE parts

\* "os-type...-arch": what stands between the first and the last dash is the
\* instance type, whose parts are sorted, so that only their counts matter.
parseDynamicHostInstanceTypeKey(key) ==
    [platform |-> key[Len(key)],
     type |-> InstanceType(SubSeq(key, 2, Len(key) - 1))]

\* "prefix-arch-type...".
parseDynamicHostInstanceTypeValue(value) ==
    [platform |-> value[2],
     type |-> InstanceType(SubSeq(value, 3, Len(value)))]

\* Two instance types are the same string once their parts are sorted.
SameType(s, t) ==
    \A w \in ToSet(s) \cup ToSet(t) :
        Cardinality({i \in DOMAIN s : s[i] = w})
            = Cardinality({i \in DOMAIN t : t[i] = w})

TagLength(tag) == FoldLeft(LAMBDA n, w : n + Len(w) + 1, -1, tag)
maxInstanceTagLength(arch) ==
    CASE arch = "ppc64le" -> 29 [] arch = "s390x" -> 45 [] OTHER -> 1000

\* Mistake: the parts of the two instance types are compared in their order.
validateDynamicInstanceTagMutant(key, tag) ==
    /\ Len(key) >= 2 /\ Len(tag) >= 2
    /\ LET k == parseDynamicHostInstanceTypeKey(key)
           v == parseDynamicHostInstanceTypeValue(tag)
       IN  k = v /\ TagLength(tag) <= maxInstanceTagLength(k.platform)

\* Fewer than two words, in either, is an error of its parser.
validateDynamicInstanceTag(key, tag) ==
    /\ Len(key) >= 2 /\ Len(tag) >= 2
    /\ LET k == parseDynamicHostInstanceTypeKey(key)
           v == parseDynamicHostInstanceTypeValue(tag)
       IN  /\ k.platform = v.platform
           /\ SameType(k.type, v.type)
           /\ TagLength(tag) <= maxInstanceTagLength(k.platform)

\* What tags are meant to match: a platform "os-type-arch" and a tag
\* "prefix-arch-type" of words of W, whose instance types, of T, have the same
\* parts in any order (one empty part being no type).
Reordered(s, t) ==
    \E order \in Bijection(DOMAIN s, DOMAIN t) :
        \A i \in DOMAIN s : t[order[i]] = s[i]
SamePair(s, t) == Reordered(s, t) \/ {s, t} = {<<>>, <<"">>}
KeyOf(os, type, arch) == <<os>> \o type \o <<arch>>
TagOf(prefix, arch, type) == <<prefix, arch>> \o type
Matches(W, T) == {m \in [os : W, arch : W, prefix : W, key : T, tag : T] :
                     SamePair(m.key, m.tag)}
Matching(W, T) == {<<KeyOf(m.os, m.key, m.arch), TagOf(m.prefix, m.arch, m.tag)>> :
                      m \in Matches(W, T)}

-----------------------------------------------------------------------------
(***************************************************************************)
(* config.go.  The data of the ConfigMap: the three platform lists, split  *)
(* at "," and trimmed; instance-tag, the default tag; dynamic, the fields  *)
(* "dynamic.<name>.*" of each <name>; hosts, the fields "host.<name>.*".   *)
(* A secret is the set of its words.                                       *)
(***************************************************************************)

Blank == <<>>
NoFields == [type |-> "", max |-> NoNumber, tag |-> <<>>,
             timeout |-> NoNumber, interval |-> NoNumber,
             concurrency |-> NoNumber, age |-> NoNumber, secret |-> {}]

maxStaticConcurrency == 8
maxPoolHostAge == 1440

ParsePlatformList(list) ==
    [ok |-> \A i \in DOMAIN list :
               IF list[i] = Blank THEN i = Len(list)
                                  ELSE validatePlatformFormat(list[i]),
     platforms |-> ToSet(list) \ {Blank}]

\* The platform with "/" replaced by "-", which names its fields.
platformConfigName(p) == FlattenSeq(p)
FieldsOf(data, p) ==
    IF platformConfigName(p) \in DOMAIN data.dynamic
    THEN data.dynamic[platformConfigName(p)] ELSE NoFields

\* An optional number is valid when it is not there.
Optional(v) == v = NoNumber \/ validateNonZeroPositiveNumber(v)
Default(v, n) == IF v = NoNumber THEN n ELSE v.n

parseDynamicRequiredTypeField(f) == f.type # ""
parseDynamicRequiredMaxInstancesField(f) == validateNonZeroPositiveNumber(f.max)
parseDynamicOptionalInstanceTagField(f, name) ==
    f.tag = <<>> \/ validateDynamicInstanceTag(name, f.tag)

\* The type is checked here and nowhere else.
parseRequiredSSHSecretField(f, name) ==
    /\ f.secret # {}
    /\ CASE f.type = "aws" -> TRUE
         [] f.type \in {"ibmz", "ibmp"} ->
               validateIBMHostSecret(ToSet(name), f.secret)
         [] OTHER -> FALSE

ParseDynamicPlatformConfig(data, p) ==
    LET f == FieldsOf(data, p)
        name == platformConfigName(p)
    IN  [ok |-> /\ parseDynamicRequiredTypeField(f)
                /\ parseDynamicRequiredMaxInstancesField(f)
                /\ parseDynamicOptionalInstanceTagField(f, name)
                /\ Optional(f.timeout) /\ Optional(f.interval)
                /\ parseRequiredSSHSecretField(f, name),
         type |-> f.type, maxInstances |-> f.max.n, instanceTag |-> f.tag,
         allocationTimeout |-> Default(f.timeout, 600),
         checkInterval |-> Default(f.interval, 60)]

ParseDynamicPoolPlatformConfig(data, p) ==
    LET f == FieldsOf(data, p)
        name == platformConfigName(p)
    IN  [ok |-> /\ parseDynamicRequiredTypeField(f)
                /\ parseDynamicRequiredMaxInstancesField(f)
                /\ validateNonZeroPositiveNumberWithMax(f.concurrency, maxStaticConcurrency)
                /\ validateNonZeroPositiveNumberWithMax(f.age, maxPoolHostAge)
                /\ parseDynamicOptionalInstanceTagField(f, name)
                /\ parseRequiredSSHSecretField(f, name),
         type |-> f.type, maxInstances |-> f.max.n, instanceTag |-> f.tag,
         concurrency |-> f.concurrency.n, maxAge |-> f.age.n]

\* Only the address is required; a host without platform is of none.
ParseStaticHostConfig(data, host) ==
    LET f == data.hosts[host]
        words == ToSet(platformConfigName(f.platform))
    IN  [ok |-> /\ ValidateIPFormat(f.address)
                /\ f.platform = Blank \/ validatePlatformFormat(f.platform)
                /\ f.secret # {} /\ words \cap {"s390x", "ppc64le"} # {}
                   => validateIBMHostSecret(words, f.secret)
                /\ f.concurrency = NoNumber
                   \/ validateNonZeroPositiveNumberWithMax(f.concurrency, maxStaticConcurrency),
         platform |-> f.platform, concurrency |-> Default(f.concurrency, 0)]

-----------------------------------------------------------------------------
(***************************************************************************)
(* The configuration of a platform: the lists are searched in this order,  *)
(* and an error in a list hides the ones after it.                         *)
(***************************************************************************)

NoConfig == [kind |-> "error", capacity |-> 0, hosts |-> {}, tag |-> <<>>]

\* The default tag takes the place of a missing one, and is not validated.
InstanceTagOf(c, data) ==
    IF c.instanceTag = <<>> THEN data.instanceTag ELSE c.instanceTag

buildDynamicResolver(c, data) ==
    [kind |-> "dynamic", capacity |-> c.maxInstances, hosts |-> {},
     tag |-> InstanceTagOf(c, data)]
buildDynamicHostPool(c, data) ==
    [kind |-> "pool", capacity |-> c.maxInstances, hosts |-> {},
     tag |-> InstanceTagOf(c, data)]

\* Every static host is parsed, also those of other platforms.
HostPoolOf(data, p) ==
    LET parsed == [h \in DOMAIN data.hosts |-> ParseStaticHostConfig(data, h)]
        mine == {h \in DOMAIN parsed : parsed[h].platform = p}
    IN  IF \E h \in DOMAIN parsed : ~parsed[h].ok
        THEN NoConfig
        ELSE [kind |-> "static", hosts |-> mine, tag |-> <<>>,
              capacity |-> MapThenSumSet(LAMBDA h : parsed[h].concurrency, mine)]

PlatformConfigOf(data, p) ==
    LET locals == ParsePlatformList(data.local)
        dynamics == ParsePlatformList(data.dynamicPlatforms)
        pools == ParsePlatformList(data.poolPlatforms)
        resolver == ParseDynamicPlatformConfig(data, p)
        pool == ParseDynamicPoolPlatformConfig(data, p)
        Local == [NoConfig EXCEPT !.kind = "local"]
    IN  IF ~locals.ok THEN NoConfig
        ELSE IF p \in locals.platforms THEN Local
        ELSE IF ~dynamics.ok THEN NoConfig
        ELSE IF p \in dynamics.platforms
             THEN IF resolver.ok THEN buildDynamicResolver(resolver, data) ELSE NoConfig
        ELSE IF ~pools.ok THEN NoConfig
        ELSE IF p \in pools.platforms
             THEN IF pool.ok THEN buildDynamicHostPool(pool, data) ELSE NoConfig
        ELSE HostPoolOf(data, p)
=============================================================================
