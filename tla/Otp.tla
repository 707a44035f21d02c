-------------------------------- MODULE Otp ---------------------------------
(***************************************************************************)
(* The OTP server (cmd/otp/otp.go) and its clients.                        *)
(*                                                                         *)
(* A provision TaskRun posts its SSH key to /store-key, gets a password    *)
(* for it and puts the password in the secret of the user TaskRun; whoever *)
(* reads the secret posts the password to /otp and gets the key.  Each     *)
(* request is handled by a goroutine of its own; the handlers share        *)
(* globalMap under one mutex, which they hold while they answer.           *)
(***************************************************************************)
EXTENDS Integers, FiniteSets

CONSTANTS
    Keys,          \* SSH keys, one per provision TaskRun
    Consumers,     \* requests to /otp
    Tokens,        \* strings GenerateRandomString returns, each at most once
    None,          \* no token, key or request
    MaxAttempts    \* attempts of curl_otp_store_key

\* Requests to /store-key: an attempt at storing a key.  The server may still
\* be at one when the client has given it up and made another.
Stores == Keys \X (1..MaxAttempts)
Requests == Stores \cup Consumers

ASSUME OtpAssumption ==
    /\ MaxAttempts \in Nat \ {0}
    /\ Consumers \cap Stores = {}
    /\ None \notin Keys \cup Tokens \cup Requests

VARIABLES
    globalMap,  \* globalMap[t]: the key stored for password t
    mutex,      \* the request whose handler holds the mutex
    req,        \* req[r]: the handler of request r
    client,     \* client[k]: curl_otp_store_key for key k
    used,       \* passwords generated so far
    old         \* passwords generated before the last restart

vars == <<globalMap, mutex, req, client, used, old>>

NoRequest == [pc |-> "none", token |-> None, key |-> None]

\* A handler: the password and the key it has read or made so far.
Handler == [pc : {"none", "waiting", "locked", "delete", "write", "ok",
                  "error"},
            token : Tokens \cup {None},
            key : Keys \cup {None}]
\* A client: the attempts it has made, and the password it got.
Client == [pc : {"ready", "waiting", "stored", "failed"},
           attempt : 0..MaxAttempts,
           token : Tokens \cup {None}]

TypeOK ==
    /\ globalMap \in [Tokens -> Keys \cup {None}]
    /\ mutex \in Requests \cup {None}
    /\ req \in [Requests -> Handler]
    /\ client \in [Keys -> Client]
    /\ used \subseteq Tokens /\ old \subseteq used

Init ==
    /\ globalMap = [t \in Tokens |-> None]
    /\ mutex = None
    /\ req = [r \in Requests |-> NoRequest]
    /\ client = [k \in Keys |-> [pc |-> "ready", attempt |-> 0, token |-> None]]
    /\ used = {}
    /\ old = {}

-----------------------------------------------------------------------------
(***************************************************************************)
(* Clients.                                                                *)
(***************************************************************************)

\* curl_otp_store_key posts the key.
Post(k) ==
    LET n == client[k].attempt + 1 IN
    /\ client[k].pc = "ready"
    /\ client' = [client EXCEPT ![k].pc = "waiting", ![k].attempt = n]
    /\ req' = [req EXCEPT ![<<k, n>>] = [NoRequest EXCEPT !.pc = "waiting",
                                                          !.key = k]]
    /\ UNCHANGED <<globalMap, mutex, used, old>>

\* It gets the password, which goes into the secret.
Stored(k) ==
    LET r == <<k, client[k].attempt>> IN
    /\ client[k].pc = "waiting" /\ req[r].pc = "ok"
    /\ client' = [client EXCEPT ![k].pc = "stored", ![k].token = req[r].token]
    /\ UNCHANGED <<globalMap, mutex, req, used, old>>

\* curl fails: the server answered with an error, or no answer came in time,
\* whatever has become of the request.  It is tried again if attempts are
\* left and the error is a transient one.
AttemptFails(k) ==
    /\ client[k].pc = "waiting"
    /\ \E pc \in {"failed"} \cup
                 (IF client[k].attempt < MaxAttempts THEN {"ready"} ELSE {}) :
          client' = [client EXCEPT ![k].pc = pc]
    /\ UNCHANGED <<globalMap, mutex, req, used, old>>

\* A reader of the secret posts the password of k (external).
Fetch(c, k) ==
    /\ req[c].pc = "none" /\ client[k].pc = "stored"
    /\ req' = [req EXCEPT ![c] = [NoRequest EXCEPT !.pc = "waiting",
                                      !.token = client[k].token]]
    /\ UNCHANGED <<globalMap, mutex, client, used, old>>

-----------------------------------------------------------------------------
(***************************************************************************)
(* Handlers: storekey.ServeHTTP and otp.ServeHTTP.                         *)
(***************************************************************************)

\* The body cannot be read.
ReadFails(r) ==
    /\ req[r].pc = "waiting"
    /\ req' = [req EXCEPT ![r].pc = "error"]
    /\ UNCHANGED <<globalMap, mutex, client, used, old>>

\* Mutant of Lock: mutual exclusion is missing.
LockMutant(r) ==
    /\ req[r].pc = "waiting"
    /\ mutex' = r
    /\ req' = [req EXCEPT ![r].pc = "locked"]
    /\ UNCHANGED <<globalMap, client, used, old>>

\* The body has been read.
Lock(r) ==
    /\ req[r].pc = "waiting"
    /\ mutex = None
    /\ mutex' = r
    /\ req' = [req EXCEPT ![r].pc = "locked"]
    /\ UNCHANGED <<globalMap, client, used, old>>

\* The handler returns, and the deferred Unlock runs.
Return(r, pc) ==
    /\ req' = [req EXCEPT ![r].pc = pc]
    /\ mutex' = None

\* Mutant of GenerateFails: an early return without Unlock.
GenerateFailsMutant(r) ==
    /\ r \in Stores /\ req[r].pc = "locked"
    /\ req' = [req EXCEPT ![r].pc = "error"]
    /\ UNCHANGED <<globalMap, mutex, client, used, old>>

\* storekey: the random generator fails.
GenerateFails(r) ==
    /\ r \in Stores /\ req[r].pc = "locked"
    /\ Return(r, "error")
    /\ UNCHANGED <<globalMap, client, used, old>>

\* Mutant of Store: a password is only compared with those in the map.
StoreMutant(r, t) ==
    /\ r \in Stores /\ req[r].pc = "locked"
    /\ globalMap[t] = None
    /\ used' = used \cup {t}
    /\ globalMap' = [globalMap EXCEPT ![t] = req[r].key]
    /\ req' = [req EXCEPT ![r].pc = "write", ![r].token = t]
    /\ UNCHANGED <<mutex, client, old>>

\* storekey: the key is stored for a new password.
Store(r, t) ==
    /\ r \in Stores /\ req[r].pc = "locked"
    /\ t \notin used
    /\ used' = used \cup {t}
    /\ globalMap' = [globalMap EXCEPT ![t] = req[r].key]
    /\ req' = [req EXCEPT ![r].pc = "write", ![r].token = t]
    /\ UNCHANGED <<mutex, client, old>>

\* otp: the key of the password is looked up.
Load(r) ==
    /\ r \in Consumers /\ req[r].pc = "locked"
    /\ req' = [req EXCEPT ![r].pc = "delete",
                          ![r].key = globalMap[req[r].token]]
    /\ UNCHANGED <<globalMap, mutex, client, used, old>>

\* Mutant of Delete: the password stays in the map.
DeleteMutant(r) ==
    /\ req[r].pc = "delete"
    /\ IF req[r].key = None
       THEN Return(r, "error")
       ELSE req' = [req EXCEPT ![r].pc = "write"] /\ UNCHANGED mutex
    /\ UNCHANGED <<globalMap, client, used, old>>

\* otp: the password is deleted; without a key the answer is an error.
Delete(r) ==
    /\ req[r].pc = "delete"
    /\ globalMap' = [globalMap EXCEPT ![req[r].token] = None]
    /\ IF req[r].key = None
       THEN Return(r, "error")
       ELSE req' = [req EXCEPT ![r].pc = "write"] /\ UNCHANGED mutex
    /\ UNCHANGED <<client, used, old>>

\* Mutant of Write: a stored key is deleted whether or not the write failed.
WriteMutant(r) ==
    /\ req[r].pc = "write"
    /\ Return(r, "ok")
    /\ globalMap' = [globalMap EXCEPT ![req[r].token] = None]
    /\ UNCHANGED <<client, used, old>>

\* The password, or the key, is written to the client.
Write(r) ==
    /\ req[r].pc = "write"
    /\ Return(r, "ok")
    /\ UNCHANGED <<globalMap, client, used, old>>

\* It cannot be written: a stored key is deleted again.
WriteFails(r) ==
    /\ req[r].pc = "write"
    /\ Return(r, "error")
    /\ globalMap' = IF r \in Stores
                    THEN [globalMap EXCEPT ![req[r].token] = None]
                    ELSE globalMap
    /\ UNCHANGED <<client, used, old>>

\* The server restarts: the map is lost, and the requests in progress fail.
Restart ==
    /\ globalMap' = [t \in Tokens |-> None]
    /\ mutex' = None
    /\ req' = [r \in Requests |->
                  IF req[r].pc \in {"waiting", "locked", "write"}
                  THEN [req[r] EXCEPT !.pc = "error"]
                  ELSE IF req[r].pc = "delete"
                  THEN [req[r] EXCEPT !.pc = "error", !.key = None]
                  ELSE req[r]]
    /\ old' = used
    /\ UNCHANGED <<client, used>>

-----------------------------------------------------------------------------

\* A handler that has read the body goes on.
Serve(r) == \/ Lock(r) \/ GenerateFails(r) \/ (\E t \in Tokens : Store(r, t))
            \/ Load(r) \/ Delete(r) \/ Write(r) \/ WriteFails(r)

Next ==
    \/ \E k \in Keys : Post(k) \/ Stored(k) \/ AttemptFails(k)
    \/ \E c \in Consumers, k \in Keys : Fetch(c, k)
    \/ \E r \in Requests : ReadFails(r) \/ Serve(r)
    \/ Restart

Spec == Init /\ [][Next]_vars

\* A handler goes on, and gets the mutex when it is free again and again (a
\* sync.Mutex hands itself to a waiter that has starved).
FairSpec == Spec /\ \A r \in Requests : SF_vars(Serve(r))

-----------------------------------------------------------------------------
(***************************************************************************)
(* Properties.                                                             *)
(***************************************************************************)

\* No SSH key is handed out to two requests, even if several clients post
\* its password at the same time and although a retried store-key stores the
\* key under a second password.
KeyHandedOnce ==
    \A c, d \in Consumers :
        req[c].key # None /\ req[c].key = req[d].key => c = d

\* A password that a client was told of stands for its key until the key is
\* handed out or the server restarts: nothing that goes wrong with another
\* attempt, or with another request, loses it.
PublishedKept ==
    \A k \in Keys :
        LET t == client[k].token IN
        t \notin old \cup {None}
        => \/ globalMap[t] = k
           \/ \E c \in Consumers : req[c].token = t /\ req[c].key = k

\* The inductive invariant behind the two.  Only the holder of the mutex is
\* between Lock and Unlock.
MutualExclusion ==
    \A r \in Requests :
        req[r].pc \in {"locked", "delete", "write"} => mutex = r

\* A password belongs to the attempt that generated it, and stands for that
\* attempt's key or nothing; while the client may still be told of it, or has
\* been, its key is in the map or was handed out (unless it is old).
StoresOK ==
    /\ \A t \in Tokens : globalMap[t] # None => t \in used
    /\ \A s \in Stores :
          /\ req[s].pc # "none" => req[s].key = s[1]
          /\ req[s].pc \in {"none", "waiting", "locked"} => req[s].token = None
          /\ req[s].pc \in {"write", "ok"} => req[s].token # None
          /\ req[s].pc # "delete"
          /\ req[s].token # None =>
                /\ req[s].token \in used
                /\ globalMap[req[s].token] \in {None, s[1]}
          /\ req[s].pc \in {"write", "ok"} /\ req[s].token \notin old =>
                \/ globalMap[req[s].token] = s[1]
                \/ \E c \in Consumers :
                      req[c].token = req[s].token /\ req[c].key = s[1]
    /\ \A s, u \in Stores :
          req[s].token # None /\ req[s].token = req[u].token => s = u

\* A client knows the password of its last attempt, or none.
ClientsOK ==
    \A k \in Keys :
        /\ client[k].pc = "ready" => client[k].attempt < MaxAttempts
        /\ client[k].pc # "ready" => client[k].attempt > 0
        /\ (client[k].pc = "stored") = (client[k].token # None)
        /\ \A n \in 1..MaxAttempts :
              n > client[k].attempt => req[<<k, n>>].pc = "none"
        /\ client[k].pc = "stored" =>
              /\ req[<<k, client[k].attempt>>].pc = "ok"
              /\ req[<<k, client[k].attempt>>].token = client[k].token

\* A request to /otp has the password of some client and that client's key
\* or none; once it has loaded the key, the key is its own.
ConsumersOK ==
    /\ \A c \in Consumers :
          /\ req[c].pc # "none" => req[c].token # None
          /\ req[c].pc = "none" => req[c].token = None
          /\ req[c].token # None =>
                \E k \in Keys : client[k].token = req[c].token
                                /\ req[c].key \in {None, k}
          /\ req[c].pc \in {"none", "waiting", "locked"} => req[c].key = None
          /\ req[c].pc = "delete" => globalMap[req[c].token] = req[c].key
          /\ req[c].pc # "delete" /\ req[c].key # None =>
                globalMap[req[c].token] = None
    /\ \A c, d \in Consumers :
          req[c].key # None /\ req[d].key # None
          /\ req[c].token = req[d].token => c = d

OtpInv == TypeOK /\ MutualExclusion /\ StoresOK /\ ClientsOK /\ ConsumersOK

\* Every request is answered.
Answered ==
    \A r \in Requests : req[r].pc = "waiting" ~> req[r].pc \in {"ok", "error"}

\* The server implements OneTimeStore: passwords become used, and their keys
\* taken or lost, once.
Taken(t) == \E c \in Consumers : req[c].token = t /\ req[c].key # None
Status == [t \in Tokens |-> IF t \notin used THEN "unused"
                            ELSE IF globalMap[t] # None THEN "stored"
                            ELSE IF Taken(t) THEN "taken" ELSE "lost"]
Abstract == INSTANCE OneTimeStore WITH status <- Status
OneTime == Abstract!Spec
=============================================================================
