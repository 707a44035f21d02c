----------------------------- MODULE OtpProofs ------------------------------
(***************************************************************************)
(* Proofs about Otp, for any number of keys, requests and passwords.       *)
(***************************************************************************)
EXTENDS Otp, TLAPS

\* The two kinds of requests.
LEMMA RequestKinds ==
    /\ \A r : r \in Requests <=> r \in Stores \/ r \in Consumers
    /\ \A r : ~(r \in Stores /\ r \in Consumers)
    /\ \A s \in Stores : s[1] \in Keys
    /\ None \notin Keys /\ None \notin Tokens /\ None \notin Requests
BY OtpAssumption DEF Requests, Stores

\* The invariant holds at the start.
LEMMA InitInv == Init => OtpInv
BY OtpAssumption
   DEF Init, OtpInv, TypeOK, MutualExclusion, StoresOK, ClientsOK, ConsumersOK,
       NoRequest, Handler, Client, Requests, Stores

\* The request of a client's last attempt, and that of its next.
LEMMA LastAttempt ==
    ASSUME OtpInv, NEW k \in Keys
    PROVE  /\ client[k].attempt \in 0..MaxAttempts
           /\ client[k].pc # "ready" => <<k, client[k].attempt>> \in Stores
           /\ client[k].pc = "ready" =>
                 /\ client[k].attempt + 1 \in 0..MaxAttempts
                 /\ <<k, client[k].attempt + 1>> \in Stores
BY OtpAssumption DEF OtpInv, TypeOK, Client, ClientsOK, Stores

(***************************************************************************)
(* Every action keeps the invariant.                                       *)
(***************************************************************************)

\* A new attempt of a client.
LEMMA PostOK ==
    ASSUME OtpInv, NEW k \in Keys, Post(k)
    PROVE  OtpInv'
<1> USE RequestKinds DEF OtpInv
<1>1. TypeOK'
  BY LastAttempt DEF TypeOK, Post, NoRequest, Handler, Client
<1>2. MutualExclusion'
  BY LastAttempt DEF TypeOK, MutualExclusion, Post, NoRequest, Handler, Client
<1>3. StoresOK'
  BY LastAttempt, SMTT(30) DEF TypeOK, MutualExclusion, StoresOK, ClientsOK,
      ConsumersOK, Post, NoRequest, Handler, Client
<1>4. ClientsOK'
  BY LastAttempt, OtpAssumption DEF TypeOK, MutualExclusion, StoresOK,
      ClientsOK, Post, NoRequest, Stores, Handler, Client
<1>5. ConsumersOK'
  BY LastAttempt, SMTT(30) DEF TypeOK, MutualExclusion, StoresOK, ClientsOK,
      ConsumersOK, Post, NoRequest, Handler, Client
<1>6. QED
  BY <1>1, <1>2, <1>3, <1>4, <1>5

\* A client gets its password.
LEMMA StoredOK ==
    ASSUME OtpInv, NEW k \in Keys, Stored(k)
    PROVE  OtpInv'
<1> USE RequestKinds DEF OtpInv
<1>1. TypeOK'
  <2>1. req[<<k, client[k].attempt>>].token \in Tokens \cup {None}
    BY LastAttempt DEF TypeOK, Handler, Stored
  <2>2. \A t \in Tokens \cup {None} :
           [client EXCEPT ![k].pc = "stored", ![k].token = t]
           \in [Keys -> Client]
    BY DEF TypeOK, Client
  <2>3. client' \in [Keys -> Client]
    BY <2>1, <2>2 DEF Stored
  <2>4. QED
    BY <2>3 DEF TypeOK, Stored
<1>2. MutualExclusion'
  BY LastAttempt DEF TypeOK, MutualExclusion, Stored, Handler, Client
<1>3. StoresOK'
  BY LastAttempt, SMTT(30) DEF TypeOK, MutualExclusion, StoresOK, ClientsOK,
      ConsumersOK, Stored, Handler, Client
<1>4. ClientsOK'
  BY LastAttempt, OtpAssumption DEF TypeOK, MutualExclusion, StoresOK,
      ClientsOK, Stored, Stores, Handler, Client
<1>5. ConsumersOK'
  BY LastAttempt, SMTT(30) DEF TypeOK, MutualExclusion, StoresOK, ClientsOK,
      ConsumersOK, Stored, Handler, Client
<1>6. QED
  BY <1>1, <1>2, <1>3, <1>4, <1>5

\* An attempt fails.
LEMMA AttemptFailsOK ==
    ASSUME OtpInv, NEW k \in Keys, AttemptFails(k)
    PROVE  OtpInv'
<1> USE RequestKinds DEF OtpInv
<1>1. TypeOK'
  BY LastAttempt DEF TypeOK, AttemptFails, Handler, Client
<1>2. MutualExclusion'
  BY LastAttempt DEF TypeOK, MutualExclusion, AttemptFails, Handler, Client
<1>3. StoresOK'
  BY LastAttempt, SMTT(30) DEF TypeOK, MutualExclusion, StoresOK, ClientsOK,
      ConsumersOK, AttemptFails, Handler, Client
<1>4. ClientsOK'
  BY LastAttempt, OtpAssumption DEF TypeOK, MutualExclusion, StoresOK,
      ClientsOK, AttemptFails, Stores, Handler, Client
<1>5. ConsumersOK'
  BY LastAttempt, SMTT(30) DEF TypeOK, MutualExclusion, StoresOK, ClientsOK,
      ConsumersOK, AttemptFails, Handler, Client
<1>6. QED
  BY <1>1, <1>2, <1>3, <1>4, <1>5

\* A new request to /otp.
LEMMA FetchOK ==
    ASSUME OtpInv, NEW c \in Consumers, NEW k \in Keys, Fetch(c, k)
    PROVE  OtpInv'
<1> USE RequestKinds DEF OtpInv
<1>1. TypeOK'
  BY LastAttempt DEF TypeOK, Fetch, NoRequest, Handler, Client
<1>2. MutualExclusion'
  BY LastAttempt DEF TypeOK, MutualExclusion, Fetch, NoRequest, Handler,
      Client
<1>3. StoresOK'
  BY LastAttempt, SMTT(30) DEF TypeOK, MutualExclusion, StoresOK, ClientsOK,
      ConsumersOK, Fetch, NoRequest, Handler, Client
<1>4. ClientsOK'
  BY LastAttempt, OtpAssumption DEF TypeOK, MutualExclusion, StoresOK,
      ClientsOK, Fetch, NoRequest, Stores, Handler, Client
<1>5. ConsumersOK'
  <2>1. client[k].token \in Tokens /\ client[k].token # None
    BY DEF TypeOK, Client, ClientsOK, Fetch
  <2>2. /\ req'[c] = [pc |-> "waiting", token |-> client[k].token, key |-> None]
        /\ \A d \in Consumers : d # c => req'[d] = req[d]
        /\ UNCHANGED <<globalMap, client>>
    BY DEF TypeOK, Fetch, NoRequest
  <2>3. \A d \in Consumers : req'[d].token # None =>
           \E j \in Keys : client[j].token = req'[d].token
                           /\ req'[d].key \in {None, j}
    BY <2>2 DEF ConsumersOK
  <2>4. QED
    BY <2>1, <2>2, <2>3 DEF ConsumersOK
<1>6. QED
  BY <1>1, <1>2, <1>3, <1>4, <1>5

\* The body of a request cannot be read.
LEMMA ReadFailsOK ==
    ASSUME OtpInv, NEW r \in Requests, ReadFails(r)
    PROVE  OtpInv'
<1> USE RequestKinds DEF OtpInv
<1>1. TypeOK'
  BY DEF TypeOK, ReadFails, Handler, Client
<1>2. MutualExclusion'
  BY DEF TypeOK, MutualExclusion, ReadFails, Handler, Client
<1>3. StoresOK'
  BY SMTT(30) DEF TypeOK, MutualExclusion, StoresOK, ClientsOK, ConsumersOK,
      ReadFails, Handler, Client
<1>4. ClientsOK'
  BY LastAttempt, OtpAssumption DEF TypeOK, MutualExclusion, StoresOK,
      ClientsOK, ReadFails, Stores, Handler, Client
<1>5. ConsumersOK'
  BY SMTT(30) DEF TypeOK, MutualExclusion, StoresOK, ClientsOK, ConsumersOK,
      ReadFails, Handler, Client
<1>6. QED
  BY <1>1, <1>2, <1>3, <1>4, <1>5

\* A handler gets the mutex.
LEMMA LockOK ==
    ASSUME OtpInv, NEW r \in Requests, Lock(r)
    PROVE  OtpInv'
<1> USE RequestKinds DEF OtpInv
<1>1. TypeOK'
  BY DEF TypeOK, Lock, Handler, Client
<1>2. MutualExclusion'
  BY DEF TypeOK, MutualExclusion, Lock, Handler, Client
<1>3. StoresOK'
  BY SMTT(30) DEF TypeOK, MutualExclusion, StoresOK, ClientsOK, ConsumersOK,
      Lock, Handler, Client
<1>4. ClientsOK'
  BY LastAttempt, OtpAssumption DEF TypeOK, MutualExclusion, StoresOK,
      ClientsOK, Lock, Stores, Handler, Client
<1>5. ConsumersOK'
  BY SMTT(30) DEF TypeOK, MutualExclusion, StoresOK, ClientsOK, ConsumersOK,
      Lock, Handler, Client
<1>6. QED
  BY <1>1, <1>2, <1>3, <1>4, <1>5

\* No password can be generated.
LEMMA GenerateFailsOK ==
    ASSUME OtpInv, NEW r \in Requests, GenerateFails(r)
    PROVE  OtpInv'
<1> USE RequestKinds DEF OtpInv
<1>1. TypeOK'
  BY DEF TypeOK, GenerateFails, Return, Handler, Client
<1>2. MutualExclusion'
  BY DEF TypeOK, MutualExclusion, GenerateFails, Return, Handler, Client
<1>3. StoresOK'
  BY SMTT(30) DEF TypeOK, MutualExclusion, StoresOK, ClientsOK, ConsumersOK,
      GenerateFails, Return, Handler, Client
<1>4. ClientsOK'
  BY LastAttempt, OtpAssumption DEF TypeOK, MutualExclusion, StoresOK,
      ClientsOK, GenerateFails, Return, Stores, Handler, Client
<1>5. ConsumersOK'
  BY SMTT(30) DEF TypeOK, MutualExclusion, StoresOK, ClientsOK, ConsumersOK,
      GenerateFails, Return, Handler, Client
<1>6. QED
  BY <1>1, <1>2, <1>3, <1>4, <1>5

\* A key is stored under a new password.
LEMMA StoreOK ==
    ASSUME OtpInv, NEW r \in Requests, NEW t \in Tokens, Store(r, t)
    PROVE  OtpInv'
<1> USE RequestKinds DEF OtpInv
<1>1. TypeOK'
  BY DEF TypeOK, Handler, Store
<1>2. MutualExclusion'
  BY DEF TypeOK, MutualExclusion, Store, Handler, Client
<1>3. StoresOK'
  BY SMTT(30) DEF TypeOK, MutualExclusion, StoresOK, ClientsOK, ConsumersOK,
      Store, Handler, Client
<1>4. ClientsOK'
  BY LastAttempt, OtpAssumption DEF TypeOK, MutualExclusion, StoresOK,
      ClientsOK, Store, Stores, Handler, Client
<1>5. ConsumersOK'
  BY SMTT(30) DEF TypeOK, MutualExclusion, StoresOK, ClientsOK, ConsumersOK,
      Store, Handler, Client
<1>6. QED
  BY <1>1, <1>2, <1>3, <1>4, <1>5

\* A key is looked up.
LEMMA LoadOK ==
    ASSUME OtpInv, NEW r \in Requests, Load(r)
    PROVE  OtpInv'
<1> USE RequestKinds DEF OtpInv
<1>1. TypeOK'
  <2>1. req[r].token \in Tokens
    BY DEF TypeOK, Handler, ConsumersOK, Load
  <2>2. QED
    BY <2>1 DEF TypeOK, Handler, Load
<1>2. MutualExclusion'
  BY DEF TypeOK, MutualExclusion, Load, Handler, Client
<1>3. StoresOK'
  BY SMTT(30) DEF TypeOK, MutualExclusion, StoresOK, ClientsOK, ConsumersOK,
      Load, Handler, Client
<1>4. ClientsOK'
  BY LastAttempt, OtpAssumption DEF TypeOK, MutualExclusion, StoresOK,
      ClientsOK, Load, Stores, Handler, Client
<1>5. ConsumersOK'
  BY SMTT(30) DEF TypeOK, MutualExclusion, StoresOK, ClientsOK, ConsumersOK,
      Load, Handler, Client
<1>6. QED
  BY <1>1, <1>2, <1>3, <1>4, <1>5

\* A password is deleted.
LEMMA DeleteOK ==
    ASSUME OtpInv, NEW r \in Requests, Delete(r)
    PROVE  OtpInv'
<1> USE RequestKinds DEF OtpInv
<1>1. TypeOK'
  <2>1. globalMap' \in [Tokens -> Keys \cup {None}]
    BY DEF TypeOK, Delete
  <2>2. \A pc \in {"write", "error"} :
           [req EXCEPT ![r].pc = pc] \in [Requests -> Handler]
    BY DEF TypeOK, Handler
  <2>3. req' \in [Requests -> Handler] /\ mutex' \in Requests \cup {None}
    BY <2>2 DEF TypeOK, Delete, Return
  <2>4. QED
    BY <2>1, <2>3 DEF TypeOK, Delete
<1>2. MutualExclusion'
  BY DEF TypeOK, MutualExclusion, StoresOK, Delete, Return, Handler, Client
<1>3. StoresOK'
  <2>1. r \in Consumers
    BY DEF StoresOK, Delete
  <2>2. /\ \A q \in Requests : /\ req'[q].token = req[q].token
                               /\ req'[q].key = req[q].key
                               /\ q # r => req'[q] = req[q]
        /\ UNCHANGED <<client, used, old>>
    BY DEF TypeOK, Handler, Delete, Return
  <2>3. /\ globalMap' = [globalMap EXCEPT ![req[r].token] = None]
        /\ globalMap[req[r].token] = req[r].key
    BY <2>1 DEF ConsumersOK, Delete
  <2>4. QED
    BY <2>1, <2>2, <2>3 DEF TypeOK, Handler, StoresOK
<1>4. ClientsOK'
  <2>1. \A s \in Stores : req'[s] = req[s]
    BY DEF TypeOK, StoresOK, Delete, Return
  <2>2. \A k \in Keys, n \in 1..MaxAttempts : <<k, n>> \in Stores
    BY DEF Stores
  <2>3. UNCHANGED client
    BY DEF Delete
  <2>4. \A k \in Keys : client[k].pc = "stored" =>
                           <<k, client[k].attempt>> \in Stores
    BY LastAttempt
  <2>5. QED
    BY <2>1, <2>2, <2>3, <2>4 DEF ClientsOK
<1>5. ConsumersOK'
  BY SMTT(30) DEF TypeOK, MutualExclusion, StoresOK, ClientsOK, ConsumersOK,
      Delete, Return, Handler, Client
<1>6. QED
  BY <1>1, <1>2, <1>3, <1>4, <1>5

\* An answer is written.
LEMMA WriteOK ==
    ASSUME OtpInv, NEW r \in Requests, Write(r)
    PROVE  OtpInv'
<1> USE RequestKinds DEF OtpInv
<1>1. TypeOK'
  BY DEF TypeOK, Write, Return, Handler, Client
<1>2. MutualExclusion'
  BY DEF TypeOK, MutualExclusion, Write, Return, Handler, Client
<1>3. StoresOK'
  BY SMTT(30) DEF TypeOK, MutualExclusion, StoresOK, ClientsOK, ConsumersOK,
      Write, Return, Handler, Client
<1>4. ClientsOK'
  BY LastAttempt, OtpAssumption DEF TypeOK, MutualExclusion, StoresOK,
      ClientsOK, Write, Return, Stores, Handler, Client
<1>5. ConsumersOK'
  BY SMTT(30) DEF TypeOK, MutualExclusion, StoresOK, ClientsOK, ConsumersOK,
      Write, Return, Handler, Client
<1>6. QED
  BY <1>1, <1>2, <1>3, <1>4, <1>5

\* An answer cannot be written.
LEMMA WriteFailsOK ==
    ASSUME OtpInv, NEW r \in Requests, WriteFails(r)
    PROVE  OtpInv'
<1> USE RequestKinds DEF OtpInv
<1>1. TypeOK'
  <2>1. CASE r \in Stores
    BY <2>1 DEF TypeOK, Handler, WriteFails, Return
  <2>2. CASE r \notin Stores
    BY <2>2 DEF TypeOK, Handler, WriteFails, Return
  <2>3. QED
    BY <2>1, <2>2
<1>2. MutualExclusion'
  BY DEF TypeOK, MutualExclusion, WriteFails, Return, Handler, Client
<1>3. StoresOK'
  <2>1. /\ \A q \in Requests : /\ req'[q].token = req[q].token
                               /\ req'[q].key = req[q].key
                               /\ q # r => req'[q] = req[q]
        /\ req'[r].pc = "error"
        /\ UNCHANGED <<client, used, old>>
    BY DEF TypeOK, Handler, WriteFails, Return
  <2>2. \A t \in Tokens : \/ globalMap'[t] = globalMap[t]
                          \/ r \in Stores /\ t = req[r].token /\ globalMap'[t] = None
    BY DEF TypeOK, WriteFails
  <2>3. \A s \in Stores : req[s].token # None => req[s].token \in Tokens
    BY DEF TypeOK, Handler
  <2>4. \A s \in Stores : s # r /\ req[s].token # None
                          => globalMap'[req[s].token] = globalMap[req[s].token]
    BY <2>2, <2>3 DEF StoresOK
  <2>5. \A s \in Stores : s # r => req'[s] = req[s]
    BY <2>1
  <2>6. \A t \in Tokens : globalMap'[t] # None => t \in used'
    BY <2>1, <2>2 DEF StoresOK
  <2>7. r \in Stores => globalMap'[req[r].token] = None
    BY DEF TypeOK, Handler, StoresOK, WriteFails
  <2>8. ASSUME NEW s \in Stores
        PROVE  /\ req'[s].pc # "none" => req'[s].key = s[1]
               /\ req'[s].pc \in {"none", "waiting", "locked"} =>
                     req'[s].token = None
               /\ req'[s].pc \in {"write", "ok"} => req'[s].token # None
               /\ req'[s].pc # "delete"
               /\ req'[s].token # None =>
                     /\ req'[s].token \in used'
                     /\ globalMap'[req'[s].token] \in {None, s[1]}
               /\ req'[s].pc \in {"write", "ok"} /\ req'[s].token \notin old' =>
                     \/ globalMap'[req'[s].token] = s[1]
                     \/ \E c \in Consumers :
                           /\ req'[c].token = req'[s].token
                           /\ req'[c].key = s[1]
    <3>1. CASE s = r
      BY <2>1, <2>7, <3>1 DEF StoresOK, WriteFails
    <3>2. CASE s # r
      BY <2>1, <2>4, <2>5, <3>2 DEF StoresOK
    <3>3. QED
      BY <3>1, <3>2
  <2>9. \A s, u \in Stores :
           req'[s].token # None /\ req'[s].token = req'[u].token => s = u
    BY <2>1 DEF StoresOK
  <2>10. QED
    BY <2>6, <2>8, <2>9 DEF StoresOK
<1>4. ClientsOK'
  BY LastAttempt, OtpAssumption DEF TypeOK, MutualExclusion, StoresOK,
      ClientsOK, WriteFails, Return, Stores, Handler, Client
<1>5. ConsumersOK'
  BY SMTT(30) DEF TypeOK, MutualExclusion, StoresOK, ClientsOK, ConsumersOK,
      WriteFails, Return, Handler, Client
<1>6. QED
  BY <1>1, <1>2, <1>3, <1>4, <1>5

\* The server restarts.
LEMMA RestartOK ==
    ASSUME OtpInv, Restart
    PROVE  OtpInv'
<1> USE RequestKinds DEF OtpInv
<1>1. ASSUME NEW r \in Requests
      PROVE  /\ req'[r] \in Handler
             /\ req'[r].token = req[r].token
             /\ req[r].pc = "delete" => req'[r].key = None
             /\ req[r].pc # "delete" => req'[r].key = req[r].key
             /\ req[r].pc \in {"none", "ok", "error"} => req'[r].pc = req[r].pc
             /\ req[r].pc \notin {"none", "ok", "error"} => req'[r].pc = "error"
  <2>1. req[r] \in Handler
    BY DEF TypeOK
  <2>2. CASE req[r].pc \in {"waiting", "locked", "write"}
    <3>1. req'[r] = [req[r] EXCEPT !.pc = "error"]
      BY <2>2 DEF Restart
    <3>2. QED
      BY <2>1, <2>2, <3>1 DEF Handler
  <2>3. CASE req[r].pc = "delete"
    <3>1. req'[r] = [req[r] EXCEPT !.pc = "error", !.key = None]
      BY <2>3 DEF Restart
    <3>2. QED
      BY <2>1, <2>3, <3>1 DEF Handler
  <2>4. CASE req[r].pc \in {"none", "ok", "error"}
    <3>1. req'[r] = req[r]
      BY <2>4 DEF Restart
    <3>2. QED
      BY <2>1, <2>4, <3>1 DEF Handler
  <2>5. QED
    BY <2>1, <2>2, <2>3, <2>4 DEF Handler
<1>2. /\ globalMap' = [t \in Tokens |-> None]
      /\ mutex' = None
      /\ old' = used /\ UNCHANGED <<client, used>>
      /\ req' = [r \in Requests |-> req'[r]]
  BY DEF Restart
<1>3. TypeOK'
  BY <1>1, <1>2 DEF TypeOK
<1>4. MutualExclusion'
  <2>1. \A r \in Requests : req'[r].pc \in {"none", "ok", "error"}
    BY <1>1
  <2>2. QED
    BY <2>1 DEF MutualExclusion
<1>5. StoresOK'
  BY <1>1, <1>2 DEF StoresOK, TypeOK, Handler
<1>6. ClientsOK'
  <2>1. \A k \in Keys, n \in 1..MaxAttempts : <<k, n>> \in Stores
    BY DEF Stores
  <2>2. \A s \in Stores : /\ req[s].pc = "none" => req'[s].pc = "none"
                          /\ req[s].pc = "ok" => req'[s].pc = "ok"
                          /\ req'[s].token = req[s].token
    BY <1>1
  <2>3. \A k \in Keys : client[k].pc = "stored" =>
                           <<k, client[k].attempt>> \in Stores
    BY LastAttempt
  <2>4. QED
    BY <1>2, <2>1, <2>2, <2>3 DEF ClientsOK
<1>7. ConsumersOK'
  <2>1. \A c \in Consumers : req[c].token # None => req[c].token \in Tokens
    BY DEF TypeOK, Handler
  <2>2. QED
    BY <1>1, <1>2, <2>1 DEF ConsumersOK
<1>8. QED
  BY <1>3, <1>4, <1>5, <1>6, <1>7

(***************************************************************************)
(* Theorems.                                                               *)
(***************************************************************************)

\* Every step keeps the invariant.
LEMMA NextOK == OtpInv /\ [Next]_vars => OtpInv'
<1> SUFFICES ASSUME OtpInv, [Next]_vars PROVE OtpInv'
  OBVIOUS
<1>1. ASSUME NEW k \in Keys, Post(k) \/ Stored(k) \/ AttemptFails(k)
      PROVE  OtpInv'
  BY <1>1, PostOK, StoredOK, AttemptFailsOK
<1>2. ASSUME NEW c \in Consumers, NEW k \in Keys, Fetch(c, k)
      PROVE  OtpInv'
  BY <1>2, FetchOK
<1>3. ASSUME NEW r \in Requests, ReadFails(r) \/ Serve(r)
      PROVE  OtpInv'
  BY <1>3, ReadFailsOK, LockOK, GenerateFailsOK, StoreOK, LoadOK, DeleteOK,
     WriteOK, WriteFailsOK DEF Serve
<1>4. CASE Restart
  BY <1>4, RestartOK
<1>5. CASE UNCHANGED vars
  BY <1>5 DEF vars, OtpInv, TypeOK, MutualExclusion, StoresOK, ClientsOK,
              ConsumersOK
<1>6. QED
  BY <1>1, <1>2, <1>3, <1>4, <1>5 DEF Next

\* The server and its clients keep their invariant: the mutex excludes, and
\* passwords, keys, clients and requests to /otp agree with one another.
THEOREM Invariance == Spec => []OtpInv
BY InitInv, NextOK, PTL DEF Spec

\* Every value has its type; in particular no client makes more attempts
\* than curl_otp_store_key allows.
THEOREM OtpTyping == Spec => []TypeOK
<1>1. OtpInv => TypeOK
  BY DEF OtpInv
<1>2. QED
  BY <1>1, Invariance, PTL

\* No key is handed out twice by otp.ServeHTTP, whatever the requests do and
\* however often its client has stored it.
THEOREM HandedOnce == Spec => []KeyHandedOnce
<1>1. OtpInv => KeyHandedOnce
  <2> SUFFICES ASSUME OtpInv, NEW c \in Consumers, NEW d \in Consumers,
                      req[c].key # None, req[c].key = req[d].key
               PROVE  c = d
    BY DEF KeyHandedOnce
  <2>1. req[c].token # None /\ req[d].token # None
    BY RequestKinds DEF OtpInv, TypeOK, Handler, ConsumersOK
  <2>2. PICK k \in Keys : client[k].token = req[c].token
                          /\ req[c].key \in {None, k}
    BY <2>1 DEF OtpInv, ConsumersOK
  <2>3. PICK j \in Keys : client[j].token = req[d].token
                          /\ req[d].key \in {None, j}
    BY <2>1 DEF OtpInv, ConsumersOK
  <2>4. req[c].token = req[d].token
    BY <2>2, <2>3
  <2>5. QED
    BY <2>4 DEF OtpInv, ConsumersOK
<1>2. QED
  BY <1>1, Invariance, PTL

\* A password told to a client stands for its key until the key is handed
\* out or the server restarts.
THEOREM Kept == Spec => []PublishedKept
<1>1. OtpInv => PublishedKept
  <2> SUFFICES ASSUME OtpInv, NEW k \in Keys,
                      client[k].token \notin old \cup {None}
               PROVE  \/ globalMap[client[k].token] = k
                      \/ \E c \in Consumers : req[c].token = client[k].token
                                               /\ req[c].key = k
    BY DEF PublishedKept
  <2> DEFINE s == <<k, client[k].attempt>>
  <2>1. client[k].pc = "stored"
    BY DEF OtpInv, ClientsOK
  <2>2. s \in Stores /\ s[1] = k
    BY <2>1, LastAttempt
  <2>3. req[s].pc = "ok" /\ req[s].token = client[k].token
    BY <2>1 DEF OtpInv, ClientsOK
  <2>4. QED
    BY <2>2, <2>3 DEF OtpInv, StoresOK
<1>2. QED
  BY <1>1, Invariance, PTL

(***************************************************************************)
(* The server implements OneTimeStore.                                     *)
(***************************************************************************)

\* A step that generates no password, changes no entry of the map and hands
\* out no key stutters in OneTimeStore.
LEMMA Stutter ==
    ASSUME UNCHANGED <<globalMap, used>>,
           \A t \in Tokens : Taken(t)' = Taken(t)
    PROVE  UNCHANGED Status
BY DEF Status

\* A handler that loads a key has not taken it until it is deleted from the
\* map: it is stored for OneTimeStore as long as it is in the map.
LEMMA StatusStep ==
    ASSUME OtpInv, NEW r \in Requests
    PROVE  /\ ReadFails(r) => UNCHANGED Status
           /\ Lock(r) => UNCHANGED Status
           /\ GenerateFails(r) => UNCHANGED Status
           /\ Write(r) => UNCHANGED Status
<1>1. ASSUME UNCHANGED <<globalMap, used>>,
             NEW pc \in {"error", "locked", "ok"},
             req' = [req EXCEPT ![r].pc = pc]
      PROVE  UNCHANGED Status
  <2>1. \A q \in Requests : req'[q].token = req[q].token
                            /\ req'[q].key = req[q].key
    BY <1>1 DEF OtpInv, TypeOK, Handler
  <2>2. \A t \in Tokens : Taken(t)' = Taken(t)
    BY <2>1, RequestKinds DEF Taken
  <2>3. QED
    BY <1>1, <2>2, Stutter
<1>2. QED
  BY <1>1 DEF ReadFails, Lock, GenerateFails, Write, Return

\* Storing a key is Store.
LEMMA StoreStep ==
    ASSUME OtpInv, NEW r \in Requests, NEW t \in Tokens, Store(r, t)
    PROVE  Abstract!Store(t)
<1>1. /\ req[r].key \in Keys /\ r \in Stores
      /\ used' = used \cup {t} /\ t \notin used
      /\ globalMap' = [globalMap EXCEPT ![t] = req[r].key]
      /\ \A c \in Consumers : req'[c] = req[c]
  BY RequestKinds DEF OtpInv, TypeOK, StoresOK, Store
<1>2. \A u \in Tokens : Taken(u)' = Taken(u)
  BY <1>1 DEF Taken
<1>3. \A u \in Tokens : Status'[u] = IF u = t THEN "stored" ELSE Status[u]
  BY <1>1, <1>2, RequestKinds DEF Status, OtpInv, TypeOK
<1>4. Status[t] = "unused"
  BY <1>1 DEF Status
<1>5. Status' = [Status EXCEPT ![t] = "stored"]
  BY <1>3 DEF Status
<1>6. QED
  BY <1>4, <1>5 DEF Abstract!Store

\* Looking up a key is a stutter: it is in the map still.
LEMMA LoadStep ==
    ASSUME OtpInv, NEW r \in Requests, Load(r)
    PROVE  UNCHANGED Status
<1> DEFINE t == req[r].token
<1>1. /\ r \in Consumers /\ t \in Tokens
      /\ req'[r].token = t /\ req'[r].key = globalMap[t]
      /\ req[r].key = None
      /\ \A c \in Consumers : c # r => req'[c] = req[c]
      /\ UNCHANGED <<globalMap, used>>
  BY RequestKinds DEF OtpInv, TypeOK, Handler, ConsumersOK, Load
<1>2. \A u \in Tokens : u # t \/ globalMap[u] = None => Taken(u)' = Taken(u)
  BY <1>1 DEF Taken
<1>3. QED
  BY <1>1, <1>2 DEF Status

\* Deleting a password is Take when its key is in the map, and a stutter when
\* it is not.
LEMMA DeleteStep ==
    ASSUME OtpInv, NEW r \in Requests, Delete(r)
    PROVE  Abstract!Next \/ UNCHANGED Status
<1> DEFINE t == req[r].token
<1>1. /\ r \in Consumers /\ t \in Tokens
      /\ globalMap[t] = req[r].key
      /\ globalMap' = [globalMap EXCEPT ![t] = None]
      /\ UNCHANGED used
  BY RequestKinds DEF OtpInv, TypeOK, Handler, StoresOK, ConsumersOK, Delete
<1>2. \A q \in Requests : req'[q].token = req[q].token
                          /\ req'[q].key = req[q].key
  BY DEF OtpInv, TypeOK, Handler, Delete, Return
<1>3. \A u \in Tokens : Taken(u)' = Taken(u)
  BY <1>2, RequestKinds DEF Taken
<1>4. CASE req[r].key = None
  <2>1. globalMap' = globalMap
    BY <1>1, <1>4 DEF OtpInv, TypeOK
  <2>2. QED
    BY <1>1, <1>3, <2>1, Stutter
<1>5. CASE req[r].key # None
  <2>1. t \in used /\ Status[t] = "stored"
    BY <1>1, <1>5 DEF OtpInv, StoresOK, Status
  <2>2. Taken(t)
    BY <1>1, <1>5 DEF Taken
  <2>3. \A u \in Tokens : Status'[u] = IF u = t THEN "taken" ELSE Status[u]
    BY <1>1, <1>3, <2>1, <2>2 DEF Status, OtpInv, TypeOK
  <2>4. Status' = [Status EXCEPT ![t] = "taken"]
    BY <2>3 DEF Status
  <2>5. QED
    BY <1>1, <2>1, <2>4 DEF Abstract!Next, Abstract!Take
<1>6. QED
  BY <1>4, <1>5

\* A set of passwords is deleted from the map without a key being handed out.
LEMMA LoseStep ==
    ASSUME OtpInv, NEW S \in SUBSET Tokens, UNCHANGED used,
           \A t \in S : globalMap[t] # None,
           \A t \in S : ~Taken(t)',
           \A t \in Tokens \ S : Taken(t)' = Taken(t),
           globalMap' = [t \in Tokens |-> IF t \in S THEN None
                                         ELSE globalMap[t]]
    PROVE  Abstract!Next
<1>1. \A t \in S : t \in used /\ Status[t] = "stored"
  BY DEF OtpInv, StoresOK, Status
<1>2. \A t \in Tokens : Status'[t] = IF t \in S THEN "lost" ELSE Status[t]
  BY <1>1 DEF Status
<1>3. Status' = [t \in Tokens |-> IF t \in S THEN "lost" ELSE Status[t]]
  BY <1>2 DEF Status
<1>4. Abstract!Lose(S)
  BY <1>1, <1>3 DEF Abstract!Lose
<1>5. QED
  BY <1>4 DEF Abstract!Next

\* A key whose password cannot be written is lost.
LEMMA WriteFailsStep ==
    ASSUME OtpInv, NEW r \in Requests, WriteFails(r)
    PROVE  Abstract!Next \/ UNCHANGED Status
<1>1. \A q \in Requests : req'[q].token = req[q].token
                          /\ req'[q].key = req[q].key
  BY DEF OtpInv, TypeOK, Handler, WriteFails, Return
<1>2. \A t \in Tokens : Taken(t)' = Taken(t)
  BY <1>1, RequestKinds DEF Taken
<1>3. UNCHANGED used
  BY DEF WriteFails
<1>4. CASE r \in Stores /\ globalMap[req[r].token] # None
  <2> DEFINE t == req[r].token
  <2>1. t \in Tokens
    BY <1>4 DEF OtpInv, TypeOK, Handler, StoresOK, WriteFails
  <2>2. ~Taken(t)
    <3> SUFFICES ASSUME NEW c \in Consumers, req[c].token = t,
                        req[c].key # None
                 PROVE  FALSE
      BY DEF Taken
    <3>1. req[c].pc = "delete"
      BY <1>4 DEF OtpInv, ConsumersOK
    <3>2. mutex = c /\ mutex = r
      BY <3>1, RequestKinds DEF OtpInv, MutualExclusion, WriteFails
    <3>3. QED
      BY <1>4, <3>2, RequestKinds
  <2>3. globalMap' = [u \in Tokens |-> IF u \in {t} THEN None
                                      ELSE globalMap[u]]
    BY <1>4 DEF OtpInv, TypeOK, WriteFails
  <2> HIDE DEF t
  <2>4. \A u \in {t} : globalMap[u] # None
    BY <1>4 DEF t
  <2>5. {t} \in SUBSET Tokens
    BY <2>1
  <2>6. QED
    BY <1>2, <1>3, <2>2, <2>3, <2>4, <2>5, LoseStep
<1>5. CASE ~(r \in Stores /\ globalMap[req[r].token] # None)
  <2>1. globalMap' = globalMap
    BY <1>5 DEF OtpInv, TypeOK, WriteFails
  <2>2. QED
    BY <1>2, <1>3, <2>1, Stutter
<1>6. QED
  BY <1>4, <1>5

\* A restart loses every key in the map, those that a handler has looked up
\* and not deleted included.
LEMMA RestartStep ==
    ASSUME OtpInv, Restart
    PROVE  Abstract!Next
<1> DEFINE S == {t \in Tokens : globalMap[t] # None}
<1>1. ASSUME NEW r \in Requests
      PROVE  /\ req'[r].token = req[r].token
             /\ req'[r].key = IF req[r].pc = "delete" THEN None
                              ELSE req[r].key
  <2>1. req[r] \in Handler
    BY DEF OtpInv, TypeOK
  <2>2. req'[r] = IF req[r].pc \in {"waiting", "locked", "write"}
                  THEN [req[r] EXCEPT !.pc = "error"]
                  ELSE IF req[r].pc = "delete"
                  THEN [req[r] EXCEPT !.pc = "error", !.key = None]
                  ELSE req[r]
    BY DEF Restart
  <2>3. QED
    BY <2>1, <2>2 DEF Handler
<1>2. \A t \in S : ~Taken(t)'
  BY <1>1, RequestKinds DEF Taken, OtpInv, ConsumersOK
<1>3. \A t \in Tokens \ S : Taken(t)' = Taken(t)
  BY <1>1, RequestKinds DEF Taken, OtpInv, ConsumersOK
<1>4. globalMap' = [t \in Tokens |-> IF t \in S THEN None ELSE globalMap[t]]
  BY DEF Restart
<1>5. UNCHANGED used /\ S \in SUBSET Tokens /\ \A t \in S : globalMap[t] # None
  BY DEF Restart
<1>6. QED
  BY <1>2, <1>3, <1>4, <1>5, LoseStep

\* A client's steps are none of the server's.
LEMMA ClientStep ==
    ASSUME OtpInv, NEW k \in Keys
    PROVE  /\ Post(k) \/ Stored(k) \/ AttemptFails(k) => UNCHANGED Status
           /\ \A c \in Consumers : Fetch(c, k) => UNCHANGED Status
<1>1. ASSUME Post(k)
      PROVE  UNCHANGED Status
  <2>1. \A c \in Consumers : req'[c] = req[c]
    BY <1>1, RequestKinds, LastAttempt DEF OtpInv, TypeOK, Post
  <2>2. \A t \in Tokens : Taken(t)' = Taken(t)
    BY <2>1 DEF Taken
  <2>3. QED
    BY <1>1, <2>2, Stutter DEF Post
<1>2. ASSUME Stored(k) \/ AttemptFails(k)
      PROVE  UNCHANGED Status
  <2>1. UNCHANGED <<globalMap, used, req>>
    BY <1>2 DEF Stored, AttemptFails
  <2>2. \A t \in Tokens : Taken(t)' = Taken(t)
    BY <2>1 DEF Taken
  <2>3. QED
    BY <2>1, <2>2, Stutter
<1>3. ASSUME NEW c \in Consumers, Fetch(c, k)
      PROVE  UNCHANGED Status
  <2>1. /\ req[c].key = None /\ req'[c].key = None
        /\ \A d \in Consumers : d # c => req'[d] = req[d]
    BY <1>3, RequestKinds DEF OtpInv, TypeOK, ConsumersOK, Fetch, NoRequest
  <2>2. \A t \in Tokens : Taken(t)' = Taken(t)
    BY <2>1 DEF Taken
  <2>3. QED
    BY <1>3, <2>2, Stutter DEF Fetch
<1>4. QED
  BY <1>1, <1>2, <1>3

\* The OTP server implements OneTimeStore: a password is used once, and its
\* key is taken at most once and never after it was lost.
THEOREM Implements == Spec => OneTime
<1>1. Init => Abstract!Init
  BY DEF Init, Abstract!Init, Status
<1>2. OtpInv /\ [Next]_vars => [Abstract!Next]_Status
  <2> SUFFICES ASSUME OtpInv, [Next]_vars
               PROVE  Abstract!Next \/ UNCHANGED Status
    OBVIOUS
  <2>1. ASSUME NEW k \in Keys, Post(k) \/ Stored(k) \/ AttemptFails(k)
        PROVE  UNCHANGED Status
    BY <2>1, ClientStep
  <2>2. ASSUME NEW c \in Consumers, NEW k \in Keys, Fetch(c, k)
        PROVE  UNCHANGED Status
    BY <2>2, ClientStep
  <2>3. ASSUME NEW r \in Requests, ReadFails(r) \/ Serve(r)
        PROVE  Abstract!Next \/ UNCHANGED Status
    <3>1. ASSUME NEW t \in Tokens, Store(r, t)
          PROVE  Abstract!Next
      BY <3>1, StoreStep DEF Abstract!Next
    <3>2. QED
      BY <2>3, <3>1, StatusStep, LoadStep, DeleteStep, WriteFailsStep DEF Serve
  <2>4. CASE Restart
    BY <2>4, RestartStep
  <2>5. CASE UNCHANGED vars
    <3>1. \A t \in Tokens : Taken(t)' = Taken(t)
      BY <2>5 DEF vars, Taken
    <3>2. QED
      BY <2>5, <3>1, Stutter DEF vars
  <2>6. QED
    BY <2>1, <2>2, <2>3, <2>4, <2>5 DEF Next
<1>3. QED
  BY <1>1, <1>2, Invariance, PTL DEF Spec, OneTime, Abstract!Spec

=============================================================================
