-------------------------- MODULE SapControlProofs --------------------------
(***************************************************************************)
(* Proofs about the SAPControl client as SapControl models it, for any     *)
(* instances, host domains and timeouts, and access points that behave in  *)
(* any way.                                                                *)
(***************************************************************************)
EXTENDS SapControl, TLAPS

\* The types of the constants of a behaviour and of the clock.
Constants ==
  /\ config \in [timeout : Timeouts, ssl : BOOLEAN, host_domain : HostDomains]
  /\ points \in [Points -> Behaviours]
  /\ now \in Nat /\ started \in Nat

\* A working access point was passed only when the time was over; a call starts
\* with an empty response.
Passed ==
  /\ pc # "list" => \A k \in 1..(point - 1) : points[k] = "works" => now >= config.timeout
  /\ pc = "failed" => point = 5
  /\ pc = "calling" => point \in Points /\ response = {}

\* What the cache has under a URL is of the instance that listens there.
CacheState == \A u \in DOMAIN cache : cache[u] = At(u)

IInv == TypeOK /\ Constants /\ Passed /\ FromOnePoint /\ CacheState /\ OwnData
-----------------------------------------------------------------------------
(* The URLs.                                                                *)

\* Nobody but the instance listens at the URL that is made for it.
LEMMA ListensAlone ==
  ASSUME NEW i \in Listed, NEW j \in Listed, Listens(j, Endpoint(i))
  PROVE  j = i
BY SapControlAssumption DEF SapControlAssumption, Listens, Endpoint

LEMMA AtEndpoint ==
  ASSUME NEW i \in Listed
  PROVE  At(Endpoint(i)) \in {i, None}
<1> DEFINE L(j) == Listens(j, Endpoint(i))
<1>1. CASE \E j \in Listed : L(j)
  <2>1. (CHOOSE j \in Listed : L(j)) \in Listed /\ L(CHOOSE j \in Listed : L(j))
    BY <1>1
  <2> QED
    BY <1>1, <2>1, ListensAlone DEF At
<1>2. CASE ~ \E j \in Listed : L(j)
  BY <1>2 DEF At
<1> QED
  BY <1>1, <1>2

\* An instance whose port is open and whose domain is known is reached.
LEMMA AtReached ==
  ASSUME NEW i \in Listed,
         (IF config.ssl THEN i.https ELSE i.http) # 0,
         i.short => i.domain = config.host_domain
  PROVE  At(Endpoint(i)) = i
<1>1. Listens(i, Endpoint(i))
  BY DEF Listens, Endpoint
<1>2. At(Endpoint(i)) \in Listed
  BY <1>1 DEF At
<1> QED
  BY <1>2, AtEndpoint, SapControlAssumption DEF SapControlAssumption
-----------------------------------------------------------------------------
(* The search.                                                              *)

LEMMA ExpiredIsLate ==
  ASSUME Constants
  PROVE  config.timeout \in Nat /\ (Expired => now >= config.timeout)
<1>1. config.timeout \in Nat
  BY SapControlAssumption DEF Constants, SapControlAssumption
<1>2. now \in Nat /\ started \in Nat
  BY DEF Constants
<1> QED
  BY <1>1, <1>2 DEF Expired

\* The four ways in which a call ends.
LEMMA CallContextCases ==
  ASSUME IInv, CallContext
  PROVE  /\ pc = "calling" /\ point \in Points /\ response = {}
         /\ UNCHANGED <<now, started, rest>>
         /\ response' \subseteq Listed
         /\ \/ /\ pc' = "next" /\ point' = point + 1
               /\ points[point] = "works" => now >= config.timeout
            \/ /\ pc' = "list" /\ point' = point /\ response' # {}
               /\ points[point] = "works" /\ ~ (now >= config.timeout)
<1> USE DEF IInv
<1>1. pc = "calling" /\ point \in Points /\ response = {} /\ UNCHANGED <<now, started, rest>>
  BY DEF CallContext, Passed
<1>2. points[point] \in Behaviours
  BY <1>1 DEF Constants
<1>3. CASE Expired
  BY <1>1, <1>3, ExpiredIsLate DEF CallContext, Decodes
<1>4. CASE ~ Expired
  <2>1. ~ (now >= config.timeout)
    BY <1>4 DEF Expired
  <2>2. CASE points[point] = "works"
    BY <1>1, <1>4, <2>1, <2>2, SapControlAssumption
       DEF CallContext, Decodes, SapControlAssumption
  <2>3. CASE points[point] = "empty"
    BY <1>1, <1>4, <2>3 DEF CallContext, Decodes
  <2>4. CASE points[point] = "refuses"
    BY <1>1, <1>4, <2>4 DEF CallContext, Decodes
  <2>5. CASE points[point] = "breaks"
    <3>1. PICK some \in SUBSET Listed : Decodes(some, TRUE)
      BY <1>4, <2>5 DEF CallContext
    <3> QED
      BY <1>1, <2>5, <3>1 DEF Decodes
  <2>6. CASE points[point] = "silent"
    BY <1>4, <2>6 DEF CallContext
  <2> QED
    BY <1>2, <2>2, <2>3, <2>4, <2>5, <2>6 DEF Behaviours
<1> QED
  BY <1>3, <1>4
-----------------------------------------------------------------------------
LEMMA InitIInv == Init => IInv
<1> SUFFICES ASSUME Init PROVE IInv
  OBVIOUS
<1> USE SapControlAssumption DEF Init, SapControlAssumption
<1>1. TypeOK
  BY DEF TypeOK
<1>2. Constants
  BY DEF Constants
<1>3. Passed /\ FromOnePoint /\ CacheState /\ OwnData
  BY DEF Passed, FromOnePoint, CacheState, OwnData
<1> QED
  BY <1>1, <1>2, <1>3 DEF IInv

\* The steps that leave the search alone: the instances are called.
LEMMA Calls ==
  ASSUME IInv, NEW i \in Listed, GetSingleInstance(i) \/ GetCachedProcessList(i) \/ CallInstance(i)
  PROVE  /\ pc = "list" /\ UNCHANGED <<config, points, pc, point, now, started, response>>
         /\ props' \in [Listed -> Listed \cup {None}]
         /\ CacheState'
         /\ \E j \in {i, None} : shown' = shown \cup ({<<i, j>>} \ {<<i, None>>})
<1> USE AtEndpoint DEF IInv, TypeOK
<1>1. CASE GetSingleInstance(i)
  <2>1. props' = [props EXCEPT ![i] = At(Endpoint(i))] /\ props'[i] = At(Endpoint(i))
    BY <1>1 DEF GetSingleInstance
  <2>2. CacheState'
    BY <1>1 DEF GetSingleInstance, CacheState, At, Listens
  <2> QED
    BY <1>1, <2>1, <2>2 DEF GetSingleInstance
<1>2. CASE GetCachedProcessList(i)
  <2> DEFINE key  == Endpoint(i)
             list == IF key \in DOMAIN cache THEN cache[key] ELSE At(key)
  <2>1. list = At(key)
    BY DEF CacheState
  <2>2. cache' = [u \in DOMAIN cache \cup {key} |-> IF u = key THEN list ELSE cache[u]]
    BY <1>2 DEF GetCachedProcessList, CacheKey
  <2>3. \A u \in DOMAIN cache' : cache'[u] = At(u)
    BY <2>1, <2>2 DEF CacheState
  <2>4. CacheState'
    BY <2>3 DEF CacheState, At, Listens
  <2>5. shown' = shown \cup ({<<i, list>>} \ {<<i, None>>})
    BY <1>2 DEF GetCachedProcessList, CacheKey
  <2> QED
    BY <1>2, <2>1, <2>4, <2>5 DEF GetCachedProcessList
<1>3. CASE CallInstance(i)
  BY <1>3 DEF CallInstance, CacheState, At, Listens
<1> QED
  BY <1>1, <1>2, <1>3

\* One step for each action; the clock moves in Wait only.
LEMMA StepIInv == IInv /\ [Next]_vars => IInv'
<1> SUFFICES ASSUME IInv, [Next]_vars PROVE IInv'
  OBVIOUS
<1>0. config.timeout \in Nat /\ now \in Nat
  BY ExpiredIsLate DEF IInv, Constants
<1> USE DEF rest
<1>1. CASE CreateSoapClient
  <2> USE <1>1 DEF CreateSoapClient, IInv
  <2>1. TypeOK'
    BY DEF TypeOK, Points
  <2>2. Constants'
    BY DEF Constants
  <2>3. Passed' /\ FromOnePoint'
    BY DEF Passed, FromOnePoint, Points
  <2>4. CacheState' /\ OwnData'
    BY DEF CacheState, At, Listens, OwnData
  <2> QED
    BY <2>1, <2>2, <2>3, <2>4
<1>2. CASE Wait
  <2> USE <1>2 DEF Wait, IInv
  <2>1. TypeOK'
    BY DEF TypeOK
  <2>2. Constants'
    BY <1>0 DEF Constants, Expired
  <2>3. Passed'
    BY <1>0 DEF Passed
  <2>4. FromOnePoint'
    BY DEF Passed, FromOnePoint
  <2>5. CacheState' /\ OwnData'
    BY DEF CacheState, At, Listens, OwnData
  <2> QED
    BY <2>1, <2>2, <2>3, <2>4, <2>5
<1>3. CASE CallContext
  <2> USE <1>3, CallContextCases DEF IInv
  <2>1. TypeOK'
    BY DEF TypeOK, Points
  <2>2. Constants'
    BY DEF Constants
  <2>3. Passed'
    BY <1>0 DEF Passed, Points
  <2>4. FromOnePoint'
    BY <1>0 DEF Passed, FromOnePoint, Points
  <2>5. CacheState' /\ OwnData'
    BY DEF CacheState, At, Listens, OwnData
  <2> QED
    BY <2>1, <2>2, <2>3, <2>4, <2>5
<1>4. CASE AllFailed
  <2> USE <1>4 DEF AllFailed, IInv
  <2>1. TypeOK'
    BY DEF TypeOK
  <2>2. Constants'
    BY DEF Constants
  <2>3. Passed' /\ FromOnePoint'
    BY DEF Passed, FromOnePoint, TypeOK, Points
  <2>4. CacheState' /\ OwnData'
    BY DEF CacheState, At, Listens, OwnData
  <2> QED
    BY <2>1, <2>2, <2>3, <2>4
<1>5. ASSUME NEW i \in Listed,
             GetSingleInstance(i) \/ GetCachedProcessList(i) \/ CallInstance(i)
      PROVE  IInv'
  <2>1. PICK j \in {i, None} : shown' = shown \cup ({<<i, j>>} \ {<<i, None>>})
    BY <1>5, Calls
  <2>2. /\ pc = "list" /\ UNCHANGED <<config, points, pc, point, now, started, response>>
        /\ props' \in [Listed -> Listed \cup {None}] /\ CacheState'
    BY <1>5, Calls
  <2>3. TypeOK'
    BY <2>1, <2>2 DEF IInv, TypeOK
  <2>4. OwnData'
    BY <2>1 DEF IInv, OwnData
  <2>5. Constants' /\ Passed' /\ FromOnePoint'
    BY <2>2 DEF IInv, Constants, Passed, FromOnePoint
  <2> QED
    BY <2>2, <2>3, <2>4, <2>5 DEF IInv
<1>6. CASE UNCHANGED vars
  BY <1>6 DEF vars, IInv, TypeOK, Constants, Passed, FromOnePoint, Expired,
              CacheState, At, Listens, OwnData
<1> QED
  BY <1>1, <1>2, <1>3, <1>4, <1>5, <1>6 DEF Next
-----------------------------------------------------------------------------
LEMMA Invariant == Spec => []IInv
BY InitIInv, StepIInv, PTL DEF Spec

\* The variables keep their types.
THEOREM TypeCorrect == Spec => []TypeOK
BY Invariant, PTL DEF IInv

\* It fails only if no access point works or the time is over.
THEOREM FailsForCause == Spec => []FailsOnlyForCause
<1>1. IInv => FailsOnlyForCause
  BY ExpiredIsLate DEF IInv, Passed, FailsOnlyForCause, Points, Constants
<1> QED
  BY <1>1, Invariant, PTL

\* The list is the one of the first access point that has one.
THEOREM OnePoint == Spec => []FromOnePoint
BY Invariant, PTL DEF IInv

\* No instance is shown with the data of another, for any hosts, ports and domains.
THEOREM DataOwn == Spec => []OwnData
BY Invariant, PTL DEF IInv

\* Every instance with an open port and a known domain is reached.
THEOREM AllReached == Spec => []Reached
<1>1. IInv => Reached
  BY AtReached DEF IInv, TypeOK, Reached
<1> QED
  BY <1>1, Invariant, PTL
=============================================================================
