----------------------------- MODULE ScrapeProofs -----------------------------
(***************************************************************************)
(* Proofs about the collectors over the shared cache as Scrape models them, *)
(* for any recorders and roles, any instances, cache_ttl and scrape_timeout. *)
(***************************************************************************)
EXTENDS Scrape, TLAPS

Keys == Instances \cup {ListKey}

\* What is cached under a key: the list under its own, process lists elsewhere.
Bodies(k) == {Nil} \cup (IF k = ListKey THEN InstanceLists ELSE ProcessLists)

Types ==
  /\ now \in 1..MaxTime
  /\ content \in [Keys -> [value : Cached \cup {None}, exp : Nat]]
  /\ status \in [Recorders -> {"idle", "pending", "loading"}]
  /\ wanted \in [Recorders -> Keys \cup {None}]
  /\ result \in [Recorders -> Cached \cup {None}]
  /\ pc \in [Recorders -> {"idle", "list", "loop", "procs", "call"}]
  /\ begun \in [Recorders -> 0..MaxTime]
  /\ todo \in [Recorders -> SUBSET Instances]
  /\ cur \in [Recorders -> Instances \cup {None}]
  /\ asked \in 0..MaxTime
  /\ latest \in 0..MaxTime

\* A recorder is in GetOrSet for the list or for a process list, and one at a time
\* fetches.
Calls ==
  /\ \A p \in Recorders : status[p] # "idle" =>
       \/ pc[p] = "list"  /\ wanted[p] = ListKey
       \/ pc[p] = "procs" /\ wanted[p] \in Instances
  /\ \A p, q \in Recorders : status[p] = "loading" /\ status[q] = "loading" => p = q

\* A fetch is sent after its Collect began, and answered or given up by the
\* deadline, unless it was sent after that.
Times ==
  /\ latest =< now
  /\ \A p \in Recorders : Busy(p) => begun[p] =< latest
  /\ \A p \in Recorders : status[p] = "loading" =>
       /\ begun[p] =< asked /\ asked =< now
       /\ now = asked \/ now =< Deadline(p)

\* No item lives longer than a ttl and a timeout from when SAP was asked for it.
Contents ==
  \A k \in Keys : content[k].value # None =>
    /\ content[k].value.body \in Bodies(k)
    /\ 0 < content[k].exp /\ content[k].exp =< content[k].value.asof + Timeout + Ttl

\* What a recorder is about to use was asked for not long before it began.
Used ==
  \A p \in Recorders : Uses(p) =>
    /\ result[p] \in Cached
    /\ pc[p] = "list" => result[p].body \in Bodies(ListKey)
    /\ begun[p] - result[p].asof < Ttl + Timeout

\* Nothing is left to visit when the loop has not begun.
NothingLeft == \A p \in Recorders : pc[p] \in {"idle", "list"} => todo[p] = {}

IInv == Types /\ Calls /\ Times /\ Contents /\ Used /\ NothingLeft /\ NoPileUp
-----------------------------------------------------------------------------
(* What the definitions amount to.                                          *)

LEMMA TtlPositive == Ttl \in Nat \ {0}
BY ScrapeAssumption DEF ScrapeAssumption, Ttl

LEMMA Parameters ==
  /\ Timeout \in Nat \ {0} /\ MaxTime \in Nat \ {0} /\ ListKey \notin Instances
  /\ Role \in [Recorders -> Roles]
BY ScrapeAssumption DEF ScrapeAssumption

LEMMA CachedTyped ==
  ASSUME NEW v \in Cached
  PROVE  v.asof \in Nat /\ v.asof =< MaxTime
BY Parameters DEF Cached

\* What is fetched for a key may be cached under it.
LEMMA AnswersCached ==
  ASSUME asked \in 0..MaxTime, NEW k, NEW bodies, bodies \subseteq Bodies(k),
         NEW v \in Answers(bodies)
  PROVE  v \in Cached /\ v.body \in Bodies(k) /\ v.asof = asked
<1>1. PICK b \in bodies : v = [body |-> b, asof |-> asked]
  BY DEF Answers
<1>2. b \in {Nil} \cup InstanceLists \cup ProcessLists
  BY DEF Bodies
<1> QED
  BY <1>1, <1>2 DEF Cached

LEMMA InitIInv == Init => IInv
<1> SUFFICES ASSUME Init PROVE IInv
  OBVIOUS
<1> USE Parameters DEF Init, Cache!Init
<1>1. Types
  BY DEF Types, Cache!NoItem, Keys
<1>2. Calls /\ Times /\ Used /\ NothingLeft /\ NoPileUp
  BY DEF Calls, Times, Used, Uses, NothingLeft, NoPileUp, Busy
<1>3. Contents
  BY DEF Contents, Cache!NoItem, Keys
<1> QED
  BY <1>1, <1>2, <1>3 DEF IInv
-----------------------------------------------------------------------------
(* The steps at the cache.                                                  *)

\* A recorder that is in no call calls GetOrSet.
LEMMA InvokeIInv ==
  ASSUME IInv, NEW p \in Recorders, NEW k \in Keys, Cache!Invoke(p, k),
         \/ /\ ~ Busy(p) /\ k = ListKey /\ now + Timeout =< MaxTime /\ Goto(p, "list")
            /\ begun' = [begun EXCEPT ![p] = now] /\ latest' = now /\ UNCHANGED <<todo, cur>>
         \/ /\ pc[p] = "loop" /\ k \in Instances /\ Goto(p, "procs")
            /\ \E i : todo' = [todo EXCEPT ![p] = @ \ {i}]
            /\ cur' = [cur EXCEPT ![p] = k] /\ UNCHANGED <<begun, latest>>,
         UNCHANGED asked
  PROVE  IInv'
<1>t. Types /\ Calls /\ Times /\ Contents /\ Used /\ NothingLeft /\ NoPileUp
  BY DEF IInv
<1>u. UNCHANGED <<now, content, asked>> /\ status[p] = "idle"
  BY DEF Cache!Invoke
<1>1. Types'
  <2>1. /\ status' \in [Recorders -> {"idle", "pending", "loading"}]
        /\ wanted' \in [Recorders -> Keys \cup {None}]
        /\ result' \in [Recorders -> Cached \cup {None}]
    BY <1>t DEF Types, Cache!Invoke
  <2>2. pc' \in [Recorders -> {"idle", "list", "loop", "procs", "call"}]
    BY <1>t DEF Types, Goto
  <2>3. begun' \in [Recorders -> 0..MaxTime] /\ latest' \in 0..MaxTime
    BY <1>t, Parameters DEF Types
  <2>4. todo' \in [Recorders -> SUBSET Instances]
        /\ cur' \in [Recorders -> Instances \cup {None}]
    BY <1>t DEF Types
  <2> QED
    BY <1>t, <1>u, <2>1, <2>2, <2>3, <2>4 DEF Types
<1>2. Calls'
  BY <1>t DEF Types, Calls, Goto, Cache!Invoke
<1>3. Times'
  BY <1>t, <1>u, Parameters DEF Types, Times, Busy, Goto, Cache!Invoke, Deadline
<1>4. Contents'
  BY <1>t, <1>u DEF Contents
<1>5. Used'
  BY <1>t, <1>u DEF Types, Used, Uses, Goto, Cache!Invoke
<1>6. NothingLeft'
  BY <1>t DEF Types, NothingLeft, Busy, Goto
<1>7. NoPileUp'
  BY <1>t, <1>u, Parameters DEF Types, NoPileUp, Busy, Goto
<1> QED
  BY <1>1, <1>2, <1>3, <1>4, <1>5, <1>6, <1>7 DEF IInv

\* GetOrSet returns to p a value that is fresh enough for it.
LEMMA ReturnIInv ==
  ASSUME IInv, NEW p \in Recorders, status[p] # "idle", NEW v \in Cached,
         Cache!Return(p, v), v.body \in Bodies(wanted[p]), begun[p] - v.asof < Ttl + Timeout,
         Contents', content' \in [Keys -> [value : Cached \cup {None}, exp : Nat]],
         asked' \in 0..MaxTime, asked' = asked \/ status[p] = "loading",
         UNCHANGED <<now, pc, begun, todo, cur, latest>>
  PROVE  IInv'
<1>t. Types /\ Calls /\ Times /\ Contents /\ Used /\ NothingLeft /\ NoPileUp
  BY DEF IInv
<1>1. Types'
  BY <1>t DEF Types, Cache!Return
<1>2. Calls'
  BY <1>t DEF Types, Calls, Cache!Return
<1>3. Times'
  <2>1. ASSUME NEW q \in Recorders, status'[q] = "loading"
        PROVE  status[q] = "loading" /\ asked' = asked
    BY <1>t, <2>1 DEF Types, Calls, Cache!Return
  <2> QED
    BY <1>t, <2>1 DEF Times, Busy, Deadline
<1>5. Used'
  <2>1. ASSUME NEW q \in Recorders, q # p, Uses(q)' PROVE Uses(q) /\ result'[q] = result[q]
    BY <1>t, <2>1 DEF Types, Uses, Cache!Return
  <2>2. result'[p] = v
    BY <1>t DEF Types, Cache!Return
  <2>3. pc[p] = "list" => wanted[p] = ListKey
    BY <1>t DEF Calls
  <2> QED
    BY <1>t, <2>1, <2>2, <2>3 DEF Used, Uses
<1>6. NothingLeft' /\ NoPileUp'
  BY <1>t DEF NothingLeft, NoPileUp, Busy
<1> QED
  BY <1>1, <1>2, <1>3, <1>5, <1>6 DEF IInv

LEMMA ServeIInv == ASSUME IInv, NEW p \in Recorders, Serve(p) PROVE IInv'
<1>t. Types /\ Calls /\ Times /\ Contents
  BY DEF IInv
<1> DEFINE v == content[wanted[p]].value
<1>1. /\ status[p] = "pending" /\ Cache!Unexpired(content[wanted[p]], now)
      /\ Cache!Return(p, v) /\ UNCHANGED <<now, content>> /\ UNCHANGED loopVars
  BY DEF Serve, Cache!Hit
<1>2. wanted[p] \in Keys
  BY <1>1, <1>t DEF Calls, Keys
<1>3. v # None /\ v \in Cached /\ content[wanted[p]].exp \in Nat
  BY <1>1, <1>2, <1>t DEF Types, Cache!Unexpired
<1>4. v.body \in Bodies(wanted[p]) /\ now < v.asof + Timeout + Ttl
  <2>1. /\ v.body \in Bodies(wanted[p])
        /\ 0 < content[wanted[p]].exp /\ content[wanted[p]].exp =< v.asof + Timeout + Ttl
    BY <1>2, <1>3, <1>t DEF Contents
  <2>2. now < content[wanted[p]].exp
    BY <1>1, <1>3, <2>1 DEF Cache!Unexpired
  <2> HIDE DEF v
  <2> QED
    BY <1>3, <1>t, <2>1, <2>2, CachedTyped, TtlPositive, Parameters DEF Types
<1>5. begun[p] =< now
  BY <1>1, <1>t, Parameters DEF Types, Times, Calls, Busy
<1> HIDE DEF v
<1>6. begun[p] - v.asof < Ttl + Timeout
  BY <1>3, <1>4, <1>5, <1>t, CachedTyped, TtlPositive, Parameters DEF Types
<1>7. /\ Contents' /\ content' \in [Keys -> [value : Cached \cup {None}, exp : Nat]]
      /\ asked' = asked /\ asked' \in 0..MaxTime
  BY <1>1, <1>t DEF Types, Contents, loopVars
<1> QED
  BY <1>1, <1>3, <1>4, <1>6, <1>7, ReturnIInv DEF loopVars

LEMMA FetchIInv == ASSUME IInv, NEW p \in Recorders, Fetch(p) PROVE IInv'
<1>t. Types /\ Calls /\ Times /\ Contents /\ Used /\ NothingLeft /\ NoPileUp
  BY DEF IInv
<1>1. /\ status[p] = "pending" /\ \A q \in Recorders : status[q] # "loading"
      /\ status' = [status EXCEPT ![p] = "loading"] /\ asked' = now
      /\ UNCHANGED <<now, content, wanted, result, pc, begun, todo, cur, latest>>
  BY DEF Fetch, Cache!Load
<1>2. Types'
  BY <1>t, <1>1, Parameters DEF Types
<1>3. Calls'
  BY <1>t, <1>1 DEF Types, Calls
<1>4. Times'
  BY <1>t, <1>1, Parameters DEF Types, Times, Calls, Busy, Deadline
<1>5. Contents' /\ NothingLeft' /\ NoPileUp'
  BY <1>t, <1>1 DEF Contents, NothingLeft, NoPileUp, Busy
<1>6. Used'
  BY <1>t, <1>1 DEF Types, Used, Uses
<1> QED
  BY <1>2, <1>3, <1>4, <1>5, <1>6 DEF IInv

\* A fetch ends, with an answer or with an error, and both are stored.
LEMMA LoadedIInv ==
  ASSUME IInv, NEW p \in Recorders, NEW v \in Cached, v.asof = asked,
         v.body \in Bodies(wanted[p]), Cache!Loaded(p, v, Ttl), asked' = 0,
         UNCHANGED <<pc, begun, todo, cur, latest>>
  PROVE  IInv'
<1>t. Types /\ Calls /\ Times /\ Contents
  BY DEF IInv
<1>1. /\ status[p] = "loading" /\ Cache!Return(p, v) /\ UNCHANGED now
      /\ content' = [content EXCEPT ![wanted[p]] = [value |-> v, exp |-> now + Ttl]]
  <2>1. (IF Ttl > 0 THEN now + Ttl ELSE 0) = now + Ttl
    BY TtlPositive
  <2> QED
    BY <2>1 DEF Cache!Loaded
<1>2. wanted[p] \in Keys
  BY <1>1, <1>t DEF Calls, Keys
<1>3. /\ begun[p] \in Nat /\ asked \in Nat /\ now \in Nat \ {0}
      /\ begun[p] =< asked /\ asked =< now /\ now =< asked + Timeout
  BY <1>1, <1>t, Parameters DEF Types, Times, Deadline
<1>4. begun[p] - v.asof < Ttl + Timeout
  BY <1>3, TtlPositive, Parameters
<1>5. now + Ttl \in Nat /\ 0 < now + Ttl /\ now + Ttl =< v.asof + Timeout + Ttl
  BY <1>3, TtlPositive, Parameters
<1>6. [value |-> v, exp |-> now + Ttl] \in [value : Cached \cup {None}, exp : Nat]
  BY <1>5
<1>7. content' \in [Keys -> [value : Cached \cup {None}, exp : Nat]]
  BY <1>1, <1>2, <1>6, <1>t DEF Types
<1>8. Contents'
  <2> SUFFICES ASSUME NEW k \in Keys, content'[k].value # None
               PROVE  /\ content'[k].value.body \in Bodies(k)
                      /\ 0 < content'[k].exp
                      /\ content'[k].exp =< content'[k].value.asof + Timeout + Ttl
    BY DEF Contents, Bodies
  <2>1. CASE k = wanted[p]
    <3>1. content'[k].value = v /\ content'[k].exp = now + Ttl
      BY <1>1, <1>2, <1>t, <2>1 DEF Types
    <3> QED
      BY <1>5, <2>1, <3>1
  <2>2. CASE k # wanted[p]
    <3>1. content'[k] = content[k]
      BY <1>1, <1>t, <2>2 DEF Types
    <3> QED
      BY <1>t, <3>1 DEF Contents
  <2> QED
    BY <2>1, <2>2
<1>9. asked' \in 0..MaxTime
  BY Parameters
<1> QED
  BY <1>1, <1>4, <1>7, <1>8, <1>9, ReturnIInv

LEMMA FetchEndsIInv ==
  ASSUME IInv, NEW p \in Recorders, FetchOK(p) \/ FetchFail(p)
  PROVE  IInv'
<1>t. Types /\ Calls
  BY DEF IInv
<1>1. status[p] = "loading"
  BY DEF FetchOK, FetchFail, Cache!Loaded
<1>2. \/ pc[p] = "list" /\ wanted[p] = ListKey
      \/ pc[p] = "procs" /\ wanted[p] \in Instances
  BY <1>1, <1>t DEF Calls
<1> DEFINE answers == IF pc[p] = "list" THEN InstanceLists ELSE ProcessLists
<1>3. answers \subseteq Bodies(wanted[p]) /\ {Nil} \subseteq Bodies(wanted[p])
  BY <1>2, Parameters DEF Bodies
<1> HIDE DEF answers
<1>4. PICK v \in Answers(answers) \cup Answers({Nil}) : Cache!Loaded(p, v, Ttl)
  BY DEF FetchOK, FetchFail, answers
<1>5. v \in Cached /\ v.body \in Bodies(wanted[p]) /\ v.asof = asked
  BY <1>3, <1>t, AnswersCached DEF Types
<1>6. asked' = 0 /\ UNCHANGED <<pc, begun, todo, cur, latest>>
  BY DEF FetchOK, FetchFail
<1> QED
  BY <1>4, <1>5, <1>6, LoadedIInv
-----------------------------------------------------------------------------
(* The steps of the loop.                                                   *)

\* Steps of p outside the cache that neither begin a Collect nor use up time.
LEMMA LoopIInv ==
  ASSUME IInv, NEW p \in Recorders, NEW label, Goto(p, label),
         label \in {"idle", "loop", "procs", "call"}, UNCHANGED <<cacheVars, asked, latest>>,
         Busy(p), status[p] = "idle", label = "procs" => pc[p] = "procs",
         begun' \in [Recorders -> 0..MaxTime], begun'[p] =< begun[p],
         \A q \in Recorders \ {p} : begun'[q] = begun[q],
         todo' \in [Recorders -> SUBSET Instances],
         \A q \in Recorders \ {p} : todo'[q] = todo[q],
         label = "idle" => todo'[p] = {}, label = "procs" => begun' = begun,
         cur' \in [Recorders -> Instances \cup {None}]
  PROVE  IInv'
<1>t. Types /\ Calls /\ Times /\ Contents /\ Used /\ NothingLeft /\ NoPileUp
  BY DEF IInv
<1>u. UNCHANGED <<now, content, status, wanted, result, asked, latest>>
  BY DEF cacheVars
<1>p. pc'[p] = label /\ \A q \in Recorders \ {p} : pc'[q] = pc[q]
  BY <1>t DEF Types, Goto
<1>1. Types'
  <2>1. pc' \in [Recorders -> {"idle", "list", "loop", "procs", "call"}]
    BY <1>t DEF Types, Goto
  <2> QED
    BY <1>t, <1>u, <2>1 DEF Types
<1>2. Calls'
  BY <1>t, <1>u, <1>p DEF Calls
<1>3. Times'
  BY <1>t, <1>u, <1>p, Parameters DEF Types, Times, Busy, Deadline
<1>4. Contents'
  BY <1>t, <1>u DEF Contents
<1>5. Used'
  BY <1>t, <1>u, <1>p DEF Used, Uses
<1>6. NothingLeft'
  BY <1>t, <1>p DEF NothingLeft
<1>7. NoPileUp'
  BY <1>t, <1>u, <1>p DEF NoPileUp, Busy
<1> QED
  BY <1>1, <1>2, <1>3, <1>4, <1>5, <1>6, <1>7 DEF IInv

LEMMA GotListIInv == ASSUME IInv, NEW p \in Recorders, GotList(p) PROVE IInv'
<1>t. Types /\ Used /\ NothingLeft
  BY DEF IInv
<1>1. pc[p] = "list" /\ status[p] = "idle" /\ UNCHANGED <<cacheVars, cur, asked, latest>>
  BY DEF GotList
<1>2. begun \in [Recorders -> 0..MaxTime] /\ todo \in [Recorders -> SUBSET Instances]
      /\ cur' \in [Recorders -> Instances \cup {None}] /\ 0 \in 0..MaxTime
  BY <1>1, <1>t, Parameters DEF Types
<1>3. CASE Return(p) /\ UNCHANGED todo
  <2>1. /\ begun' \in [Recorders -> 0..MaxTime] /\ begun'[p] =< begun[p]
        /\ \A q \in Recorders \ {p} : begun'[q] = begun[q]
    BY <1>2, <1>3, Parameters DEF Return
  <2>2. todo'[p] = {}
    BY <1>1, <1>3, <1>t DEF NothingLeft
  <2> QED
    BY <1>1, <1>2, <1>3, <2>1, <2>2, LoopIInv DEF Return, Busy
<1>4. CASE /\ result[p].body # Nil /\ Goto(p, "loop")
           /\ todo' = [todo EXCEPT ![p] = result[p].body] /\ UNCHANGED begun
  <2>1. result[p].body \in SUBSET Instances
    BY <1>1, <1>4, <1>t DEF Used, Uses, Bodies, InstanceLists
  <2>2. /\ todo' \in [Recorders -> SUBSET Instances]
        /\ \A q \in Recorders \ {p} : todo'[q] = todo[q]
    BY <1>2, <1>4, <2>1
  <2>3. begun[p] =< begun[p]
    BY <1>2, Parameters
  <2> QED
    BY <1>1, <1>2, <1>4, <2>2, <2>3, LoopIInv DEF Busy
<1> QED
  BY <1>3, <1>4 DEF GotList

LEMMA LoopStepsIInv ==
  ASSUME IInv, NEW p \in Recorders, GotProcesses(p) \/ CallEnds(p) \/ Finish(p)
  PROVE  IInv'
<1>t. Types /\ Calls
  BY DEF IInv
<1>1. /\ begun \in [Recorders -> 0..MaxTime] /\ begun[p] =< begun[p] /\ 0 \in 0..MaxTime
      /\ todo \in [Recorders -> SUBSET Instances]
      /\ cur \in [Recorders -> Instances \cup {None}]
  BY <1>t, Parameters DEF Types
<1>2. [cur EXCEPT ![p] = None] \in [Recorders -> Instances \cup {None}]
  BY <1>1
<1>3. /\ Busy(p) /\ status[p] = "idle"
      /\ UNCHANGED <<cacheVars, todo, asked, latest>>
  BY <1>t DEF GotProcesses, CallEnds, Finish, Busy, Calls
<1>4. CASE GotProcesses(p) \/ CallEnds(p)
  <2>1. UNCHANGED begun
    BY <1>4 DEF GotProcesses, CallEnds
  <2>2. \/ Goto(p, "call") /\ UNCHANGED cur
        \/ Goto(p, "loop") /\ cur' = [cur EXCEPT ![p] = None]
    BY <1>4 DEF GotProcesses, CallEnds, Continue
  <2> QED
    BY <1>1, <1>2, <1>3, <2>1, <2>2, LoopIInv
<1>5. CASE Finish(p)
  <2>1. /\ begun' \in [Recorders -> 0..MaxTime] /\ begun'[p] =< begun[p]
        /\ \A q \in Recorders \ {p} : begun'[q] = begun[q]
    BY <1>1, <1>5, Parameters DEF Finish, Return
  <2> QED
    BY <1>1, <1>3, <1>5, <2>1, LoopIInv DEF Finish, Return
<1> QED
  BY <1>4, <1>5

LEMMA VisitIInv ==
  ASSUME IInv, NEW p \in Recorders, NEW i \in Instances, Visit(p, i) PROVE IInv'
<1>t. Types /\ Calls
  BY DEF IInv
<1>1. /\ pc[p] = "loop" /\ UNCHANGED <<begun, asked, latest>>
      /\ todo' = [todo EXCEPT ![p] = @ \ {i}]
  BY DEF Visit
<1>2. /\ todo' \in [Recorders -> SUBSET Instances]
      /\ \A q \in Recorders \ {p} : todo'[q] = todo[q]
  BY <1>1, <1>t DEF Types
<1>3. /\ begun \in [Recorders -> 0..MaxTime] /\ begun[p] =< begun[p]
      /\ cur \in [Recorders -> Instances \cup {None}]
      /\ [cur EXCEPT ![p] = i] \in [Recorders -> Instances \cup {None}]
  BY <1>t, Parameters DEF Types
<1>4. Busy(p) /\ status[p] = "idle"
  BY <1>1, <1>t DEF Busy, Types, Calls
<1>5. CASE UNCHANGED <<cacheVars, pc, cur>>
  <2>1. Goto(p, "loop")
    BY <1>1, <1>5, <1>t DEF Goto, Types
  <2> QED
    BY <1>1, <1>2, <1>3, <1>4, <1>5, <2>1, LoopIInv
<1>6. CASE Cache!Invoke(p, i) /\ Goto(p, "procs") /\ cur' = [cur EXCEPT ![p] = i]
  BY <1>1, <1>6, InvokeIInv DEF Keys
<1>7. CASE Goto(p, "call") /\ cur' = [cur EXCEPT ![p] = i] /\ UNCHANGED cacheVars
  BY <1>1, <1>2, <1>3, <1>4, <1>7, LoopIInv
<1> QED
  BY <1>5, <1>6, <1>7 DEF Visit

LEMMA CollectIInv == ASSUME IInv, NEW p \in Recorders, Collect(p) PROVE IInv'
BY InvokeIInv DEF Collect, Keys

\* Time passes only while somebody waits for SAP, within the deadline: the one who
\* holds the lock, if the others wait for that.
LEMMA TickIInv == ASSUME IInv, Tick PROVE IInv'
<1>t. Types /\ Calls /\ Times /\ Contents /\ Used /\ NothingLeft /\ NoPileUp
  BY DEF IInv
<1>1. /\ now < MaxTime /\ now' = now + 1
      /\ UNCHANGED <<content, status, wanted, result, pc, begun, todo, cur, asked, latest>>
      /\ \A p \in Recorders : Busy(p) => WaitsForSap(p) \/ WaitsForLock(p)
  BY DEF Tick, Cache!Tick, loopVars
<1>2. ASSUME NEW p \in Recorders, status[p] = "loading" PROVE now + 1 =< Deadline(p)
  <2>1. Busy(p) /\ ~ WaitsForLock(p)
    BY <1>2, <1>t DEF Calls, Busy, WaitsForLock
  <2>2. now < Deadline(p)
    BY <1>1, <2>1 DEF WaitsForSap, InTime
  <2> QED
    BY <1>t, <2>2, Parameters DEF Types, Deadline
<1>3. Types'
  BY <1>t, <1>1, Parameters DEF Types
<1>4. Calls' /\ Contents' /\ NothingLeft'
  BY <1>t, <1>1 DEF Calls, Contents, NothingLeft
<1>5. Used'
  BY <1>t, <1>1 DEF Used, Uses
<1>6. Times'
  BY <1>t, <1>1, <1>2, Parameters DEF Types, Times, Busy, Deadline
<1>7. NoPileUp'
  <2> SUFFICES ASSUME NEW p \in Recorders, Busy(p) PROVE now + 1 =< latest + Timeout
    BY <1>1 DEF NoPileUp, Busy
  <2>1. PICK q \in Recorders : Busy(q) /\ InTime(q)
    <3>1. CASE WaitsForSap(p)
      BY <3>1 DEF WaitsForSap
    <3>2. CASE WaitsForLock(p)
      <4>1. PICK q \in Recorders : status[q] = "loading"
        BY <3>2 DEF WaitsForLock
      <4>2. Busy(q) /\ ~ WaitsForLock(q)
        BY <1>t, <4>1 DEF Calls, Busy, WaitsForLock
      <4> QED
        BY <1>1, <4>2 DEF WaitsForSap
    <3> QED
      BY <1>1, <3>1, <3>2
  <2>2. now < begun[q] + Timeout /\ begun[q] =< latest
    BY <1>t, <2>1 DEF InTime, Deadline, Times
  <2> QED
    BY <1>t, <2>2, Parameters DEF Types
<1> QED
  BY <1>3, <1>4, <1>5, <1>6, <1>7 DEF IInv

LEMMA StutterIInv == ASSUME IInv, UNCHANGED vars PROVE IInv'
<1>1. UNCHANGED <<now, content, status, wanted, result, pc, begun, todo, cur, asked, latest>>
  BY DEF vars, cacheVars, loopVars
<1>2. Types' /\ Calls' /\ Times' /\ Contents'
  BY <1>1 DEF IInv, Types, Calls, Times, Contents, Busy, Deadline
<1>3. Used' /\ NothingLeft' /\ NoPileUp'
  BY <1>1 DEF IInv, Used, Uses, NothingLeft, NoPileUp, Busy
<1> QED
  BY <1>2, <1>3 DEF IInv

\* The recorders, the cache under them and the clock, at any time of any scrapes.
THEOREM Invariance == Spec => []IInv
<1>1. IInv /\ [Next]_vars => IInv'
  BY CollectIInv, ServeIInv, GotListIInv, VisitIInv, LoopStepsIInv, FetchIInv, FetchEndsIInv,
     TickIInv, StutterIInv DEF Next, Run
<1> QED
  BY InitIInv, <1>1, PTL DEF Spec
-----------------------------------------------------------------------------
\* No Collect is running any more when a timeout has passed since the last began,
\* although they wait for one another without looking at their deadlines.
THEOREM WaitsDoNotAddUp == Spec => []NoPileUp
<1>1. IInv => NoPileUp
  BY DEF IInv
<1> QED
  BY Invariance, <1>1, PTL

\* A Collect that got its list visits every instance of it.
THEOREM EveryInstanceVisited == Spec => []NoneSkipped
<1>1. IInv => NoneSkipped
  BY DEF IInv, NothingLeft, NoneSkipped, Busy
<1> QED
  BY Invariance, <1>1, PTL

\* What a Collect uses is no older than a ttl and a timeout when it begins.
THEOREM AnswersFresh == Spec => []Freshness
<1>1. IInv => Freshness
  BY DEF IInv, Used, Freshness
<1> QED
  BY Invariance, <1>1, PTL

\* The types: a recorder takes no process list for the instance list.
THEOREM TypeCorrect == Spec => []Types
<1>1. IInv => Types
  BY DEF IInv
<1> QED
  BY Invariance, <1>1, PTL

\* The collectors use the cache as ReadThroughCache lets them: with the keys, the
\* values and the ttl it is made for, and one call of a recorder at a time.
THEOREM UsesCache == Spec => Cache!Spec
<1>1. Init => Cache!Init
  BY DEF Init
<1>2. IInv /\ [Next]_vars => [Cache!Next]_(Cache!vars)
  <2> SUFFICES ASSUME IInv, [Next]_vars PROVE [Cache!Next]_(Cache!vars)
    OBVIOUS
  <2>u. UNCHANGED cacheVars => UNCHANGED Cache!vars
    BY DEF cacheVars, Cache!vars
  <2>1. ASSUME NEW p \in Recorders, Collect(p) PROVE Cache!Next
    <3>1. ListKey \in Instances \cup {ListKey} /\ Cache!Invoke(p, ListKey)
      BY <2>1 DEF Collect
    <3> QED
      BY <3>1 DEF Cache!Next
  <2>2. ASSUME NEW p \in Recorders, Serve(p) \/ Fetch(p) PROVE Cache!Next
    BY <2>2 DEF Serve, Fetch, Cache!Next
  <2>3. ASSUME NEW p \in Recorders, NEW i \in Instances, Visit(p, i)
        PROVE  Cache!Next \/ UNCHANGED cacheVars
    <3>1. Cache!Invoke(p, i) \/ UNCHANGED cacheVars
      BY <2>3 DEF Visit
    <3>2. i \in Instances \cup {ListKey}
      OBVIOUS
    <3> QED
      BY <3>1, <3>2 DEF Cache!Next
  <2>4. ASSUME NEW p \in Recorders, FetchOK(p) \/ FetchFail(p) PROVE Cache!Next
    <3>1. PICK b \in {Nil} \cup InstanceLists \cup ProcessLists :
             Cache!Loaded(p, [body |-> b, asof |-> asked], Ttl)
      BY <2>4 DEF FetchOK, FetchFail, Answers
    <3>2. [body |-> b, asof |-> asked] \in Cached /\ Ttl \in {Ttl}
      BY DEF IInv, Types, Cached
    <3> HIDE DEF Cached, Ttl
    <3> QED
      BY <3>1, <3>2 DEF Cache!Next
  <2>5. ASSUME NEW p \in Recorders,
               GotList(p) \/ GotProcesses(p) \/ CallEnds(p) \/ Finish(p)
        PROVE  UNCHANGED cacheVars
    BY <2>5 DEF GotList, GotProcesses, CallEnds, Finish
  <2>6. CASE Tick
    BY <2>6 DEF Tick, Cache!Next
  <2>7. ASSUME UNCHANGED vars PROVE UNCHANGED cacheVars
    BY <2>7 DEF vars
  <2> QED
    BY <2>u, <2>1, <2>2, <2>3, <2>4, <2>5, <2>6, <2>7 DEF Next, Run
<1> QED
  BY <1>1, <1>2, Invariance, PTL DEF Spec, Cache!Spec
===============================================================================
