------------------------------- MODULE Scrape -------------------------------
(***************************************************************************)
(* The collectors (collector/start_service, dispatcher, enqueue_server,    *)
(* workprocess, alerts) at work over the shared cache.                     *)
(*                                                                         *)
(* A recorder is one goroutine inside a Collect: it makes a context with   *)
(* the deadline scrape_timeout, gets the instance list through the cache,  *)
(* and loops over the instances.  For each one it may get the process list *)
(* (through the cache), may decide from it that the instance is not of its *)
(* kind, may call SAPControl directly, and emits metrics.  Errors of one   *)
(* instance are logged and the loop continues.                             *)
(*                                                                         *)
(* The cache is ReadThroughCache, which CacheManager implements.  Time     *)
(* passes only while every busy recorder waits for SAP or for the lock of  *)
(* the cache: the exporter's own computing takes no time here, and neither *)
(* does a push to Loki, which is the subject of Alerts.                    *)
(***************************************************************************)
EXTENDS Integers, FiniteSets

CONSTANTS
  Recorders,    \* the goroutines; each runs one Collect after another
  Role,         \* Role[p]: what p records
  Instances,    \* the SAP instances there may be
  CacheTTL,     \* config cache_ttl, in ticks
  DefaultTTL,   \* the 30s used when it is 0
  Timeout,      \* config scrape_timeout, in ticks
  ListKey,      \* the cache key "InstanceInfo"
  None,         \* absence
  MaxTime       \* bound: no Collect begins that could last longer

\* What is recorded, by what it needs: "instances" (the list), "processes" (and
\* the process lists), "queues" (and a call to the instances whose process list
\* shows a dispatcher, or for the enqueue server a message server), "tables" (the
\* list and a call: the work processes and the alerts).
Roles == {"instances", "processes", "queues", "tables"}

ASSUME ScrapeAssumption ==
  /\ Role \in [Recorders -> Roles]
  /\ CacheTTL \in Nat /\ DefaultTTL \in Nat \ {0} /\ Timeout \in Nat \ {0}
  /\ MaxTime \in Nat \ {0}
  /\ ListKey \notin Instances
  /\ None \notin Recorders \cup Instances \cup {ListKey}

VARIABLES
  now, content, status, wanted, result,   \* the cache: see ReadThroughCache
  pc,       \* pc[p]: the call that p is in, or the loop, or "idle"
  begun,    \* begun[p]: when p's Collect began
  todo,     \* todo[p]: the instances that p's loop has still to visit
  cur,      \* cur[p]: the instance of the current turn of the loop
  asked,    \* when the fetch in progress was sent (there is one at a time)
  latest    \* ghost: when the last Collect began

cacheVars == <<now, content, status, wanted, result>>
loopVars  == <<pc, begun, todo, cur, asked, latest>>
vars == <<cacheVars, loopVars>>

\* The cached values, each with the time at which SAP was asked for it: nil after
\* an error, an instance list, a process list (of which only matters whether it
\* shows the process that a recorder looks for).
Answers(bodies) == {[body |-> b, asof |-> asked] : b \in bodies}
Nil           == {"nil"}
InstanceLists == SUBSET Instances \ {{}}
ProcessLists  == {{"wanted"}, {}}
Cached == [body : {Nil} \cup InstanceLists \cup ProcessLists, asof : 0..MaxTime]

\* Mutant: a ttl of 0 reaches the cache, where it means "never expires".
TtlAsConfigured == CacheTTL

\* GetCachedInstanceList and GetCachedProcessList
Ttl == IF CacheTTL = 0 THEN DefaultTTL ELSE CacheTTL

Cache == INSTANCE ReadThroughCache
           WITH Callers <- Recorders, Keys <- Instances \cup {ListKey},
                Values <- Cached, TTLs <- {Ttl}

Deadline(p) == begun[p] + Timeout

\* Mutant: the context has no deadline.
InTimeAlways(p) == TRUE

InTime(p) == now < Deadline(p)
Busy(p)   == pc[p] # "idle"

Init ==
  /\ Cache!Init
  /\ pc     = [p \in Recorders |-> "idle"]
  /\ begun  = [p \in Recorders |-> 0]
  /\ todo   = [p \in Recorders |-> {}]
  /\ cur    = [p \in Recorders |-> None]
  /\ asked  = 0
  /\ latest = 0

Goto(p, label) == pc' = [pc EXCEPT ![p] = label]

\* Collect returns: its locals go out of scope.
Return(p) ==
  /\ Goto(p, "idle")
  /\ begun' = [begun EXCEPT ![p] = 0]

\* Collect: context.WithTimeout, then GetCachedInstanceList.
Collect(p) ==
  /\ ~ Busy(p)
  /\ now + Timeout =< MaxTime
  /\ Cache!Invoke(p, ListKey)
  /\ Goto(p, "list")
  /\ begun' = [begun EXCEPT ![p] = now]
  /\ latest' = now
  /\ UNCHANGED <<todo, cur, asked>>
-----------------------------------------------------------------------------
(* The cache at work for p.                                                *)

Serve(p) == Cache!Hit(p) /\ UNCHANGED loopVars

Fetch(p) ==
  /\ Cache!Load(p)
  /\ asked' = now
  /\ UNCHANGED <<pc, begun, todo, cur, latest>>

\* GetAllInstances or GetProcesses succeeded: the calls obey p's deadline.
FetchOK(p) ==
  /\ InTime(p)
  /\ \E v \in Answers(IF pc[p] = "list" THEN InstanceLists ELSE ProcessLists) :
        Cache!Loaded(p, v, Ttl)
  /\ asked' = 0
  /\ UNCHANGED <<pc, begun, todo, cur, latest>>

\* It failed: refused by SAP, or p's context has expired, be it while p waited
\* for the lock.  Either way nil is stored, with the full ttl.
FetchFail(p) ==
  /\ \E v \in Answers({Nil}) : Cache!Loaded(p, v, Ttl)
  /\ asked' = 0
  /\ UNCHANGED <<pc, begun, todo, cur, latest>>
-----------------------------------------------------------------------------
(* The loop over the instances.                                            *)

\* The list has arrived.  nil: the Collect ends with an error.
GotList(p) ==
  /\ pc[p] = "list"
  /\ status[p] = "idle"
  /\ IF result[p].body = Nil
     THEN Return(p) /\ UNCHANGED todo
     ELSE /\ Goto(p, "loop")
          /\ todo' = [todo EXCEPT ![p] = result[p].body]
          /\ UNCHANGED begun
  /\ UNCHANGED <<cacheVars, cur, asked, latest>>

\* A turn of the loop: what it does first with instance i.
Visit(p, i) ==
  /\ pc[p] = "loop"
  /\ i \in todo[p]
  /\ todo' = [todo EXCEPT ![p] = @ \ {i}]
  /\ \/ /\ Role[p] = "instances"                 \* emitted from the list
        /\ UNCHANGED <<cacheVars, pc, cur>>
     \/ /\ Role[p] \in {"processes", "queues"}
        /\ Cache!Invoke(p, i)
        /\ Goto(p, "procs")
        /\ cur' = [cur EXCEPT ![p] = i]
     \/ /\ Role[p] = "tables"
        /\ Goto(p, "call")
        /\ cur' = [cur EXCEPT ![p] = i]
        /\ UNCHANGED cacheVars
     \/ /\ Role[p] = "tables"                    \* not an ABAP instance
        /\ UNCHANGED <<cacheVars, pc, cur>>
  /\ UNCHANGED <<begun, asked, latest>>

\* The turn ends, with or without metrics of the instance.
Continue(p) == Goto(p, "loop") /\ cur' = [cur EXCEPT ![p] = None]

\* Mutant: the error of one instance ends the Collect (return for continue).
GotProcessesOrReturn(p) ==
  /\ pc[p] = "procs"
  /\ status[p] = "idle"
  /\ \/ /\ result[p].body = Nil
        /\ Return(p)
        /\ cur' = [cur EXCEPT ![p] = None]
     \/ /\ result[p].body # Nil
        /\ IF Role[p] = "queues" /\ result[p].body = {"wanted"}
           THEN Goto(p, "call") /\ UNCHANGED cur
           ELSE Continue(p)
        /\ UNCHANGED begun
  /\ UNCHANGED <<cacheVars, todo, asked, latest>>

\* The process list of the instance has arrived, or nil.
GotProcesses(p) ==
  /\ pc[p] = "procs"
  /\ status[p] = "idle"
  /\ IF Role[p] = "queues" /\ result[p].body = {"wanted"}
     THEN Goto(p, "call") /\ UNCHANGED cur
     ELSE Continue(p)
  /\ UNCHANGED <<cacheVars, begun, todo, asked, latest>>

\* The direct call (GetQueueStatistic, EnqGetStatistic, ABAPGetWPTable, GetAlerts)
CallEnds(p) ==
  /\ pc[p] = "call"
  /\ Continue(p)
  /\ UNCHANGED <<cacheVars, begun, todo, asked, latest>>

Finish(p) ==
  /\ pc[p] = "loop"
  /\ todo[p] = {}
  /\ Return(p)
  /\ UNCHANGED <<cacheVars, todo, cur, asked, latest>>
-----------------------------------------------------------------------------
\* Mutant: the SOAP calls do not take the context.
WaitsForSapForever(p) == status[p] = "loading" \/ pc[p] = "call"

\* p waits for SAP, which the deadline of its context bounds.
WaitsForSap(p) == InTime(p) /\ (status[p] = "loading" \/ pc[p] = "call")

\* p waits for the lock that somebody holds during a fetch.  A hit waits for it
\* too: RLock queues behind the writer.
WaitsForLock(p) == status[p] = "pending" /\ \E q \in Recorders : status[q] = "loading"

Tick ==
  /\ now < MaxTime
  /\ \A p \in Recorders : Busy(p) => WaitsForSap(p) \/ WaitsForLock(p)
  /\ Cache!Tick
  /\ UNCHANGED loopVars

\* What p does by itself, and what it does when its context has expired.
Run(p) ==
  \/ Serve(p) \/ GotList(p) \/ (\E i \in Instances : Visit(p, i))
  \/ GotProcesses(p) \/ Finish(p)
Expire(p) == ~ InTime(p) /\ (FetchFail(p) \/ CallEnds(p))

Next ==
  \/ \E p \in Recorders :
       Collect(p) \/ Run(p) \/ Fetch(p) \/ FetchOK(p) \/ FetchFail(p) \/ CallEnds(p)
  \/ Tick

Spec == Init /\ [][Next]_vars

\* Every runnable goroutine runs, an expired context makes its call fail, the
\* lock of the cache is granted in the end (CacheManager) and time passes.  SAP
\* itself need not ever answer.
Fairness ==
  /\ SF_vars(Tick)
  /\ \A p \in Recorders : WF_vars(Run(p)) /\ WF_vars(Expire(p)) /\ SF_vars(Fetch(p))

FairSpec == Spec /\ Fairness
-----------------------------------------------------------------------------
\* p's Collect is about to use what the cache returned to it.
Uses(p) == pc[p] \in {"list", "procs"} /\ status[p] = "idle"

\* A Collect never uses an answer, or an error, that is older at its beginning
\* than cache_ttl plus scrape_timeout: an item is stored less than a timeout after
\* SAP was asked and served for less than a ttl, whoever asked for it.
Freshness == \A p \in Recorders : Uses(p) => begun[p] - result[p].asof < Ttl + Timeout

\* The waits for the lock do not add up: a goroutine that waits for it does not
\* look at its own deadline, yet no Collect is running any more when a timeout
\* has passed since the last one began.
NoPileUp ==
  (\E p \in Recorders : Busy(p)) => now =< latest + Timeout

\* A Collect that got its list ends only after it has visited every instance,
\* whatever failed for the others.
NoneSkipped == \A p \in Recorders : ~ Busy(p) => todo[p] = {}

\* "The data sources are read every time an HTTP request comes, and the collected
\* metrics are not shared: their lifecycle corresponds with the request's."
\* (doc/design.md:22)
ReadPerRequest == \A p \in Recorders : Uses(p) => result[p].asof >= begun[p]

\* Every Collect ends, although SAP may never answer and a hit may have to wait
\* for the fetch of another collector.
CollectEnds == \A p \in Recorders : Busy(p) ~> ~ Busy(p)
=============================================================================
