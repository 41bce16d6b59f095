--------------------------- MODULE CachedInstances ---------------------------
(***************************************************************************)
(* GetCachedInstanceList: InstanceList behind the cache.  The Collects     *)
(* share one cached list; the one that finds none runs GetAllInstances     *)
(* while it holds the cache lock, and stores what comes of it, an error as *)
(* nil.                                                                    *)
(*                                                                         *)
(* InstanceList takes it for granted that one call runs at a time and lets *)
(* anybody read the configuration at any time.  Here the cache, taken for  *)
(* the ReadThroughCache that CacheManager implements, decides who runs it. *)
(* The Readers of InstanceList are the Collects, and one that is inside    *)
(* GetOrSet reads no options.                                              *)
(***************************************************************************)
EXTENDS InstanceList

CONSTANTS
  TTLs,  \* what cache_ttl may be; 0 stands for 30s and is none of them
  Nil    \* the value that is cached for an error

ASSUME CachedInstancesAssumption == TTLs \subseteq Int \ {0} /\ Nil # None

VARIABLES now, content, status, wanted, result  \* of ReadThroughCache

cacheVars == <<now, content, status, wanted, result>>
allVars   == <<vars, cacheVars>>

Key == "InstanceInfo"

C == INSTANCE ReadThroughCache
       WITH Callers <- Readers, Keys <- {Key}, Values <- Seq(Results) \cup {Nil}

\* A Collect calls; it is in the middle of no other read.
GetCachedInstanceList(p) ==
  /\ Alive /\ p \notin reading
  /\ C!Invoke(p, Key)
  /\ UNCHANGED vars

\* An unexpired value, a nil included, is what it gets.
Hit(p) == Alive /\ C!Hit(p) /\ UNCHANGED vars

\* Or else it runs the set function, under the lock.
SetFunc(p) == C!Load(p) /\ GetAllInstances

\* GetAllInstances has returned; an error is stored like a list.
SetFuncReturns(p) ==
  /\ status[p] = "loading" /\ main = "idle"
  /\ \E ttl \in TTLs : C!Loaded(p, IF list = None THEN Nil ELSE list, ttl)
  /\ UNCHANGED vars

\* The steps of GetAllInstances.
Listing ==
  /\ \/ GetSystemInstanceList \/ ReturnError \/ Spawn
     \/ \E i \in Instances : StartRead(i) \/ EndRead(i) \/ CallEnds(i)
     \/ Receive \/ WriteSid \/ Return \/ Crash
  /\ UNCHANGED cacheVars

\* An option is read by a Collect, which is not in GetOrSet meanwhile.
CachedConfigRead(p) == status[p] = "idle" /\ ConfigRead(p) /\ UNCHANGED cacheVars

\* The clock, in a form that leaves finitely many states: every time moves one unit
\* back, now stands still.  What has expired stays so; exp = 0 is no time.
Tick ==
  /\ Alive
  /\ content' = [content EXCEPT ![Key].exp = IF @ > now THEN @ - 1 ELSE @]
  /\ UNCHANGED <<vars, now, status, wanted, result>>

CachedNext ==
  \/ \E p \in Readers :
       GetCachedInstanceList(p) \/ Hit(p) \/ SetFunc(p) \/ SetFuncReturns(p)
         \/ CachedConfigRead(p)
  \/ Listing \/ Tick

CachedInit == Init /\ C!Init

CachedSpec == CachedInit /\ [][CachedNext]_allVars
-----------------------------------------------------------------------------
(* Properties.                                                              *)

Lists == {content[Key].value} \cup {result[p] : p \in Readers}
Served == {l \in Lists : l \notin {None, Nil}}

\* Once a Collect has a list that shows a SID, no later refresh can end the process
\* by writing sap_sid while another Collect reads the configuration
\* (current_instance.go:136), however often instances fail.
NoCrashOnceShown ==
  main = "crashed" => \A l \in Served : \A n \in DOMAIN l : l[n].sid = NoSid
=============================================================================
