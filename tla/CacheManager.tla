---------------------------- MODULE CacheManager ----------------------------
(***************************************************************************)
(* cache/manager.go: the cache that every collector goroutine shares.      *)
(*                                                                         *)
(* One sync.RWMutex guards the whole map.  GetOrSet first tries the read   *)
(* path (getInternal: read lock, copy the item pointer, unlock, and only   *)
(* then compare its expiration with the clock).  On a miss it takes the    *)
(* write lock, looks again, and if the item is still missing or expired    *)
(* calls the caller's set function WHILE HOLDING THE LOCK, stores what it  *)
(* produced, and unlocks.  Each step below is a stretch of code between    *)
(* two points at which another goroutine can interfere.                    *)
(*                                                                         *)
(* The set functions (GetCachedInstanceList, GetCachedProcessList) do SOAP *)
(* calls; here they take any time and produce any value and ttl.  Values   *)
(* contains the nil that they produce on an error: the cache treats it as  *)
(* any other value.                                                        *)
(***************************************************************************)
EXTENDS Integers, FiniteSets

CONSTANTS
  Callers,       \* the goroutines that call GetOrSet
  Keys,          \* "InstanceInfo" and one "ProcessList_<url>" per instance
  Values,        \* what a set function may produce, nil included
  TTLs,          \* the ttl values a set function may return (a Duration: any sign)
  None,          \* absence: of a value, of a key, of a result, of a writer
  MaxTime,       \* bound: the clock stops there
  StatsModulus   \* the counters wrap at this value (2^64 in the code)

ASSUME CacheAssumption ==
  /\ TTLs \subseteq Int
  /\ MaxTime \in Nat \ {0}
  /\ StatsModulus \in Nat \ {0}
  /\ None \notin Callers \cup Keys \cup Values

VARIABLES
  now,       \* time.Now().UnixNano(), assumed not to step back
  cache,     \* cm.cache: key -> item, or NoItem when the key is not in the map
  writer,    \* cm.mu: the goroutine that announced or holds the write lock
  readers,   \* cm.mu: the goroutines that hold the read lock
  pc,        \* pc[p]: where p stands in GetOrSet
  key,       \* key[p]: the argument of p's call in progress
  item,      \* item[p]: the item pointer that getInternal copied
  result,    \* result[p]: what p's last call returned
  stats,     \* cm.stats
  calls      \* ghost: the number of calls begun, modulo StatsModulus

vars == <<now, cache, writer, readers, pc, key, item, result, stats, calls>>

\* Every item is a fresh CacheItem that is never mutated once stored, so the
\* pointer getInternal copies is modelled by the record it points to.
Items  == [value : Values, exp : Nat]
NoItem == [value |-> None, exp |-> 0]
Found(it) == it.value # None

Add(counter) == (counter + 1) % StatsModulus
-----------------------------------------------------------------------------
(* Expiration, as the two places that test it write it.                    *)

\* setInternal: a ttl that is not positive means "never expires".
Expiration(ttl) == IF ttl > 0 THEN now + ttl ELSE 0

\* Mutants: an item still lives at its expiration; no expiration at all.
LiveUnlockedLate(it)  == Found(it) /\ ~ (it.exp > 0 /\ it.exp < now)
LiveUnlockedFound(it) == Found(it)

\* getInternal: found, and not (Expiration > 0 && Expiration <= now).
LiveUnlocked(it) == Found(it) /\ ~ (it.exp > 0 /\ it.exp =< now)

\* Mutant: no double check.
LiveLockedNever(it)  == FALSE

\* The double check: found, and (Expiration == 0 || Expiration > now).
LiveLocked(it) == Found(it) /\ (it.exp = 0 \/ it.exp > now)
-----------------------------------------------------------------------------
Init ==
  /\ now = 1
  /\ cache   = [k \in Keys |-> NoItem]
  /\ writer  = None
  /\ readers = {}
  /\ pc      = [p \in Callers |-> "idle"]
  /\ key     = [p \in Callers |-> None]
  /\ item    = [p \in Callers |-> NoItem]
  /\ result  = [p \in Callers |-> None]
  /\ stats   = [hits |-> 0, misses |-> 0, sets |-> 0, expired |-> 0]
  /\ calls   = 0

Goto(p, label) == pc' = [pc EXCEPT ![p] = label]

\* GetOrSet returns v: its locals go out of scope.
Locals(p, v) ==
  /\ key'    = [key EXCEPT ![p] = None]
  /\ item'   = [item EXCEPT ![p] = NoItem]
  /\ result' = [result EXCEPT ![p] = v]

\* Mutant: the readers that blocked are not woken up.
UnlockForgetsReaders(p, v) ==
  /\ writer' = None
  /\ Goto(p, "idle")
  /\ Locals(p, v)
  /\ UNCHANGED readers

\* The deferred Unlock of a returning p.  The goroutines that blocked in RLock
\* meanwhile all get the read lock before any later writer.
UnlockAndReturn(p, v) ==
  LET blocked == {q \in Callers : pc[q] = "rwait"}
  IN  /\ writer'  = None
      /\ readers' = blocked
      /\ pc' = [q \in Callers |-> IF q = p THEN "idle"
                                  ELSE IF q \in blocked THEN "read" ELSE pc[q]]
      /\ Locals(p, v)

GetOrSet(p, k) ==
  /\ pc[p] = "idle"
  /\ Goto(p, "rlock")
  /\ key'    = [key EXCEPT ![p] = k]
  /\ result' = [result EXCEPT ![p] = None]
  /\ calls'  = Add(calls)
  /\ UNCHANGED <<now, cache, writer, readers, item, stats>>

\* cm.mu.RLock() in getInternal: granted at once, unless a writer has announced
\* itself; then p blocks until that writer unlocks.
RLock(p) ==
  /\ pc[p] = "rlock"
  /\ \/ /\ writer = None
        /\ readers' = readers \cup {p}
        /\ Goto(p, "read")
     \/ /\ writer # None
        /\ Goto(p, "rwait")
        /\ UNCHANGED readers
  /\ UNCHANGED <<now, cache, writer, key, item, result, stats, calls>>

\* item, found := cm.cache[key]; cm.mu.RUnlock()
ReadItem(p) ==
  /\ pc[p] = "read"
  /\ item'    = [item EXCEPT ![p] = cache[key[p]]]
  /\ readers' = readers \ {p}
  /\ Goto(p, "check")
  /\ UNCHANGED <<now, cache, writer, key, result, stats, calls>>

\* getInternal found a live item: GetOrSet returns its value.
CheckHit(p) ==
  /\ pc[p] = "check"
  /\ LiveUnlocked(item[p])
  /\ stats' = [stats EXCEPT !.hits = Add(@)]
  /\ Goto(p, "idle")
  /\ Locals(p, item[p].value)
  /\ UNCHANGED <<now, cache, writer, readers, calls>>

\* getInternal returned false: GetOrSet goes for the write lock.
CheckMiss(p) ==
  /\ pc[p] = "check"
  /\ ~ LiveUnlocked(item[p])
  /\ Goto(p, "lock")
  /\ UNCHANGED <<now, cache, writer, readers, key, item, result, stats, calls>>

\* cm.mu.Lock(), first half: p wins the writers' mutex and announces itself.
Lock(p) ==
  /\ pc[p] = "lock"
  /\ writer = None
  /\ writer' = p
  /\ Goto(p, "drain")
  /\ UNCHANGED <<now, cache, readers, key, item, result, stats, calls>>

\* cm.mu.Lock(), second half: the readers that were inside have left.
Drain(p) ==
  /\ pc[p] = "drain"
  /\ readers = {}
  /\ Goto(p, "recheck")
  /\ UNCHANGED <<now, cache, writer, readers, key, item, result, stats, calls>>

\* Mutant: this path is not counted.
RecheckHitUncounted(p) ==
  /\ pc[p] = "recheck"
  /\ LiveLocked(cache[key[p]])
  /\ UnlockAndReturn(p, cache[key[p]].value)
  /\ UNCHANGED <<now, cache, stats, calls>>

\* Somebody refreshed the item while p waited for the lock.
RecheckHit(p) ==
  /\ pc[p] = "recheck"
  /\ LiveLocked(cache[key[p]])
  /\ stats' = [stats EXCEPT !.hits = Add(@)]
  /\ UnlockAndReturn(p, cache[key[p]].value)
  /\ UNCHANGED <<now, cache, calls>>

\* Mutant: the lock is released around the set function.
RecheckMissUnlocks(p) ==
  /\ pc[p] = "recheck"
  /\ ~ LiveLocked(cache[key[p]])
  /\ writer' = None
  /\ Goto(p, "fetch")
  /\ UNCHANGED <<now, cache, readers, key, item, result, stats, calls>>

\* Still missing or expired: p calls its set function under the write lock.
RecheckMiss(p) ==
  /\ pc[p] = "recheck"
  /\ ~ LiveLocked(cache[key[p]])
  /\ stats' = IF Found(cache[key[p]]) THEN [stats EXCEPT !.expired = Add(@)]
              ELSE stats
  /\ Goto(p, "fetch")
  /\ UNCHANGED <<now, cache, writer, readers, key, item, result, calls>>

\* The set function returned v and ttl: setInternal, then the deferred Unlock.
Store(p, v, ttl) ==
  /\ pc[p] = "fetch"
  /\ cache' = [cache EXCEPT ![key[p]] = [value |-> v, exp |-> Expiration(ttl)]]
  /\ stats' = [stats EXCEPT !.sets = Add(@), !.misses = Add(@)]
  /\ UnlockAndReturn(p, v)
  /\ UNCHANGED <<now, calls>>

Tick ==
  /\ now < MaxTime
  /\ now' = now + 1
  /\ UNCHANGED <<cache, writer, readers, pc, key, item, result, stats, calls>>

\* A step of p's goroutine inside a call, other than winning the lock.
Advance(p) ==
  \/ RLock(p) \/ ReadItem(p) \/ CheckHit(p) \/ CheckMiss(p)
  \/ Drain(p) \/ RecheckHit(p) \/ RecheckMiss(p)
  \/ \E v \in Values, ttl \in TTLs : Store(p, v, ttl)

Next ==
  \/ \E p \in Callers : (\E k \in Keys : GetOrSet(p, k)) \/ Lock(p) \/ Advance(p)
  \/ Tick

Spec == Init /\ [][Next]_vars

\* The Go scheduler runs every runnable goroutine, every set function returns
\* (its SOAP calls carry a deadline), and sync.Mutex hands the lock to a waiter
\* that has starved, so a writer that can win again and again does win.
Fairness == \A p \in Callers : WF_vars(Advance(p)) /\ SF_vars(Lock(p))

FairSpec == Spec /\ Fairness
-----------------------------------------------------------------------------
TypeOK ==
  /\ now \in Nat \ {0}
  /\ cache \in [Keys -> Items \cup {NoItem}]
  /\ writer \in Callers \cup {None}
  /\ readers \in SUBSET Callers
  /\ pc \in [Callers -> {"idle", "rlock", "rwait", "read", "check", "lock",
                         "drain", "recheck", "fetch"}]
  /\ key \in [Callers -> Keys \cup {None}]
  /\ \A p \in Callers : pc[p] # "idle" => key[p] \in Keys
  /\ item \in [Callers -> Items \cup {NoItem}]
  /\ result \in [Callers -> Values \cup {None}]
  /\ stats \in [hits : Nat, misses : Nat, sets : Nat, expired : Nat]
  /\ calls \in Nat
-----------------------------------------------------------------------------
(* Safety.                                                                 *)

\* What "unexpired" means to a user of the cache, whoever asks.
Servable(it) == it.value # None /\ (it.exp = 0 \/ now < it.exp)

\* While a goroutine looks at the map to decide on a refresh, calls its set
\* function or stores the outcome, it owns the lock and no reader is inside;
\* and a reader waits only for a writer that is there to wake it up.
\* (manager.go:96-117: the set function runs between Lock and Unlock.)
LockDiscipline ==
  /\ \A p \in Callers : pc[p] \in {"recheck", "fetch"} => writer = p /\ readers = {}
  /\ \A p \in Callers : pc[p] = "rwait" => writer # None

\* getInternal compares the expiration after it released the read lock
\* (manager.go:56-68).  A copy that is still live at that point is still the
\* content of the map, whatever the writers did in between: no caller is
\* served a value that has already been replaced.
HeldCopyCurrent ==
  \A p \in Callers :
    pc[p] = "check" /\ LiveUnlocked(item[p]) => item[p] = cache[key[p]]

\* A goroutine calls its set function only when nobody can be served from the
\* map: SAP is not asked again for what is still live (the double check,
\* manager.go:99-109), however many goroutines missed at the same time.
FetchOnlyWhenDead ==
  \A p \in Callers : pc[p] = "fetch" => ~ Servable(cache[key[p]])

\* No step replaces a live item: what a collector read stays the answer for
\* every other collector until it expires.
LiveItemStable ==
  [][\A k \in Keys : Servable(cache[k]) => cache'[k] = cache[k]]_vars

\* Every call is counted once, as a hit or as a miss, on whichever of the three
\* paths it returns (manager.go:91, 103, 115).
StatsConserved ==
  (stats.hits + stats.misses + Cardinality({p \in Callers : pc[p] # "idle"}))
    % StatsModulus = calls

\* The cache is an atomic read-through cache.
StatusAt(label) ==
  CASE label = "idle"  -> "idle"
    [] label = "fetch" -> "loading"
    [] OTHER           -> "pending"

AbstractStatus == [p \in Callers |-> StatusAt(pc[p])]

Abstract == INSTANCE ReadThroughCache
              WITH content <- cache, status <- AbstractStatus, wanted <- key

\* Read lock, copy, late expiration test, write lock and double check together
\* implement the atomic cache that the collectors assume.
ImplementsReadThroughCache == Abstract!Spec
-----------------------------------------------------------------------------
(* Liveness.                                                               *)

\* Every call of GetOrSet returns, although one goroutine can hold the only
\* lock during its SOAP calls: readers blocked by it are woken up, and a writer
\* is not overtaken for ever.
EveryCallReturns == \A p \in Callers : pc[p] # "idle" ~> pc[p] = "idle"
=============================================================================
