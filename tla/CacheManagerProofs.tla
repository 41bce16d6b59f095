------------------------- MODULE CacheManagerProofs -------------------------
(***************************************************************************)
(* Proofs about cache/manager.go as CacheManager models it, for any number *)
(* of goroutines, keys and values, any ttl and an unbounded run.           *)
(***************************************************************************)
EXTENDS CacheManager, FiniteSetTheorems, TLAPS

\* Who stands where determines the state of the lock, and back.
LockState ==
  /\ \A p \in Callers : writer = p <=> pc[p] \in {"drain", "recheck", "fetch"}
  /\ \A p \in Callers : p \in readers <=> pc[p] = "read"

\* The inductive invariant: LockDiscipline alone forgets who the writer is, and
\* HeldCopyCurrent needs FetchOnlyWhenDead to survive a Store.
IInv == TypeOK /\ LockState /\ LockDiscipline /\ HeldCopyCurrent /\ FetchOnlyWhenDead
-----------------------------------------------------------------------------
\* The expiration is tested in two places that are written differently
\* (manager.go:65 and manager.go:100); they agree on every item.
LEMMA ExpiryTestsAgree ==
  ASSUME now \in Nat, NEW it \in Items \cup {NoItem}
  PROVE  /\ LiveUnlocked(it) <=> Servable(it)
         /\ LiveLocked(it) <=> Servable(it)
BY SMT DEF Items, NoItem, LiveUnlocked, LiveLocked, Servable, Found

\* setInternal never stores an expiration that is already over.
LEMMA ExpirationType ==
  ASSUME now \in Nat, NEW ttl \in Int
  PROVE  Expiration(ttl) \in Nat
BY SMT DEF Expiration

LEMMA AddType == ASSUME NEW n \in Nat PROVE Add(n) \in Nat
BY CacheAssumption, Z3 DEF Add, CacheAssumption

\* An item that is not in the map is not served; None is no caller, key or value.
LEMMA NoneApart ==
  /\ None \notin Callers
  /\ None \notin Keys
  /\ None \notin Values
  /\ ~ Servable(NoItem)
BY CacheAssumption, SMT DEF CacheAssumption, Servable, NoItem
-----------------------------------------------------------------------------
LEMMA InitIInv == Init => IInv
BY NoneApart, SMT DEF Init, IInv, TypeOK, LockState, LockDiscipline, HeldCopyCurrent,
   FetchOnlyWhenDead, Items, NoItem, LiveUnlocked, Found

\* Time makes items expire; it brings none back.
LEMMA TimeOnlyExpires ==
  ASSUME now \in Nat, now' = now + 1, NEW it \in Items \cup {NoItem}
  PROVE  /\ LiveUnlocked(it)' => LiveUnlocked(it)
         /\ Servable(it)' => Servable(it)
BY SMT DEF Items, NoItem, LiveUnlocked, Servable, Found

LEMMA StatsType ==
  ASSUME NEW s \in [hits : Nat, misses : Nat, sets : Nat, expired : Nat]
  PROVE  /\ [s EXCEPT !.hits = Add(@)]
              \in [hits : Nat, misses : Nat, sets : Nat, expired : Nat]
         /\ [s EXCEPT !.expired = Add(@)]
              \in [hits : Nat, misses : Nat, sets : Nat, expired : Nat]
         /\ [s EXCEPT !.sets = Add(@), !.misses = Add(@)]
              \in [hits : Nat, misses : Nat, sets : Nat, expired : Nat]
<1> DEFINE Counters == [hits : Nat, misses : Nat, sets : Nat, expired : Nat]
<1>1. /\ Add(s.hits) \in Nat /\ Add(s.expired) \in Nat
      /\ Add(s.sets) \in Nat /\ Add(s.misses) \in Nat
  BY AddType
<1>2. ASSUME NEW n \in Nat
      PROVE  /\ [s EXCEPT !.hits = n] \in Counters
             /\ [s EXCEPT !.expired = n] \in Counters
  OBVIOUS
<1>3. ASSUME NEW n \in Nat, NEW m \in Nat
      PROVE  [s EXCEPT !.sets = n, !.misses = m] \in Counters
  OBVIOUS
<1> QED
  BY <1>1, <1>2, <1>3

\* Type correctness, one case per action.
LEMMA StepType == IInv /\ [Next]_vars => TypeOK'
<1> SUFFICES ASSUME IInv, [Next]_vars PROVE TypeOK'
  OBVIOUS
<1> USE DEF IInv, TypeOK, Goto, Locals
<1>n. now \in Nat /\ NoItem \in Items \cup {NoItem}
  BY SMT
<1>1. ASSUME NEW p \in Callers, NEW k \in Keys, GetOrSet(p, k) PROVE TypeOK'
  <2>1. Add(calls) \in Nat
    BY AddType
  <2> QED
    BY <1>1, <2>1, SMT DEF GetOrSet
<1>2. ASSUME NEW p \in Callers, RLock(p) PROVE TypeOK'
  BY <1>2, SMT DEF RLock
<1>3. ASSUME NEW p \in Callers, ReadItem(p) PROVE TypeOK'
  BY <1>3, SMT DEF ReadItem
<1>4. ASSUME NEW p \in Callers, CheckHit(p) PROVE TypeOK'
  <2>1. item[p].value \in Values
    BY <1>4, SMT DEF CheckHit, LiveUnlocked, Found, Items, NoItem
  <2>2. stats' \in [hits : Nat, misses : Nat, sets : Nat, expired : Nat]
    BY <1>4, StatsType DEF CheckHit
  <2> QED
    BY <1>4, <2>1, <2>2, SMT DEF CheckHit
<1>5. ASSUME NEW p \in Callers, CheckMiss(p) PROVE TypeOK'
  BY <1>5, SMT DEF CheckMiss
<1>6. ASSUME NEW p \in Callers, Lock(p) PROVE TypeOK'
  BY <1>6, SMT DEF Lock
<1>7. ASSUME NEW p \in Callers, Drain(p) PROVE TypeOK'
  BY <1>7, SMT DEF Drain
<1>8. ASSUME NEW p \in Callers, RecheckHit(p) PROVE TypeOK'
  <2>1. cache[key[p]].value \in Values
    BY <1>8, SMT DEF RecheckHit, LiveLocked, Found, Items, NoItem
  <2>2. stats' \in [hits : Nat, misses : Nat, sets : Nat, expired : Nat]
    BY <1>8, StatsType DEF RecheckHit
  <2> QED
    BY <1>8, <2>1, <2>2, SMT DEF RecheckHit, UnlockAndReturn
<1>9. ASSUME NEW p \in Callers, RecheckMiss(p) PROVE TypeOK'
  <2>1. stats' \in [hits : Nat, misses : Nat, sets : Nat, expired : Nat]
    BY <1>9, StatsType DEF RecheckMiss
  <2> QED
    BY <1>9, <2>1, SMT DEF RecheckMiss
<1>10. ASSUME NEW p \in Callers, NEW v \in Values, NEW ttl \in TTLs, Store(p, v, ttl)
       PROVE  TypeOK'
  <2>1. [value |-> v, exp |-> Expiration(ttl)] \in Items
    BY <1>n, ExpirationType, CacheAssumption, SMT DEF Items, CacheAssumption
  <2>2. stats' \in [hits : Nat, misses : Nat, sets : Nat, expired : Nat]
    BY <1>10, StatsType DEF Store
  <2>3. cache' \in [Keys -> Items \cup {NoItem}]
    BY <1>10, <2>1, SMT DEF Store
  <2> QED
    BY <1>10, <2>2, <2>3, SMT DEF Store, UnlockAndReturn
<1>11. CASE Tick
  BY <1>11, SMT DEF Tick
<1>12. CASE UNCHANGED vars
  BY <1>12, SMT DEF vars
<1> QED
  BY <1>1, <1>2, <1>3, <1>4, <1>5, <1>6, <1>7, <1>8, <1>9, <1>10, <1>11, <1>12
     DEF Next, Advance

\* The lock, one case per action.
LEMMA StepLock == IInv /\ [Next]_vars => LockState' /\ LockDiscipline'
<1> SUFFICES ASSUME IInv, [Next]_vars PROVE LockState' /\ LockDiscipline'
  OBVIOUS
<1> USE NoneApart DEF IInv, TypeOK, LockState, LockDiscipline, Goto, Locals
<1>1. ASSUME NEW p \in Callers, NEW k \in Keys, GetOrSet(p, k)
      PROVE  LockState' /\ LockDiscipline'
  BY <1>1, SMT DEF GetOrSet
<1>2. ASSUME NEW p \in Callers, RLock(p) PROVE LockState' /\ LockDiscipline'
  BY <1>2, SMT DEF RLock
<1>3. ASSUME NEW p \in Callers, ReadItem(p) PROVE LockState' /\ LockDiscipline'
  BY <1>3, SMT DEF ReadItem
<1>4. ASSUME NEW p \in Callers, CheckHit(p) PROVE LockState' /\ LockDiscipline'
  BY <1>4, SMT DEF CheckHit
<1>5. ASSUME NEW p \in Callers, CheckMiss(p) PROVE LockState' /\ LockDiscipline'
  BY <1>5, SMT DEF CheckMiss
<1>6. ASSUME NEW p \in Callers, Lock(p) PROVE LockState' /\ LockDiscipline'
  BY <1>6, SMT DEF Lock
<1>7. ASSUME NEW p \in Callers, Drain(p) PROVE LockState' /\ LockDiscipline'
  BY <1>7, SMT DEF Drain
<1>8. ASSUME NEW p \in Callers, RecheckHit(p) PROVE LockState' /\ LockDiscipline'
  BY <1>8, SMT DEF RecheckHit, UnlockAndReturn
<1>9. ASSUME NEW p \in Callers, RecheckMiss(p) PROVE LockState' /\ LockDiscipline'
  BY <1>9, SMT DEF RecheckMiss
<1>10. ASSUME NEW p \in Callers, NEW v \in Values, NEW ttl \in TTLs, Store(p, v, ttl)
       PROVE  LockState' /\ LockDiscipline'
  BY <1>10, SMT DEF Store, UnlockAndReturn
<1>11. CASE Tick
  BY <1>11, SMT DEF Tick
<1>12. CASE UNCHANGED vars
  BY <1>12, SMT DEF vars
<1> HIDE DEF IInv, TypeOK, LockState, LockDiscipline, Goto, Locals
<1> QED
  BY <1>1, <1>2, <1>3, <1>4, <1>5, <1>6, <1>7, <1>8, <1>9, <1>10, <1>11, <1>12
     DEF Next, Advance

\* The copies held by readers, and what justifies a fetch, one case per action.
LEMMA StepContent == IInv /\ [Next]_vars => HeldCopyCurrent' /\ FetchOnlyWhenDead'
<1> SUFFICES ASSUME IInv, [Next]_vars PROVE HeldCopyCurrent' /\ FetchOnlyWhenDead'
  OBVIOUS
<1> USE DEF IInv, TypeOK, HeldCopyCurrent, FetchOnlyWhenDead, Goto, Locals
<1>a. ASSUME NEW it \in Items \cup {NoItem}
      PROVE  /\ LiveUnlocked(it) <=> Servable(it)
             /\ LiveLocked(it) <=> Servable(it)
  BY ExpiryTestsAgree
<1>1. ASSUME NEW p \in Callers, NEW k \in Keys, GetOrSet(p, k)
      PROVE  HeldCopyCurrent' /\ FetchOnlyWhenDead'
  BY <1>1, SMT DEF GetOrSet, LiveUnlocked, Servable
<1>2. ASSUME NEW p \in Callers, RLock(p) PROVE HeldCopyCurrent' /\ FetchOnlyWhenDead'
  BY <1>2, SMT DEF RLock, LiveUnlocked, Servable
<1>3. ASSUME NEW p \in Callers, ReadItem(p) PROVE HeldCopyCurrent' /\ FetchOnlyWhenDead'
  BY <1>3, SMT DEF ReadItem, LiveUnlocked, Servable
<1>4. ASSUME NEW p \in Callers, CheckHit(p) PROVE HeldCopyCurrent' /\ FetchOnlyWhenDead'
  BY <1>4, SMT DEF CheckHit, LiveUnlocked, Servable
<1>5. ASSUME NEW p \in Callers, CheckMiss(p) PROVE HeldCopyCurrent' /\ FetchOnlyWhenDead'
  BY <1>5, SMT DEF CheckMiss, LiveUnlocked, Servable
<1>6. ASSUME NEW p \in Callers, Lock(p) PROVE HeldCopyCurrent' /\ FetchOnlyWhenDead'
  BY <1>6, SMT DEF Lock, LiveUnlocked, Servable
<1>7. ASSUME NEW p \in Callers, Drain(p) PROVE HeldCopyCurrent' /\ FetchOnlyWhenDead'
  BY <1>7, SMT DEF Drain, LiveUnlocked, Servable
<1>8. ASSUME NEW p \in Callers, RecheckHit(p) PROVE HeldCopyCurrent' /\ FetchOnlyWhenDead'
  BY <1>8, SMT DEF RecheckHit, UnlockAndReturn, LiveUnlocked, Servable
<1>9. ASSUME NEW p \in Callers, RecheckMiss(p)
      PROVE  HeldCopyCurrent' /\ FetchOnlyWhenDead'
  <2>1. ~ Servable(cache[key[p]])
    BY <1>9, <1>a, SMT DEF RecheckMiss
  <2> QED
    BY <1>9, <2>1, SMT DEF RecheckMiss, LiveUnlocked, Servable
<1>10. ASSUME NEW p \in Callers, NEW v \in Values, NEW ttl \in TTLs, Store(p, v, ttl)
       PROVE  HeldCopyCurrent' /\ FetchOnlyWhenDead'
  <2>1. ~ Servable(cache[key[p]]) /\ key[p] \in Keys
    BY <1>10, SMT DEF Store
  <2>2. ASSUME NEW q \in Callers, pc'[q] = "check", LiveUnlocked(item[q])'
        PROVE  item'[q] = cache'[key'[q]]
    <3>1. /\ q # p /\ pc[q] = "check" /\ item'[q] = item[q] /\ key'[q] = key[q]
          /\ now' = now
      BY <1>10, <2>2, SMT DEF Store, UnlockAndReturn
    <3>2. item[q] = cache[key[q]] /\ LiveUnlocked(item[q]) /\ key[q] \in Keys
      BY <2>2, <3>1, SMT DEF LiveUnlocked
    <3>3. key[q] # key[p]
      <4>1. cache[key[p]] \in Items \cup {NoItem} /\ item[q] \in Items \cup {NoItem}
        BY <2>1, SMT
      <4>2. ~ LiveUnlocked(cache[key[p]])
        BY <2>1, <4>1, <1>a, Zenon
      <4> QED
        BY <3>2, <4>2, Zenon
    <3> QED
      BY <1>10, <3>1, <3>2, <3>3, <2>1, SMT DEF Store
  <2>3. ASSUME NEW q \in Callers PROVE pc'[q] # "fetch"
    BY <1>10, SMT DEF Store, UnlockAndReturn, LockState
  <2> QED
    BY <2>2, <2>3
<1>11. CASE Tick
  <2>1. ASSUME NEW q \in Callers, pc'[q] = "check", LiveUnlocked(item[q])'
        PROVE  item'[q] = cache'[key'[q]]
    <3>1. pc[q] = "check" /\ item[q] \in Items \cup {NoItem}
      BY <1>11, <2>1, SMT DEF Tick
    <3>2. LiveUnlocked(item[q])
      BY <1>11, <2>1, <3>1, SMT DEF Tick, LiveUnlocked, Found, Items, NoItem
    <3> QED
      BY <1>11, <3>1, <3>2, SMT DEF Tick
  <2>2. ASSUME NEW q \in Callers, pc'[q] = "fetch"
        PROVE  ~ Servable(cache[key[q]])'
    <3>1. /\ pc[q] = "fetch" /\ key[q] \in Keys
          /\ cache[key[q]] \in Items \cup {NoItem}
      BY <1>11, <2>2, SMT DEF Tick
    <3>2. ~ Servable(cache[key[q]])
      BY <3>1
    <3> QED
      BY <1>11, <3>1, <3>2, SMT DEF Tick, Servable, Items, NoItem
  <2> QED
    BY <2>1, <2>2
<1>12. CASE UNCHANGED vars
  BY <1>12, SMT DEF vars, LiveUnlocked, Servable
<1> HIDE DEF IInv, TypeOK, HeldCopyCurrent, FetchOnlyWhenDead, Goto, Locals
<1> QED
  BY <1>1, <1>2, <1>3, <1>4, <1>5, <1>6, <1>7, <1>8, <1>9, <1>10, <1>11, <1>12
     DEF Next, Advance

\* The inductive invariant holds in every reachable state.
THEOREM Invariance == Spec => []IInv
<1>1. IInv /\ [Next]_vars => IInv'
  BY StepType, StepLock, StepContent DEF IInv
<1> QED
  BY InitIInv, <1>1, PTL DEF Spec
-----------------------------------------------------------------------------
\* Every variable keeps its type, the cached items included.
THEOREM TypeCorrect == Spec => []TypeOK
BY Invariance, PTL DEF IInv

\* The set function runs, and its outcome is stored, in mutual exclusion with
\* every other caller and with every reader.
THEOREM LockSafe == Spec => []LockDiscipline
BY Invariance, PTL DEF IInv

\* The late expiration test of getInternal never serves a replaced item.
THEOREM CopyCurrent == Spec => []HeldCopyCurrent
BY Invariance, PTL DEF IInv

\* SAP is never asked for what the map can still answer.
THEOREM FetchJustified == Spec => []FetchOnlyWhenDead
BY Invariance, PTL DEF IInv

\* No step touches an item that can still be served: only Store writes the map,
\* and it stands behind the double check.
LEMMA StepStable ==
  ASSUME IInv, [Next]_vars, NEW k \in Keys, Servable(cache[k])
  PROVE  cache'[k] = cache[k]
<1>1. ASSUME NEW p \in Callers, NEW v \in Values, NEW ttl \in TTLs, Store(p, v, ttl)
      PROVE  cache'[k] = cache[k]
  <2>1. pc[p] = "fetch" /\ ~ Servable(cache[key[p]])
    BY <1>1 DEF Store, IInv, FetchOnlyWhenDead
  <2>2. key[p] # k
    BY <2>1
  <2> QED
    BY <1>1, <2>2, SMT DEF Store, IInv, TypeOK
<1> QED
  BY <1>1 DEF Next, Advance, GetOrSet, RLock, ReadItem, CheckHit, CheckMiss, Lock,
     Drain, RecheckHit, RecheckMiss, Tick, vars

\* What one collector was told stays the answer for all until it expires.
THEOREM LiveItemsStay == Spec => LiveItemStable
<1>1. IInv /\ [Next]_vars => [\A k \in Keys : Servable(cache[k]) => cache'[k] = cache[k]]_vars
  BY StepStable
<1> QED
  BY Invariance, <1>1, PTL DEF Spec, LiveItemStable
-----------------------------------------------------------------------------
(* Every call is counted once.                                             *)

\* Quotient and remainder, and that a sum has but one.
LEMMA DivMod ==
  ASSUME NEW m \in Nat \ {0}, NEW n \in Nat
  PROVE  /\ n \div m \in Nat /\ n % m \in 0..(m - 1)
         /\ n = m * (n \div m) + (n % m)
BY Z3

LEMMA OneRemainder ==
  ASSUME NEW m \in Nat \ {0}, NEW q \in Int, NEW p \in Int,
         NEW r \in 0..(m - 1), NEW s \in 0..(m - 1), m * q + r = m * p + s
  PROVE  r = s
<1> DEFINE k == q - p
<1>1. k \in Int
  OBVIOUS
<1>2. m * k = s - r
  BY Z3
<1> HIDE DEF k
<1>3. k >= 1 => m * k >= m
  BY <1>1, Z3
<1>4. k =< -1 => m * k =< -m
  BY <1>1, Z3
<1>5. k = 0
  BY <1>1, <1>2, <1>3, <1>4, Z3
<1> QED
  BY <1>2, <1>5, Z3

\* A counter that has wrapped counts on as if it had not.
LEMMA WrapIsHarmless ==
  ASSUME NEW m \in Nat \ {0}, NEW a \in Nat, NEW b \in Nat
  PROVE  ((a % m) + b) % m = (a + b) % m
<1> DEFINE q == a \div m
           r == a % m
           p == (r + b) \div m
           s == (r + b) % m
           t == (a + b) \div m
           u == (a + b) % m
<1>1. q \in Nat /\ r \in 0..(m - 1) /\ a = m * q + r
  BY DivMod
<1>2. r + b \in Nat /\ a + b \in Nat
  BY <1>1
<1>3. p \in Nat /\ s \in 0..(m - 1) /\ r + b = m * p + s
  BY <1>2, DivMod
<1>4. t \in Nat /\ u \in 0..(m - 1) /\ a + b = m * t + u
  BY <1>2, DivMod
<1> HIDE DEF q, r, p, s, t, u
<1> DEFINE v == q + p
<1>5. a + b = m * v + s /\ v \in Int
  BY <1>1, <1>3, Z3
<1> HIDE DEF v
<1>6. m * v + s = m * t + u /\ v \in Int /\ t \in Int
  BY <1>3, <1>4, <1>5
<1>7. s = u
  BY <1>3, <1>4, <1>6, OneRemainder
<1> QED
  BY <1>7 DEF r, s, u

\* The calls in progress, of which there are finitely many because each began in a
\* step of its own.
InCall == {p \in Callers : pc[p] # "idle"}

CountState == IsFiniteSet(InCall) /\ StatsConserved

\* A call begins, and is counted as begun.
LEMMA CallCounted ==
  ASSUME TypeOK, CountState, NEW p, p \notin InCall, InCall' = InCall \cup {p},
         stats' = stats, calls' = Add(calls)
  PROVE  CountState'
<1> DEFINE n == stats.hits + stats.misses + Cardinality(InCall)
<1>1. /\ IsFiniteSet(InCall') /\ Cardinality(InCall') = Cardinality(InCall) + 1
      /\ Cardinality(InCall) \in Nat
  BY FS_AddElement, FS_CardinalityType DEF CountState
<1>2. stats.hits \in Nat /\ stats.misses \in Nat
  BY DEF TypeOK
<1>3. n \in Nat /\ n % StatsModulus = calls
  BY <1>1, <1>2 DEF CountState, StatsConserved, InCall
<1>4. stats'.hits + stats'.misses + Cardinality(InCall') = n + 1
  BY <1>1, <1>2
<1> HIDE DEF n
<1>5. (n + 1) % StatsModulus = calls'
  BY <1>3, WrapIsHarmless, CacheAssumption DEF CacheAssumption, Add
<1> QED
  BY <1>1, <1>4, <1>5 DEF CountState, StatsConserved, InCall

\* A call returns, and is counted as a hit or as a miss.
LEMMA ReturnCounted ==
  ASSUME TypeOK, CountState, NEW p, p \in InCall, InCall' = InCall \ {p}, calls' = calls,
         \/ stats'.hits = Add(stats.hits) /\ stats'.misses = stats.misses
         \/ stats'.hits = stats.hits /\ stats'.misses = Add(stats.misses)
  PROVE  CountState'
<1> DEFINE c == Cardinality(InCall)
<1>1. /\ IsFiniteSet(InCall') /\ Cardinality(InCall') = c - 1 /\ c \in Nat /\ c # 0
  BY FS_RemoveElement, FS_CardinalityType, FS_EmptySet DEF CountState
<1>2. stats.hits \in Nat /\ stats.misses \in Nat
  BY DEF TypeOK
<1>3. (stats.hits + stats.misses + c) % StatsModulus = calls
  BY DEF CountState, StatsConserved, InCall
<1> HIDE DEF c
<1>4. ASSUME NEW a \in Nat, NEW b \in Nat
      PROVE  (Add(a) + (b + (c - 1))) % StatsModulus = (a + b + c) % StatsModulus
  <2> DEFINE d == b + (c - 1)
  <2>1. a + 1 \in Nat /\ d \in Nat /\ (a + 1) + d = a + b + c
    BY <1>1
  <2> HIDE DEF d
  <2>2. (((a + 1) % StatsModulus) + d) % StatsModulus = ((a + 1) + d) % StatsModulus
    BY <2>1, WrapIsHarmless, CacheAssumption DEF CacheAssumption
  <2>3. (Add(a) + d) % StatsModulus = (a + b + c) % StatsModulus
    BY <2>1, <2>2 DEF Add
  <2> QED
    BY <2>3 DEF d
<1>5. Add(stats.hits) \in Nat /\ Add(stats.misses) \in Nat
  BY <1>2, AddType
<1>6. (stats'.hits + stats'.misses + (c - 1)) % StatsModulus = calls'
  <2>1. CASE stats'.hits = Add(stats.hits) /\ stats'.misses = stats.misses
    <3>1. stats'.hits + stats'.misses + (c - 1)
            = Add(stats.hits) + (stats.misses + (c - 1))
      BY <1>1, <1>2, <1>5, <2>1
    <3> QED
      BY <1>2, <1>3, <1>4, <3>1
  <2>2. CASE stats'.hits = stats.hits /\ stats'.misses = Add(stats.misses)
    <3>1. stats'.hits + stats'.misses + (c - 1)
            = Add(stats.misses) + (stats.hits + (c - 1))
      BY <1>1, <1>2, <1>5, <2>2
    <3>2. stats.misses + stats.hits + c = stats.hits + stats.misses + c
      BY <1>1, <1>2
    <3> QED
      BY <1>2, <1>3, <1>4, <3>1, <3>2
  <2> QED
    BY <2>1, <2>2
<1> QED
  BY <1>1, <1>6 DEF CountState, StatsConserved, InCall

\* One case per action: a call is begun, goes on, or returns.
LEMMA StepCount == IInv /\ CountState /\ [Next]_vars => CountState'
<1> SUFFICES ASSUME IInv, CountState, [Next]_vars PROVE CountState'
  OBVIOUS
<1>t. TypeOK
  BY DEF IInv
<1>s. ASSUME InCall' = InCall, stats'.hits = stats.hits, stats'.misses = stats.misses,
             calls' = calls
      PROVE  CountState'
  BY <1>s DEF CountState, StatsConserved, InCall
<1>m. ASSUME NEW p \in Callers, pc[p] # "idle", NEW label, label # "idle", Goto(p, label)
      PROVE  InCall' = InCall
  BY <1>m, <1>t DEF InCall, Goto, TypeOK
<1>r. ASSUME NEW p \in Callers, pc[p] # "idle",
             Goto(p, "idle") \/ \E v : UnlockAndReturn(p, v)
      PROVE  p \in InCall /\ InCall' = InCall \ {p}
  BY <1>r, <1>t DEF InCall, Goto, UnlockAndReturn, TypeOK
<1>1. ASSUME NEW p \in Callers, NEW k \in Keys, GetOrSet(p, k) PROVE CountState'
  <2>1. p \notin InCall /\ InCall' = InCall \cup {p}
    BY <1>1, <1>t DEF GetOrSet, Goto, InCall, TypeOK
  <2> QED
    BY <1>1, <1>t, <2>1, CallCounted DEF GetOrSet
<1>2. ASSUME NEW p \in Callers, RLock(p) PROVE CountState'
  BY <1>2, <1>m, <1>s DEF RLock
<1>3. ASSUME NEW p \in Callers,
             ReadItem(p) \/ CheckMiss(p) \/ Lock(p) \/ Drain(p)
      PROVE  CountState'
  BY <1>3, <1>m, <1>s DEF ReadItem, CheckMiss, Lock, Drain
<1>4. ASSUME NEW p \in Callers, RecheckMiss(p) PROVE CountState'
  <2>1. stats'.hits = stats.hits /\ stats'.misses = stats.misses
    BY <1>4, <1>t DEF RecheckMiss, TypeOK
  <2> QED
    BY <1>4, <1>m, <1>s, <2>1 DEF RecheckMiss
<1>5. ASSUME NEW p \in Callers, CheckHit(p) \/ RecheckHit(p) PROVE CountState'
  <2>1. stats'.hits = Add(stats.hits) /\ stats'.misses = stats.misses
    BY <1>5, <1>t DEF CheckHit, RecheckHit, TypeOK
  <2>2. p \in InCall /\ InCall' = InCall \ {p} /\ calls' = calls
    BY <1>5, <1>r DEF CheckHit, RecheckHit
  <2> QED
    BY <1>t, <2>1, <2>2, ReturnCounted
<1>6. ASSUME NEW p \in Callers, NEW v \in Values, NEW ttl \in TTLs, Store(p, v, ttl)
      PROVE  CountState'
  <2>1. stats'.hits = stats.hits /\ stats'.misses = Add(stats.misses)
    BY <1>6, <1>t DEF Store, TypeOK
  <2>2. p \in InCall /\ InCall' = InCall \ {p} /\ calls' = calls
    BY <1>6, <1>r DEF Store
  <2> QED
    BY <1>t, <2>1, <2>2, ReturnCounted
<1>7. CASE Tick \/ UNCHANGED vars
  BY <1>7, <1>s DEF Tick, vars, InCall
<1> QED
  BY <1>1, <1>2, <1>3, <1>4, <1>5, <1>6, <1>7 DEF Next, Advance

\* Every call is counted once, as a hit or as a miss, with counters that wrap.
THEOREM CallsCounted == Spec => []StatsConserved
<1>1. Init => CountState
  <2> SUFFICES ASSUME Init PROVE CountState
    OBVIOUS
  <2>1. InCall = {} /\ stats.hits = 0 /\ stats.misses = 0 /\ calls = 0
    BY DEF Init, InCall
  <2>2. 0 % StatsModulus = 0
    <3> DEFINE m == StatsModulus
               q == 0 \div m
               r == 0 % m
    <3>1. m \in Nat \ {0} /\ q \in Int /\ r \in 0..(m - 1) /\ 0 = m * q + r
      BY CacheAssumption, DivMod DEF CacheAssumption
    <3>2. m * 0 + 0 = 0 /\ 0 \in 0..(m - 1)
      BY <3>1
    <3> HIDE DEF m, q, r
    <3>3. m * 0 + 0 = m * q + r
      BY <3>1, <3>2
    <3>4. r = 0
      BY <3>1, <3>2, <3>3, OneRemainder
    <3> QED
      BY <3>4 DEF m, r
  <2> QED
    BY <2>1, <2>2, FS_EmptySet DEF CountState, StatsConserved, InCall
<1>2. CountState => StatsConserved
  BY DEF CountState
<1> QED
  BY <1>1, <1>2, Invariance, StepCount, PTL DEF Spec
-----------------------------------------------------------------------------
(* GetOrSet implements the atomic read-through cache.                      *)

LEMMA InitRefines == Init => Abstract!Init
<1>1. Init => \A p \in Callers : StatusAt(pc[p]) = "idle"
  BY SMT DEF Init, StatusAt
<1> QED
  BY <1>1, Zenon DEF Init, Abstract!Init, AbstractStatus, NoItem, Abstract!NoItem

\* Both levels mean the same by an item that can be served.
LEMMA SameUnexpired ==
  ASSUME NEW it PROVE Abstract!Unexpired(it, now) <=> Servable(it)
BY SMT DEF Abstract!Unexpired, Servable

\* What a move of p's goroutine shows.
LEMMA StatusStep ==
  ASSUME TypeOK, NEW p \in Callers, NEW label, Goto(p, label)
  PROVE  AbstractStatus' = [AbstractStatus EXCEPT ![p] = StatusAt(label)]
<1>1. ASSUME NEW q \in Callers
      PROVE  StatusAt(pc'[q]) = IF q = p THEN StatusAt(label) ELSE StatusAt(pc[q])
  BY SMT DEF TypeOK, Goto
<1> QED
  BY <1>1, Zenon DEF AbstractStatus

\* Waking up the blocked readers does not show.
LEMMA StatusReturn ==
  ASSUME TypeOK, NEW p \in Callers, NEW v, UnlockAndReturn(p, v)
  PROVE  AbstractStatus' = [AbstractStatus EXCEPT ![p] = "idle"]
<1>1. pc'[p] = "idle"
  BY SMT DEF TypeOK, UnlockAndReturn
<1>2. ASSUME NEW q \in Callers, q # p PROVE StatusAt(pc'[q]) = StatusAt(pc[q])
  BY <1>2, SMT DEF UnlockAndReturn, StatusAt
<1>3. ASSUME NEW q \in Callers
      PROVE  StatusAt(pc'[q]) = IF q = p THEN "idle" ELSE StatusAt(pc[q])
  BY <1>1, <1>2, SMT DEF StatusAt
<1> QED
  BY <1>3, Zenon DEF AbstractStatus

\* Every step of the code is a step of the atomic cache or changes nothing it
\* shows: the locks, the copies and the first test are invisible.
LEMMA StepRefines == IInv /\ [Next]_vars => [Abstract!Next]_(Abstract!vars)
<1> SUFFICES ASSUME IInv, [Next]_vars PROVE [Abstract!Next]_(Abstract!vars)
  OBVIOUS
<1> DEFINE Stutter == /\ now' = now /\ cache' = cache /\ key' = key
                      /\ AbstractStatus' = AbstractStatus /\ result' = result
<1>t. TypeOK
  BY DEF IInv
<1>s. ASSUME Stutter PROVE [Abstract!Next]_(Abstract!vars)
  BY <1>s DEF Abstract!vars
<1>m. ASSUME NEW p \in Callers, NEW label, Goto(p, label), StatusAt(label) = StatusAt(pc[p])
      PROVE  AbstractStatus' = AbstractStatus
  <2>1. ASSUME NEW q \in Callers PROVE StatusAt(pc'[q]) = StatusAt(pc[q])
    BY <1>t, <1>m, SMT DEF TypeOK, Goto
  <2> QED
    BY <2>1, Zenon DEF AbstractStatus
<1>1. ASSUME NEW p \in Callers, NEW k \in Keys, GetOrSet(p, k) PROVE Abstract!Invoke(p, k)
  <2>1. AbstractStatus[p] = "idle"
    BY <1>1, SMT DEF GetOrSet, AbstractStatus, StatusAt
  <2>2. AbstractStatus' = [AbstractStatus EXCEPT ![p] = "pending"]
    BY <1>1, <1>t, StatusStep, SMT DEF GetOrSet, StatusAt
  <2> QED
    BY <1>1, <2>1, <2>2 DEF GetOrSet, Abstract!Invoke
<1>2. ASSUME NEW p \in Callers, RLock(p) PROVE Stutter
  <2>1. AbstractStatus' = AbstractStatus
    BY <1>2, <1>m, SMT DEF RLock, StatusAt
  <2> QED
    BY <1>2, <2>1 DEF RLock
<1>3. ASSUME NEW p \in Callers, ReadItem(p) PROVE Stutter
  <2>1. AbstractStatus' = AbstractStatus
    BY <1>3, <1>m, SMT DEF ReadItem, StatusAt
  <2> QED
    BY <1>3, <2>1 DEF ReadItem
<1>4. ASSUME NEW p \in Callers, CheckHit(p) PROVE Abstract!Hit(p)
  <2>1. item[p] = cache[key[p]] /\ item[p] \in Items \cup {NoItem}
    BY <1>4, SMT DEF CheckHit, IInv, TypeOK, HeldCopyCurrent
  <2>2. Abstract!Unexpired(cache[key[p]], now)
    BY <1>4, <1>t, <2>1, ExpiryTestsAgree, SameUnexpired DEF CheckHit, TypeOK
  <2>3. AbstractStatus[p] = "pending"
    BY <1>4, SMT DEF CheckHit, AbstractStatus, StatusAt
  <2>4. AbstractStatus' = [AbstractStatus EXCEPT ![p] = "idle"]
    BY <1>4, <1>t, StatusStep, SMT DEF CheckHit, StatusAt
  <2> QED
    BY <1>4, <2>1, <2>2, <2>3, <2>4 DEF CheckHit, Locals, Abstract!Hit, Abstract!Return
<1>5. ASSUME NEW p \in Callers, CheckMiss(p) PROVE Stutter
  <2>1. AbstractStatus' = AbstractStatus
    BY <1>5, <1>m, SMT DEF CheckMiss, StatusAt
  <2> QED
    BY <1>5, <2>1 DEF CheckMiss
<1>6. ASSUME NEW p \in Callers, Lock(p) PROVE Stutter
  <2>1. AbstractStatus' = AbstractStatus
    BY <1>6, <1>m, SMT DEF Lock, StatusAt
  <2> QED
    BY <1>6, <2>1 DEF Lock
<1>7. ASSUME NEW p \in Callers, Drain(p) PROVE Stutter
  <2>1. AbstractStatus' = AbstractStatus
    BY <1>7, <1>m, SMT DEF Drain, StatusAt
  <2> QED
    BY <1>7, <2>1 DEF Drain
<1>8. ASSUME NEW p \in Callers, RecheckHit(p) PROVE Abstract!Hit(p)
  <2>1. cache[key[p]] \in Items \cup {NoItem}
    BY <1>8, <1>t, SMT DEF RecheckHit, TypeOK
  <2>2. Abstract!Unexpired(cache[key[p]], now)
    BY <1>8, <1>t, <2>1, ExpiryTestsAgree, SameUnexpired DEF RecheckHit, TypeOK
  <2>3. AbstractStatus[p] = "pending"
    BY <1>8, SMT DEF RecheckHit, AbstractStatus, StatusAt
  <2>4. AbstractStatus' = [AbstractStatus EXCEPT ![p] = "idle"]
    BY <1>8, <1>t, StatusReturn DEF RecheckHit
  <2> QED
    BY <1>8, <2>2, <2>3, <2>4
       DEF RecheckHit, UnlockAndReturn, Locals, Abstract!Hit, Abstract!Return
<1>9. ASSUME NEW p \in Callers, RecheckMiss(p) PROVE Abstract!Load(p)
  <2>1. cache[key[p]] \in Items \cup {NoItem}
    BY <1>9, <1>t, SMT DEF RecheckMiss, TypeOK
  <2>2. ~ Abstract!Unexpired(cache[key[p]], now)
    BY <1>9, <1>t, <2>1, ExpiryTestsAgree, SameUnexpired DEF RecheckMiss, TypeOK
  <2>3. AbstractStatus[p] = "pending"
    BY <1>9, SMT DEF RecheckMiss, AbstractStatus, StatusAt
  <2>4. \A q \in Callers : AbstractStatus[q] # "loading"
    BY <1>9, NoneApart, SMT DEF RecheckMiss, IInv, LockState, AbstractStatus, StatusAt
  <2>5. AbstractStatus' = [AbstractStatus EXCEPT ![p] = "loading"]
    BY <1>9, <1>t, StatusStep, SMT DEF RecheckMiss, StatusAt
  <2> QED
    BY <1>9, <2>2, <2>3, <2>4, <2>5 DEF RecheckMiss, Abstract!Load
<1>10. ASSUME NEW p \in Callers, NEW v \in Values, NEW ttl \in TTLs, Store(p, v, ttl)
       PROVE  Abstract!Loaded(p, v, ttl)
  <2>1. AbstractStatus[p] = "loading"
    BY <1>10, SMT DEF Store, AbstractStatus, StatusAt
  <2>2. AbstractStatus' = [AbstractStatus EXCEPT ![p] = "idle"]
    BY <1>10, <1>t, StatusReturn DEF Store
  <2> QED
    BY <1>10, <2>1, <2>2
       DEF Store, UnlockAndReturn, Locals, Expiration, Abstract!Loaded, Abstract!Return
<1>11. ASSUME Tick PROVE Abstract!Tick
  BY <1>11 DEF Tick, Abstract!Tick, AbstractStatus
<1>12. ASSUME UNCHANGED vars PROVE Stutter
  BY <1>12 DEF vars, AbstractStatus
<1> HIDE DEF Stutter
<1> QED
  BY <1>s, <1>1, <1>2, <1>3, <1>4, <1>5, <1>6, <1>7, <1>8, <1>9, <1>10, <1>11, <1>12
     DEF Next, Advance, Abstract!Next

\* For every caller the cache behaves like one atomic map with expirations.
THEOREM Refinement == Spec => ImplementsReadThroughCache
BY InitRefines, StepRefines, Invariance, PTL
   DEF Spec, ImplementsReadThroughCache, Abstract!Spec
=============================================================================
