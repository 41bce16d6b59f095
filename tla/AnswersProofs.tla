---------------------------- MODULE AnswersProofs ----------------------------
(***************************************************************************)
(* Proofs about what becomes of answers of SAP: of alerts in recordAlerts,  *)
(* as Alerts models it, for any Collects, instances, alerts, ages and lists *)
(* of any length; of CPU times, as Answers and Conversions model them, for  *)
(* any times and any number of restarts of a work process; and of answers   *)
(* on the wire and colours, whose values are finitely many.                 *)
(***************************************************************************)
EXTENDS Alerts, Answers, WellFoundedInduction, TLAPS
-----------------------------------------------------------------------------
(* Induction over the natural numbers, for sets of numbers.                 *)

LEMMA LessWellFounded ==
  \E R : IsWellFoundedOn(R, Nat) /\ R = {nm \in Nat \X Nat : nm[1] < nm[2]}
BY NatLessThanWellFounded, Zenon DEF OpToRel

LEMMA LeastNumber ==
  ASSUME NEW T \in SUBSET Nat, T # {}
  PROVE  \E m \in T : \A k \in T : m <= k
<1>1. PICK R : IsWellFoundedOn(R, Nat) /\ R = {nm \in Nat \X Nat : nm[1] < nm[2]}
  BY LessWellFounded
<1>2. PICK m \in T : \A k \in T : ~ (<<k, m>> \in R)
  BY <1>1, WFMin, Zenon
<1>3. \A k \in T : k \in Nat /\ ~ (k < m) /\ m \in Nat
  BY <1>1, <1>2
<1> QED
  BY <1>3

LEMMA NatSetInduction ==
  ASSUME NEW T, 0 \in T, \A n \in Nat : n \in T => n + 1 \in T
  PROVE  \A n \in Nat : n \in T
<1>1. SUFFICES ASSUME Nat \ T # {} PROVE FALSE
  OBVIOUS
<1>2. PICK m \in Nat \ T : \A k \in Nat \ T : m <= k
  BY <1>1, LeastNumber
<1>3. m # 0 /\ m - 1 \in Nat /\ (m - 1) + 1 = m /\ ~ (m <= m - 1)
  BY <1>2
<1> QED
  BY <1>2, <1>3
-----------------------------------------------------------------------------
(* RemoveDuplicate.                                                         *)

\* What the loop has kept when it has looked at n elements.
Kept(list, f, n) ==
  IF n = 0 THEN <<>>
  ELSE IF Contains(f[n - 1], list[n]) THEN f[n - 1]
  ELSE Append(f[n - 1], list[n])

LEMMA LoopRuns ==
  ASSUME NEW list
  PROVE  \A k \in Nat : \E f : f = [n \in 0..k |-> Kept(list, f, n)]
<1> DEFINE T == {k \in Nat : \E f : f = [n \in 0..k |-> Kept(list, f, n)]}
<1>1. 0 \in T
  <2> DEFINE f == [n \in 0..0 |-> <<>>]
  <2>1. \A n \in 0..0 : Kept(list, f, n) = <<>>
    BY DEF Kept
  <2>2. f = [n \in 0..0 |-> Kept(list, f, n)]
    BY <2>1
  <2> QED
    BY <2>2
<1>2. ASSUME NEW k \in Nat, k \in T PROVE k + 1 \in T
  <2>1. PICK f : f = [n \in 0..k |-> Kept(list, f, n)]
    BY <1>2
  <2> DEFINE g == [n \in 0..(k + 1) |-> IF n \in 0..k THEN f[n] ELSE Kept(list, f, n)]
  <2>2. \A n \in 0..(k + 1) : n # 0 => n - 1 \in 0..k /\ g[n - 1] = f[n - 1]
    OBVIOUS
  <2>3. \A n \in 0..(k + 1) : Kept(list, g, n) = Kept(list, f, n)
    <3> HIDE DEF g
    <3> QED
      BY <2>2 DEF Kept
  <2>4. \A n \in 0..(k + 1) : g[n] = Kept(list, g, n)
    BY <2>1, <2>3
  <2>5. g = [n \in 0..(k + 1) |-> Kept(list, g, n)]
    BY <2>4
  <2> HIDE DEF g
  <2> QED
    BY <2>5
<1> HIDE DEF T
<1>3. \A k \in Nat : k \in T
  BY <1>1, <1>2, NatSetInduction
<1> QED
  BY <1>3 DEF T

LEMMA LoopOf ==
  ASSUME NEW S, NEW list \in Seq(S)
  PROVE  \E f : /\ f = [n \in 0..Len(list) |-> Kept(list, f, n)]
                /\ RemoveDuplicate(list) = f[Len(list)]
<1>0. Len(list) \in Nat
  OBVIOUS
<1>1. \E g : g = [n \in 0..Len(list) |-> Kept(list, g, n)]
  BY <1>0, LoopRuns, Zenon
<1> DEFINE f == CHOOSE f : f = [n \in 0..Len(list) |-> Kept(list, f, n)]
<1>2. f = [n \in 0..Len(list) |-> Kept(list, f, n)]
  BY <1>1
<1>3. RemoveDuplicate(list) = f[Len(list)]
  BY DEF RemoveDuplicate, Kept
<1> QED
  BY <1>2, <1>3

\* RemoveDuplicate keeps every element of the list once, and nothing else.
LEMMA RemoveDuplicateKeeps ==
  ASSUME NEW S, NEW list \in Seq(S)
  PROVE  /\ RemoveDuplicate(list) \in Seq(S)
         /\ IsInjective(RemoveDuplicate(list))
         /\ ToSet(RemoveDuplicate(list)) = ToSet(list)
<1>1. PICK f : /\ f = [n \in 0..Len(list) |-> Kept(list, f, n)]
               /\ RemoveDuplicate(list) = f[Len(list)]
  BY LoopOf
<1> DEFINE Looked(n) == {list[j] : j \in 1..n}
           T == {n \in Nat : n <= Len(list) => /\ f[n] \in Seq(S)
                                               /\ IsInjective(f[n])
                                               /\ ToSet(f[n]) = Looked(n)}
<1>2. 0 \in T
  <2>1. f[0] = <<>>
    BY <1>1 DEF Kept
  <2>2. <<>> \in Seq(S) /\ IsInjective(<<>>) /\ ToSet(<<>>) = {} /\ Looked(0) = {}
    BY DEF IsInjective, ToSet
  <2> HIDE DEF Looked
  <2> QED
    BY <2>1, <2>2
<1>3. ASSUME NEW n \in Nat, n \in T PROVE n + 1 \in T
  <2>1. SUFFICES ASSUME n + 1 <= Len(list)
                 PROVE  /\ f[n + 1] \in Seq(S) /\ IsInjective(f[n + 1])
                        /\ ToSet(f[n + 1]) = Looked(n + 1)
    OBVIOUS
  <2>2. f[n] \in Seq(S) /\ IsInjective(f[n]) /\ ToSet(f[n]) = Looked(n)
    BY <1>3, <2>1
  <2>3. f[n + 1] = IF Contains(f[n], list[n + 1]) THEN f[n] ELSE Append(f[n], list[n + 1])
    <3>1. n + 1 \in 0..Len(list) /\ n + 1 # 0 /\ (n + 1) - 1 = n
      BY <2>1
    <3>2. f[n + 1] = Kept(list, f, n + 1)
      BY <1>1, <3>1
    <3> QED
      BY <3>1, <3>2 DEF Kept
  <2>4. Contains(f[n], list[n + 1]) <=> list[n + 1] \in ToSet(f[n])
    BY <2>2 DEF Contains, ToSet
  <2>5. Looked(n + 1) = Looked(n) \cup {list[n + 1]} /\ list[n + 1] \in S
    <3>1. 1..(n + 1) = 1..n \cup {n + 1}
      OBVIOUS
    <3> QED
      BY <2>1, <3>1
  <2> HIDE DEF Looked
  <2>6. CASE Contains(f[n], list[n + 1])
    BY <2>2, <2>3, <2>4, <2>5, <2>6
  <2>7. CASE ~ Contains(f[n], list[n + 1])
    <3> DEFINE s == f[n]
               g == Append(s, list[n + 1])
    <3>1. /\ g \in Seq(S) /\ Len(g) = Len(s) + 1 /\ Len(s) \in Nat
          /\ DOMAIN s = 1..Len(s) /\ DOMAIN g = 1..(Len(s) + 1)
          /\ \A k \in 1..Len(s) : g[k] = s[k]
          /\ g[Len(s) + 1] = list[n + 1]
      BY <2>2, <2>5
    <3>2. list[n + 1] \notin ToSet(s)
      BY <2>4, <2>7
    <3> HIDE DEF g, s
    <3>3. \A k \in DOMAIN g : k \in DOMAIN s \/ k = Len(s) + 1
      BY <3>1
    <3>4. IsInjective(s)
      BY <2>2 DEF s
    <3>5. IsInjective(g)
      BY <3>1, <3>2, <3>3, <3>4 DEF IsInjective, ToSet
    <3>6. ToSet(g) = ToSet(s) \cup {list[n + 1]}
      BY <3>1, <3>3 DEF ToSet
    <3>7. f[n + 1] = g
      BY <2>3, <2>7 DEF g, s
    <3>8. ToSet(s) = Looked(n)
      BY <2>2 DEF s
    <3> QED
      BY <2>5, <3>1, <3>5, <3>6, <3>7, <3>8
  <2> QED
    BY <2>6, <2>7
<1> HIDE DEF T
<1>4. Len(list) \in T
  BY <1>2, <1>3, NatSetInduction
<1>5. Looked(Len(list)) = ToSet(list)
  BY DEF ToSet
<1> QED
  BY <1>1, <1>4, <1>5 DEF T
-----------------------------------------------------------------------------
(* The inductive invariant.                                                 *)

Reports == [inst : Listed, alert : Alerts]

Types ==
  /\ now \in Nat
  /\ options \in [prom : BOOLEAN, loki : BOOLEAN]
  /\ pc       \in [Collects -> {"idle", "loop", "items", "push"}]
  /\ todo     \in [Collects -> SUBSET Listed]
  /\ cur      \in [Collects -> Listed \cup {None}]
  /\ items    \in [Collects -> Seq(Alerts)]
  /\ entry    \in [Collects -> Reports \cup {None}]
  /\ series   \in [Collects -> Seq(Reports)]
  /\ queue    \in Seq(Reports)
  /\ reported \in [Collects -> SUBSET Reports]
  /\ pushed   \in [Collects -> SUBSET Reports]

Busy(p) == pc[p] \in {"items", "push"}

\* The alerts of r's instance are being gone through, and r is still to come.
Left(p, r) == Busy(p) /\ r.inst = cur[p] /\ Contains(items[p], r.alert)

\* No series was emitted for an instance that is still to be asked or an alert that
\* is still to come, and what is still to come for Prometheus is there once.
SeriesAt(p) ==
  /\ Busy(p) => cur[p] \in Listed /\ cur[p] \notin todo[p]
  /\ IsInjective(series[p])
  /\ options.prom => IsInjective(items[p])
  /\ pc[p] # "idle" => \A n \in DOMAIN series[p] :
                          series[p][n].inst \notin todo[p] /\ ~ Left(p, series[p][n])

\* A reported alert is pushed, or about to be, unless it is too old.
Pushed(p, r) ==
  \/ TooOld(r.alert)
  \/ r \in pushed[p]
  \/ pc[p] = "push" /\ entry[p] = r

\* Whatever SAP reported is still to come, or has been emitted and pushed.
ReportsAt(p) ==
  \A r \in reported[p] :
    r.alert.valid /\ ~ Left(p, r) =>
      /\ options.prom => Contains(series[p], r)
      /\ options.loki => Pushed(p, r)

\* What waits for room in the channel is an entry, and a Collect begins with nothing.
PlaceState ==
  \A p \in Collects :
    /\ pc[p] = "push" => entry[p] \in Reports
    /\ pc[p] = "idle" => series[p] = <<>> /\ reported[p] = {}

IInv ==
  /\ Types /\ PlaceState
  /\ \A p \in Collects : SeriesAt(p) /\ ReportsAt(p)

LEMMA InitIInv == Init => IInv
<1> SUFFICES ASSUME Init PROVE IInv
  OBVIOUS
<1>1. Types /\ PlaceState
  BY DEF Init, Types, PlaceState
<1>2. \A p \in Collects : SeriesAt(p) /\ ReportsAt(p)
  BY DEF Init, SeriesAt, ReportsAt, Busy, IsInjective
<1> QED
  BY <1>1, <1>2 DEF IInv
-----------------------------------------------------------------------------
(* What the operators amount to.                                            *)

LEMMA Times ==
  ASSUME NEW a \in Alerts, now \in Nat
  PROVE  Timestamp(a) \in Nat
BY AlertsAssumption DEF Timestamp, AlertsAssumption

\* What is too old stays too old.
LEMMA OldStaysOld ==
  ASSUME NEW a \in Alerts, now \in Nat, now' \in Nat, now <= now', TooOld(a)
  PROVE  TooOld(a)'
<1>1. /\ MaxAge \in Int /\ MaxAge >= 0 /\ Timestamp(a) \in Nat
      /\ now - Timestamp(a) > MaxAge \/ (MaxAge = 0 /\ Timestamp(a) = now)
  BY AlertsAssumption, Times DEF TooOld, AlertsAssumption
<1>2. CASE a.time = Unparsable
  <2>1. Timestamp(a) = now /\ Timestamp(a)' = now'
    BY <1>2 DEF Timestamp
  <2>2. MaxAge = 0
    BY <1>1, <2>1
  <2> QED
    BY <2>1, <2>2 DEF TooOld
<1>3. CASE a.time # Unparsable
  <2>1. Timestamp(a)' = Timestamp(a)
    BY <1>3 DEF Timestamp
  <2> QED
    BY <1>1, <2>1 DEF TooOld
<1> QED
  BY <1>2, <1>3

LEMMA ListsAreSeqs == ASSUME NEW list \in AlertLists PROVE list \in Seq(Alerts)
<1>1. \A m \in 0..MaxAlerts : [1..m -> Alerts] \subseteq Seq(Alerts)
  BY AlertsAssumption DEF AlertsAssumption
<1> QED
  BY <1>1 DEF AlertLists, BoundedSeq, SeqOf

LEMMA ItemListKeeps ==
  ASSUME NEW list \in Seq(Alerts)
  PROVE  /\ ItemList(list) \in Seq(Alerts)
         /\ options.prom => IsInjective(ItemList(list))
         /\ \A a \in ToSet(list) : Contains(ItemList(list), a)
<1>1. /\ ItemList(list) \in Seq(Alerts) /\ ToSet(ItemList(list)) = ToSet(list)
      /\ options.prom => IsInjective(ItemList(list))
  BY RemoveDuplicateKeeps DEF ItemList
<1>2. \A s \in Seq(Alerts) : \A a \in ToSet(s) : Contains(s, a)
  BY DEF ToSet, Contains
<1> QED
  BY <1>1, <1>2

\* The head of a list, and what is left without it.
LEMMA WithoutHead ==
  ASSUME NEW S, NEW list \in Seq(S), list # <<>>
  PROVE  /\ Head(list) \in S /\ Tail(list) \in Seq(S)
         /\ Contains(list, Head(list))
         /\ \A a : Contains(Tail(list), a) => Contains(list, a)
         /\ \A a : Contains(list, a) => a = Head(list) \/ Contains(Tail(list), a)
         /\ IsInjective(list) => IsInjective(Tail(list)) /\ ~ Contains(Tail(list), Head(list))
<1>1. /\ Head(list) \in S /\ Tail(list) \in Seq(S) /\ Head(list) = list[1]
      /\ Len(list) \in Nat /\ Len(list) # 0 /\ DOMAIN list = 1..Len(list)
      /\ Len(Tail(list)) = Len(list) - 1 /\ DOMAIN Tail(list) = 1..(Len(list) - 1)
      /\ \A k \in 1..(Len(list) - 1) : Tail(list)[k] = list[k + 1]
  OBVIOUS
<1> DEFINE rest == Tail(list)
<1>2. \A k \in 1..Len(list) : k = 1 \/ (k - 1 \in 1..Len(rest) /\ list[k] = rest[k - 1])
  BY <1>1
<1>3. \A k \in 1..Len(rest) : k + 1 \in 1..Len(list) /\ k + 1 # 1 /\ rest[k] = list[k + 1]
  BY <1>1
<1>4. 1 \in 1..Len(list)
  BY <1>1
<1>5. IsInjective(list) => IsInjective(rest) /\ ~ Contains(rest, Head(list))
  BY <1>1, <1>3, <1>4 DEF IsInjective, Contains
<1>6. \A a : Contains(list, a) <=> a = Head(list) \/ Contains(rest, a)
  <2> SUFFICES ASSUME NEW a PROVE Contains(list, a) <=> a = Head(list) \/ Contains(rest, a)
    OBVIOUS
  <2>1. ASSUME Contains(list, a) PROVE a = Head(list) \/ Contains(rest, a)
    <3>1. PICK k \in 1..Len(list) : list[k] = a
      BY <2>1 DEF Contains
    <3> QED
      BY <1>1, <1>2, <3>1 DEF Contains
  <2>2. ASSUME Contains(rest, a) PROVE Contains(list, a)
    <3>1. PICK k \in 1..Len(rest) : rest[k] = a
      BY <2>2 DEF Contains
    <3> QED
      BY <1>3, <3>1 DEF Contains
  <2>3. Contains(list, Head(list))
    BY <1>1, <1>4 DEF Contains
  <2> QED
    BY <2>1, <2>2, <2>3
<1> QED
  BY <1>1, <1>5, <1>6

\* A metric is sent.
LEMMA OneMore ==
  ASSUME NEW S, NEW s \in Seq(S), NEW r \in S
  PROVE  /\ Append(s, r) \in Seq(S)
         /\ \A x : Contains(Append(s, r), x) <=> Contains(s, x) \/ x = r
         /\ \A n \in DOMAIN Append(s, r) :
              (n \in DOMAIN s /\ Append(s, r)[n] = s[n]) \/ Append(s, r)[n] = r
         /\ IsInjective(s) /\ ~ Contains(s, r) => IsInjective(Append(s, r))
<1> DEFINE g == Append(s, r)
<1>1. /\ g \in Seq(S) /\ Len(g) = Len(s) + 1 /\ Len(s) \in Nat
      /\ DOMAIN s = 1..Len(s) /\ DOMAIN g = 1..(Len(s) + 1)
      /\ \A k \in 1..Len(s) : g[k] = s[k]
      /\ g[Len(s) + 1] = r
  OBVIOUS
<1> HIDE DEF g
<1>2. \A k \in 1..(Len(s) + 1) : k \in 1..Len(s) \/ k = Len(s) + 1
  BY <1>1
<1>3. Len(s) + 1 \in 1..(Len(s) + 1) /\ \A k \in 1..Len(s) : k \in 1..(Len(s) + 1)
  BY <1>1
<1>4. IsInjective(s) /\ ~ Contains(s, r) => IsInjective(g)
  BY <1>1, <1>2 DEF IsInjective, Contains
<1>5. \A x : Contains(g, x) <=> Contains(s, x) \/ x = r
  BY <1>1, <1>2, <1>3 DEF Contains
<1>6. \A n \in DOMAIN g : (n \in DOMAIN s /\ g[n] = s[n]) \/ g[n] = r
  BY <1>1, <1>2
<1> QED
  BY <1>1, <1>4, <1>5, <1>6 DEF g
-----------------------------------------------------------------------------
(* Every step keeps the invariant.                                          *)

At(p) == <<pc[p], todo[p], cur[p], items[p], entry[p], series[p], reported[p],
           pushed[p]>>

\* What other goroutines do, and the clock, takes nothing from q.
LEMMA OthersKeep ==
  ASSUME IInv, Types', UNCHANGED options, now <= now', NEW q \in Collects, UNCHANGED At(q)
  PROVE  SeriesAt(q)' /\ ReportsAt(q)'
<1>1. SeriesAt(q) /\ ReportsAt(q) /\ now \in Nat /\ now' \in Nat
      /\ reported[q] \subseteq Reports
  BY DEF IInv, Types
<1>2. Busy(q)' <=> Busy(q)
  BY DEF Busy, At
<1>3. \A r : Left(q, r)' <=> Left(q, r)
  BY <1>2 DEF Left, At
<1>4. SeriesAt(q)'
  BY <1>1, <1>2, <1>3 DEF SeriesAt, At
<1>5. \A r \in Reports : Pushed(q, r) => Pushed(q, r)'
  <2> SUFFICES ASSUME NEW r \in Reports, Pushed(q, r) PROVE Pushed(q, r)'
    OBVIOUS
  <2>1. TooOld(r.alert) => TooOld(r.alert)'
    BY <1>1, OldStaysOld DEF Reports
  <2> QED
    BY <2>1 DEF Pushed, At
<1>6. ReportsAt(q)'
  BY <1>1, <1>3, <1>5 DEF ReportsAt, At
<1> QED
  BY <1>4, <1>6

LEMMA CollectIInv == ASSUME IInv, NEW p \in Collects, Collect(p) PROVE IInv'
<1>1. PICK list \in SUBSET Listed : todo' = [todo EXCEPT ![p] = list]
  BY DEF Collect, InstanceLists
<1>2. Types' /\ PlaceState'
  BY <1>1 DEF IInv, Types, PlaceState, Collect, Goto
<1>3. SeriesAt(p)' /\ ReportsAt(p)'
  <2>1. /\ pc'[p] = "loop" /\ series'[p] = <<>> /\ reported'[p] = {}
        /\ UNCHANGED <<options, items>>
    BY DEF IInv, Types, Collect, Goto, PlaceState
  <2>2. IsInjective(<<>>) /\ DOMAIN <<>> = {} /\ (options.prom => IsInjective(items[p]))
    BY DEF IsInjective, IInv, SeriesAt
  <2> QED
    BY <2>1, <2>2 DEF SeriesAt, ReportsAt, Busy
<1>4. ASSUME NEW q \in Collects, q # p PROVE SeriesAt(q)' /\ ReportsAt(q)'
  <2>1. UNCHANGED At(q) /\ UNCHANGED <<options, now>>
    BY <1>1, <1>4 DEF IInv, Types, Collect, Goto, At
  <2>2. now <= now'
    BY <2>1 DEF IInv, Types
  <2> QED
    BY <1>2, <2>1, <2>2, OthersKeep
<1> QED
  BY <1>2, <1>3, <1>4 DEF IInv

LEMMA GetAlertsIInv ==
  ASSUME IInv, NEW p \in Collects, NEW i \in Listed, GetAlerts(p, i) PROVE IInv'
<1>1. /\ pc[p] = "loop" /\ i \in todo[p] /\ todo' = [todo EXCEPT ![p] = @ \ {i}]
      /\ UNCHANGED <<now, options, entry, series, queue, pushed>>
  BY DEF GetAlerts
<1>2. ASSUME NEW q \in Collects, q # p, Types' PROVE SeriesAt(q)' /\ ReportsAt(q)'
  <2>1. UNCHANGED At(q)
    BY <1>1, <1>2 DEF IInv, Types, GetAlerts, Report, Goto, At
  <2>2. now <= now'
    BY <1>1 DEF IInv, Types
  <2> QED
    BY <1>1, <1>2, <2>1, <2>2, OthersKeep
<1>3. SeriesAt(p) /\ ReportsAt(p) /\ Types
  BY DEF IInv
<1>4. todo'[p] = todo[p] \ {i} /\ ~ Busy(p)
  BY <1>1, <1>3 DEF Types, Busy
<1>5. CASE UNCHANGED <<pc, cur, items, reported>>
  <2>1. Types' /\ PlaceState'
    BY <1>1, <1>5 DEF IInv, Types, PlaceState
  <2>2. SeriesAt(p)'
    BY <1>1, <1>3, <1>4, <1>5 DEF SeriesAt, Busy, Left
  <2>3. ReportsAt(p)'
    BY <1>1, <1>3, <1>5 DEF ReportsAt, Left, Busy, Pushed, TooOld, Timestamp
  <2> QED
    BY <1>2, <2>1, <2>2, <2>3 DEF IInv
<1>6. ASSUME NEW list \in AlertLists, Report(p, i, list) PROVE IInv'
  <2> DEFINE news == {[inst |-> i, alert |-> a] : a \in ToSet(list)}
  <2>1. list \in Seq(Alerts) /\ ToSet(list) \subseteq Alerts
    BY ListsAreSeqs DEF ToSet
  <2>2. /\ ItemList(list) \in Seq(Alerts)
        /\ options.prom => IsInjective(ItemList(list))
        /\ \A a \in ToSet(list) : Contains(ItemList(list), a)
    BY <2>1, ItemListKeeps
  <2>3. /\ items' = [items EXCEPT ![p] = ItemList(list)]
        /\ reported' = [reported EXCEPT ![p] = reported[p] \cup news]
        /\ cur' = [cur EXCEPT ![p] = i] /\ pc' = [pc EXCEPT ![p] = "items"]
    BY <1>6 DEF Report, Goto
  <2>4. news \subseteq Reports
    BY <2>1 DEF Reports
  <2>5. /\ items'[p] = ItemList(list) /\ cur'[p] = i /\ pc'[p] = "items"
        /\ reported'[p] = reported[p] \cup news
    BY <1>3, <2>3 DEF Types
  <2>6. Types' /\ PlaceState'
    <3>1. Types'
      <4> HIDE DEF news
      <4> QED
        BY <1>1, <1>3, <2>2, <2>3, <2>4 DEF Types
    <3>2. PlaceState'
      BY <1>1, <1>3, <2>3 DEF IInv, Types, PlaceState
    <3> QED
      BY <3>1, <3>2
  <2>7. SeriesAt(p)'
    <3>1. \A n \in DOMAIN series[p] : /\ series[p][n].inst \notin todo[p]
                                     /\ series[p][n].inst # i
      BY <1>1, <1>3 DEF SeriesAt
    <3>2. i \notin todo'[p] /\ todo'[p] \subseteq todo[p]
      BY <1>4
    <3>3. IsInjective(series[p]) /\ series' = series /\ options' = options
      BY <1>1, <1>3 DEF SeriesAt
    <3>4. \A n \in DOMAIN series[p] : /\ series[p][n].inst \notin todo'[p]
                                     /\ series[p][n].inst # cur'[p]
      BY <2>5, <3>1, <3>2
    <3> QED
      BY <2>2, <2>5, <3>2, <3>3, <3>4 DEF SeriesAt, Left
  <2>8. ReportsAt(p)'
    <3> SUFFICES ASSUME NEW r \in reported'[p], r.alert.valid, ~ Left(p, r)'
                 PROVE  (options.prom => Contains(series[p], r)) /\ (options.loki => Pushed(p, r)')
      BY <1>1 DEF ReportsAt
    <3>1. r \notin news
      BY <2>2, <2>5 DEF Left, Busy
    <3>2. r \in reported[p]
      BY <2>5, <3>1
    <3>3. ~ Left(p, r)
      BY <1>4 DEF Left
    <3>4. (options.prom => Contains(series[p], r)) /\ (options.loki => Pushed(p, r))
      BY <1>3, <3>2, <3>3 DEF ReportsAt
    <3>5. Pushed(p, r) => Pushed(p, r)'
      BY <1>1 DEF Pushed, TooOld, Timestamp
    <3> QED
      BY <3>4, <3>5
  <2> QED
    BY <1>2, <2>6, <2>7, <2>8 DEF IInv
<1> QED
  BY <1>5, <1>6 DEF GetAlerts

LEMMA DropInvalidIInv == ASSUME IInv, NEW p \in Collects, DropInvalid(p) PROVE IInv'
<1>1. /\ pc[p] = "items" /\ items[p] # <<>> /\ ~ Head(items[p]).valid
      /\ items' = [items EXCEPT ![p] = Tail(items[p])]
      /\ UNCHANGED <<now, options, pc, todo, cur, entry, series, queue, reported, pushed>>
  BY DEF DropInvalid
<1>2. Types /\ items[p] \in Seq(Alerts) /\ items'[p] = Tail(items[p])
  BY <1>1 DEF IInv, Types
<1>3. /\ Tail(items[p]) \in Seq(Alerts)
      /\ \A a : Contains(Tail(items[p]), a) => Contains(items[p], a)
      /\ \A a : Contains(items[p], a) => a = Head(items[p]) \/ Contains(Tail(items[p]), a)
      /\ IsInjective(items[p]) => IsInjective(Tail(items[p]))
  BY <1>1, <1>2, WithoutHead
<1>4. Types' /\ PlaceState'
  BY <1>1, <1>2, <1>3 DEF IInv, Types, PlaceState
<1>5. \A r : Left(p, r)' => Left(p, r)
  BY <1>1, <1>2, <1>3 DEF Left, Busy
<1>6. \A r : Left(p, r) /\ r.alert.valid => Left(p, r)'
  BY <1>1, <1>2, <1>3 DEF Left, Busy
<1>7. SeriesAt(p)'
  <2>1. SeriesAt(p)
    BY DEF IInv
  <2> QED
    BY <1>1, <1>2, <1>3, <1>5, <2>1 DEF SeriesAt, Busy
<1>8. ReportsAt(p)'
  <2>1. ReportsAt(p)
    BY DEF IInv
  <2>2. \A r : Pushed(p, r) => Pushed(p, r)'
    BY <1>1 DEF Pushed, TooOld, Timestamp
  <2> QED
    BY <1>1, <1>6, <2>1, <2>2 DEF ReportsAt
<1>9. ASSUME NEW q \in Collects, q # p PROVE SeriesAt(q)' /\ ReportsAt(q)'
  <2>1. UNCHANGED At(q)
    BY <1>1, <1>2, <1>9 DEF Types, At
  <2>2. now <= now'
    BY <1>1, <1>2 DEF Types
  <2> QED
    BY <1>1, <1>4, <2>1, <2>2, OthersKeep
<1> QED
  BY <1>4, <1>7, <1>8, <1>9 DEF IInv

LEMMA RecordIInv == ASSUME IInv, NEW p \in Collects, Record(p) PROVE IInv'
<1>0. PICK a, r0 : a = Head(items[p]) /\ r0 = [inst |-> cur[p], alert |-> a]
  OBVIOUS
<1>1. /\ pc[p] = "items" /\ items[p] # <<>> /\ a.valid
      /\ items' = [items EXCEPT ![p] = Tail(items[p])]
      /\ UNCHANGED <<now, options, todo, cur, queue, reported, pushed>>
  BY <1>0 DEF Record
<1>2. series' = IF options.prom THEN [series EXCEPT ![p] = Append(series[p], r0)] ELSE series
  BY <1>0 DEF Record
<1>3. IF GoesToLoki(a) THEN pc' = [pc EXCEPT ![p] = "push"] /\ entry' = [entry EXCEPT ![p] = r0]
                       ELSE UNCHANGED <<pc, entry>>
  BY <1>0 DEF Record, Goto
<1>4. /\ Types /\ items[p] \in Seq(Alerts) /\ items'[p] = Tail(items[p]) /\ series[p] \in Seq(Reports)
      /\ now \in Nat /\ SeriesAt(p) /\ ReportsAt(p) /\ PlaceState
  BY <1>1 DEF IInv, Types
<1>5. /\ a \in Alerts /\ Tail(items[p]) \in Seq(Alerts)
      /\ Contains(items[p], a)
      /\ \A b : Contains(Tail(items[p]), b) => Contains(items[p], b)
      /\ \A b : Contains(items[p], b) => b = a \/ Contains(Tail(items[p]), b)
      /\ IsInjective(items[p]) => IsInjective(Tail(items[p])) /\ ~ Contains(Tail(items[p]), a)
  BY <1>0, <1>1, <1>4, WithoutHead
<1>6. cur[p] \in Listed /\ r0 \in Reports
  <2>1. cur[p] \in Listed
    BY <1>1, <1>4 DEF SeriesAt, Busy
  <2> QED
    BY <1>0, <1>5, <2>1 DEF Reports
<1>7. /\ Append(series[p], r0) \in Seq(Reports)
      /\ \A x : Contains(Append(series[p], r0), x) <=> Contains(series[p], x) \/ x = r0
      /\ \A n \in DOMAIN Append(series[p], r0) :
           \/ n \in DOMAIN series[p] /\ Append(series[p], r0)[n] = series[p][n]
           \/ Append(series[p], r0)[n] = r0
      /\ IsInjective(series[p]) /\ ~ Contains(series[p], r0) => IsInjective(Append(series[p], r0))
  BY <1>4, <1>6, OneMore
<1>8. /\ series'[p] = IF options.prom THEN Append(series[p], r0) ELSE series[p]
      /\ pc'[p] \in {"items", "push"}
  <2>1. series \in [Collects -> Seq(Reports)] /\ pc \in [Collects -> {"idle", "loop", "items", "push"}]
    BY <1>4 DEF Types
  <2>2. series'[p] = IF options.prom THEN Append(series[p], r0) ELSE series[p]
    BY <1>2, <2>1
  <2>3. pc'[p] \in {"items", "push"}
    BY <1>1, <1>3, <2>1
  <2> QED
    BY <2>2, <2>3
<1>9. r0.inst = cur[p] /\ r0.alert = a
  BY <1>0
<1>10. Types'
  <2>1. series' \in [Collects -> Seq(Reports)]
    BY <1>2, <1>4, <1>7 DEF Types
  <2>2. /\ pc' \in [Collects -> {"idle", "loop", "items", "push"}]
        /\ entry' \in [Collects -> Reports \cup {None}]
    <3>1. /\ pc \in [Collects -> {"idle", "loop", "items", "push"}]
          /\ entry \in [Collects -> Reports \cup {None}]
      BY <1>4 DEF Types
    <3>2. CASE GoesToLoki(a)
      BY <1>3, <1>6, <3>1, <3>2
    <3>3. CASE ~ GoesToLoki(a)
      BY <1>3, <3>1, <3>3
    <3> QED
      BY <3>2, <3>3
  <2>3. items' \in [Collects -> Seq(Alerts)]
    BY <1>1, <1>4, <1>5 DEF Types
  <2> QED
    BY <1>1, <1>4, <2>1, <2>2, <2>3 DEF Types
<1>11. PlaceState'
  <2>1. /\ pc'[p] = "push" => entry'[p] = r0
        /\ pc'[p] # "idle"
    BY <1>1, <1>3, <1>4, <1>8 DEF Types
  <2>2. \A q \in Collects \ {p} : /\ pc'[q] = pc[q] /\ entry'[q] = entry[q]
                                 /\ series'[q] = series[q] /\ reported'[q] = reported[q]
    BY <1>1, <1>2, <1>3, <1>4 DEF Types
  <2> QED
    BY <1>4, <1>6, <2>1, <2>2 DEF PlaceState
<1>12. Busy(p) /\ Busy(p)' /\ Left(p, r0)
  BY <1>1, <1>5, <1>8, <1>9 DEF Busy, Left
<1>13. \A r : Left(p, r)' => Left(p, r)
  BY <1>1, <1>4, <1>5, <1>12 DEF Left
<1>14. \A r \in Reports : Left(p, r) => r = r0 \/ Left(p, r)'
  BY <1>0, <1>1, <1>4, <1>5, <1>6, <1>9, <1>12 DEF Left, Reports
<1>15. SeriesAt(p)'
  <2>1. ~ Contains(series[p], r0)
    BY <1>1, <1>4, <1>12 DEF SeriesAt, Contains, Types
  <2>2. options.prom => ~ Left(p, r0)'
    BY <1>1, <1>4, <1>5, <1>9 DEF SeriesAt, Left
  <2>3. IsInjective(series'[p])
    BY <1>4, <1>7, <1>8, <2>1 DEF SeriesAt
  <2>4. cur[p] \in Listed /\ cur[p] \notin todo[p]
    BY <1>4, <1>12 DEF SeriesAt
  <2>5. \A n \in DOMAIN series'[p] : \A r : r = series'[p][n] =>
          r.inst \notin todo[p] /\ ~ Left(p, r)'
    <3>1. \A n \in DOMAIN series[p] : \A r : r = series[p][n] =>
            r.inst \notin todo[p] /\ ~ Left(p, r)'
      BY <1>1, <1>4, <1>13 DEF SeriesAt
    <3>2. CASE options.prom
      <4>1. series'[p] = Append(series[p], r0)
        BY <1>8, <3>2
      <4> QED
        BY <1>7, <1>9, <2>2, <2>4, <3>1, <3>2, <4>1
    <3>3. CASE ~ options.prom
      BY <1>8, <3>1, <3>3
    <3> QED
      BY <3>2, <3>3
  <2>6. options.prom => IsInjective(items'[p])
    BY <1>4, <1>5 DEF SeriesAt
  <2> QED
    BY <1>1, <2>3, <2>4, <2>5, <2>6 DEF SeriesAt
<1>16. ReportsAt(p)'
  <2> SUFFICES ASSUME NEW r \in reported[p], r.alert.valid, ~ Left(p, r)'
               PROVE  /\ options.prom => Contains(series'[p], r)
                      /\ options.loki => Pushed(p, r)'
    BY <1>1 DEF ReportsAt
  <2>1. r \in Reports
    BY <1>4 DEF Types
  <2>2. CASE r = r0
    <3>1. options.prom => Contains(series'[p], r)
      BY <1>7, <1>8, <2>2
    <3>2. CASE GoesToLoki(a)
      <4>1. pc'[p] = "push" /\ entry'[p] = r0
        BY <1>3, <1>4, <3>2 DEF Types
      <4> QED
        BY <1>9, <2>2, <3>1, <4>1 DEF Pushed
    <3>3. CASE ~ GoesToLoki(a)
      <4>1. options.loki => TooOld(a)
        BY <3>3 DEF GoesToLoki
      <4>2. TooOld(a)' <=> TooOld(a)
        BY <1>1 DEF TooOld, Timestamp
      <4> QED
        BY <1>9, <2>2, <3>1, <4>1, <4>2 DEF Pushed
    <3> QED
      BY <3>2, <3>3
  <2>3. CASE r # r0
    <3>1. ~ Left(p, r)
      BY <1>14, <2>1, <2>3
    <3>2. (options.prom => Contains(series[p], r)) /\ (options.loki => Pushed(p, r))
      BY <1>4, <3>1 DEF ReportsAt
    <3>3. Pushed(p, r) => Pushed(p, r)'
      <4>1. TooOld(r.alert)' <=> TooOld(r.alert)
        BY <1>1 DEF TooOld, Timestamp
      <4> QED
        BY <1>1, <4>1 DEF Pushed
    <3>4. Contains(series[p], r) => Contains(series'[p], r)
      BY <1>7, <1>8
    <3> QED
      BY <3>2, <3>3, <3>4
  <2> QED
    BY <2>2, <2>3
<1>17. ASSUME NEW q \in Collects, q # p PROVE SeriesAt(q)' /\ ReportsAt(q)'
  <2>1. UNCHANGED At(q)
    BY <1>1, <1>2, <1>3, <1>4, <1>17 DEF Types, At
  <2>2. now <= now'
    BY <1>1, <1>4
  <2> QED
    BY <1>1, <1>10, <2>1, <2>2, OthersKeep
<1> QED
  BY <1>10, <1>11, <1>15, <1>16, <1>17 DEF IInv

LEMMA PushIInv == ASSUME IInv, NEW p \in Collects, Push(p) PROVE IInv'
<1>1. /\ pc[p] = "push" /\ pushed' = [pushed EXCEPT ![p] = pushed[p] \cup {entry[p]}]
      /\ queue' = Append(queue, entry[p]) /\ entry' = [entry EXCEPT ![p] = None]
      /\ pc' = [pc EXCEPT ![p] = "items"]
      /\ UNCHANGED <<now, options, todo, cur, items, series, reported>>
  BY DEF Push, Goto
<1>2. Types /\ SeriesAt(p) /\ ReportsAt(p) /\ PlaceState /\ entry[p] \in Reports
  BY <1>1 DEF IInv, PlaceState
<1>3. pc'[p] = "items" /\ Busy(p) /\ Busy(p)'
  BY <1>1, <1>2 DEF Types, Busy
<1>4. Types' /\ PlaceState'
  BY <1>1, <1>2 DEF Types, PlaceState
<1>5. \A r : Left(p, r)' <=> Left(p, r)
  BY <1>1, <1>3 DEF Left
<1>6. SeriesAt(p)'
  BY <1>1, <1>2, <1>3, <1>5 DEF SeriesAt
<1>7. ReportsAt(p)'
  <2>1. \A r : Pushed(p, r) => Pushed(p, r)'
    BY <1>1, <1>2 DEF Pushed, TooOld, Timestamp, Types
  <2> QED
    BY <1>1, <1>2, <1>5, <2>1 DEF ReportsAt
<1>8. ASSUME NEW q \in Collects, q # p PROVE SeriesAt(q)' /\ ReportsAt(q)'
  <2>1. UNCHANGED At(q)
    BY <1>1, <1>2, <1>8 DEF Types, At
  <2>2. now <= now'
    BY <1>1, <1>2 DEF Types
  <2> QED
    BY <1>1, <1>4, <2>1, <2>2, OthersKeep
<1> QED
  BY <1>4, <1>6, <1>7, <1>8 DEF IInv

\* Where p goes on when nothing of an instance is left.
LEMMA NextInstanceIInv == ASSUME IInv, NEW p \in Collects, NextInstance(p) PROVE IInv'
<1>1. /\ pc[p] = "items" /\ items[p] = <<>> /\ pc' = [pc EXCEPT ![p] = "loop"]
      /\ cur' = [cur EXCEPT ![p] = None]
      /\ UNCHANGED <<now, options, todo, items, entry, series, queue, reported, pushed>>
  BY DEF NextInstance, Goto
<1>2. Types /\ SeriesAt(p) /\ ReportsAt(p) /\ PlaceState
  BY DEF IInv
<1>3. Types' /\ PlaceState'
  BY <1>1, <1>2 DEF Types, PlaceState
<1>4. pc'[p] = "loop" /\ ~ Busy(p)'
  BY <1>1, <1>2 DEF Types, Busy
<1>5. \A r : ~ Left(p, r) /\ ~ Left(p, r)'
  <2>1. \A x : ~ Contains(<<>>, x)
    BY DEF Contains
  <2> QED
    BY <1>1, <1>4, <2>1 DEF Left
<1>6. SeriesAt(p)'
  BY <1>1, <1>2, <1>4, <1>5 DEF SeriesAt, Busy
<1>7. ReportsAt(p)'
  <2>1. \A r : Pushed(p, r) => Pushed(p, r)'
    BY <1>1 DEF Pushed, TooOld, Timestamp
  <2> QED
    BY <1>1, <1>2, <1>5, <2>1 DEF ReportsAt
<1>8. ASSUME NEW q \in Collects, q # p PROVE SeriesAt(q)' /\ ReportsAt(q)'
  <2>1. UNCHANGED At(q)
    BY <1>1, <1>2, <1>8 DEF Types, At
  <2>2. now <= now'
    BY <1>1, <1>2 DEF Types
  <2> QED
    BY <1>1, <1>3, <2>1, <2>2, OthersKeep
<1> QED
  BY <1>3, <1>6, <1>7, <1>8 DEF IInv

\* The Collect of p is over.
LEMMA ReturnIInv == ASSUME IInv, NEW p \in Collects, Return(p) PROVE IInv'
<1>1. /\ pc[p] = "loop" /\ pc' = [pc EXCEPT ![p] = "idle"]
      /\ series' = [series EXCEPT ![p] = <<>>] /\ reported' = [reported EXCEPT ![p] = {}]
      /\ pushed' = [pushed EXCEPT ![p] = {}]
      /\ UNCHANGED <<now, options, todo, cur, items, entry, queue>>
  BY DEF Return, Goto
<1>2. Types /\ SeriesAt(p) /\ PlaceState
  BY DEF IInv
<1>3. Types' /\ PlaceState'
  BY <1>1, <1>2 DEF Types, PlaceState
<1>4. pc'[p] = "idle" /\ series'[p] = <<>> /\ reported'[p] = {} /\ IsInjective(<<>>)
  BY <1>1, <1>2 DEF Types, IsInjective
<1>5. SeriesAt(p)' /\ ReportsAt(p)'
  BY <1>1, <1>2, <1>4 DEF SeriesAt, ReportsAt, Busy
<1>6. ASSUME NEW q \in Collects, q # p PROVE SeriesAt(q)' /\ ReportsAt(q)'
  <2>1. UNCHANGED At(q)
    BY <1>1, <1>2, <1>6 DEF Types, At
  <2>2. now <= now'
    BY <1>1, <1>2 DEF Types
  <2> QED
    BY <1>1, <1>3, <2>1, <2>2, OthersKeep
<1> QED
  BY <1>3, <1>5, <1>6 DEF IInv

\* What a Collect of the alerts holds at each place of its loops, and what was pushed.
THEOREM Invariance == Spec => []IInv
<1>1. IInv /\ [Next]_vars => IInv'
  <2> SUFFICES ASSUME IInv, [Next]_vars PROVE IInv'
    OBVIOUS
  <2>1. CASE Drain \/ Tick \/ UNCHANGED vars
    <3>1. /\ now' \in Nat /\ now <= now' /\ queue' \in Seq(Reports)
          /\ UNCHANGED <<options, pc, todo, cur, items, entry, series, reported, pushed>>
      <4>1. now \in Nat /\ queue \in Seq(Reports)
        BY DEF IInv, Types
      <4>2. queue # <<>> => Tail(queue) \in Seq(Reports)
        BY <4>1
      <4>3. now <= now /\ now + 1 \in Nat /\ now <= now + 1
        BY <4>1
      <4> QED
        BY <2>1, <4>1, <4>2, <4>3 DEF Drain, Tick, vars
    <3>2. Types' /\ PlaceState'
      BY <3>1 DEF IInv, Types, PlaceState
    <3>3. \A q \in Collects : SeriesAt(q)' /\ ReportsAt(q)'
      BY <3>1, <3>2, OthersKeep DEF At
    <3> QED
      BY <3>2, <3>3 DEF IInv
  <2>2. CASE \E p \in Collects : Collect(p) \/ Advance(p) \/ Push(p)
    BY <2>2, CollectIInv, GetAlertsIInv, DropInvalidIInv, RecordIInv, PushIInv,
       NextInstanceIInv, ReturnIInv
       DEF Advance
  <2> QED
    BY <2>1, <2>2 DEF Next
<1> QED
  BY InitIInv, <1>1, PTL DEF Spec
-----------------------------------------------------------------------------
\* The variables keep their types.
THEOREM TypeCorrect == Spec => []Types
<1>1. IInv => Types
  BY DEF IInv
<1> QED
  BY Invariance, <1>1, PTL

\* However often SAP lists an alert, and however many Collects there are, none of them
\* emits a series twice.
THEOREM NoSeriesTwice == Spec => []SeriesDistinct
<1>1. IInv => SeriesDistinct
  BY DEF IInv, SeriesAt, SeriesDistinct, IsInjective
<1> QED
  BY Invariance, <1>1, PTL

\* When a Collect ends, every alert that SAP reported to it and that can be shown has
\* been emitted, and pushed unless it is too old, whatever was listed before it.
THEOREM EveryAlertGoesOn == Spec => []NoAlertHidden
<1>1. IInv => NoAlertHidden
  <2> SUFFICES ASSUME IInv, NEW p \in Collects, pc[p] = "loop",
                      NEW r \in reported[p], r.alert.valid
               PROVE  /\ options.prom => Contains(series[p], r)
                      /\ options.loki => TooOld(r.alert) \/ r \in pushed[p]
    BY DEF NoAlertHidden
  <2>1. ~ Left(p, r)
    BY DEF Left, Busy
  <2> QED
    BY <2>1 DEF IInv, ReportsAt, Pushed
<1> QED
  BY Invariance, <1>1, PTL
-----------------------------------------------------------------------------
(* CPU times.                                                               *)

\* Quotient and remainder, and that a sum has but one.
LEMMA DivMod ==
  ASSUME NEW m \in Nat \ {0}, NEW n \in Nat
  PROVE  /\ n \div m \in Nat /\ n % m \in 0..(m - 1)
         /\ n = m * (n \div m) + (n % m)
BY Z3

LEMMA OneRemainder ==
  ASSUME NEW m \in Nat \ {0}, NEW q \in Int, NEW p \in Int,
         NEW r \in 0..(m - 1), NEW s \in 0..(m - 1), m * q + r = m * p + s
  PROVE  r = s
<1> DEFINE k == q - p
<1>1. k \in Int
  OBVIOUS
<1>2. m * k = s - r
  BY Z3
<1> HIDE DEF k
<1>3. k >= 1 => m * k >= m
  BY <1>1, Z3
<1>4. k =< -1 => m * k =< -m
  BY <1>1, Z3
<1>5. k = 0
  BY <1>1, <1>2, <1>3, <1>4, Z3
<1> QED
  BY <1>2, <1>5, Z3

\* A unit k is so many units m.
Multiple(k, m) == \E j \in Nat \ {0} : k = m * j

\* What is left over after the k is so many m, and leaves over what the whole leaves.
LEMMA Within ==
  ASSUME NEW m \in Nat \ {0}, NEW k \in Nat \ {0}, Multiple(k, m), NEW n \in Nat
  PROVE  /\ (n % k) \div m \in Nat
         /\ n % k = m * ((n % k) \div m) + (n % m)
<1>0. PICK j \in Nat \ {0} : k = m * j
  BY DEF Multiple
<1> DEFINE q == n \div m  r == n % m  p == n \div k  s == n % k
           u == s \div m  v == s % m  w == j * p + u
<1>1. q \in Nat /\ r \in 0..(m - 1) /\ n = m * q + r
  BY DivMod
<1>2. p \in Nat /\ s \in 0..(k - 1) /\ n = k * p + s
  <2> HIDE DEF q, r, u, v, w
  <2>1. \A l \in Nat \ {0} : n \div l \in Nat /\ n % l \in 0..(l - 1)
                            /\ n = l * (n \div l) + (n % l)
    BY DivMod
  <2> QED
    BY <2>1, Zenon
<1>3. s \in Nat
  BY <1>2
<1> HIDE DEF s
<1>4. u \in Nat /\ v \in 0..(m - 1) /\ s = m * u + v
  BY <1>3, DivMod
<1> HIDE DEF q, r, p, u, v
<1>5. m * (j * p + u) = k * p + m * u
  <2>1. /\ m \in Int /\ j \in Int /\ p \in Int /\ u \in Int
    BY <1>2, <1>4
  <2>2. \A a, b, c \in Int : (a * b) * c = a * (b * c) /\ a * (b + c) = a * b + a * c
                           /\ a * b \in Int
    BY Z3
  <2>3. m * (j * p) = k * p
    BY <1>0, <2>1, <2>2
  <2>4. j * p \in Int
    BY <2>1, <2>2
  <2>5. m * (j * p + u) = m * (j * p) + m * u
    BY <2>1, <2>2, <2>4
  <2> QED
    BY <2>3, <2>5
<1>6. m * q + r = m * w + v /\ w \in Int
  <2>1. w \in Int /\ m * w = k * p + m * u
    BY <1>2, <1>4, <1>5
  <2> HIDE DEF w
  <2> DEFINE x == k * p  y == m * u  z == m * q  o == m * w
  <2>2. x \in Int /\ y \in Int /\ z \in Int /\ o = x + y
    BY <1>1, <1>2, <1>4, <2>1
  <2>3. n = z + r /\ n = x + s /\ s = y + v
    BY <1>1, <1>2, <1>4
  <2>4. r \in Int /\ v \in Int /\ s \in Int /\ n \in Int
    BY <1>1, <1>2, <1>4
  <2>5. z + r = o + v
    <3> HIDE DEF x, y, z, o
    <3> QED
      BY <2>2, <2>3, <2>4
  <2> QED
    BY <2>1, <2>5
<1> HIDE DEF w
<1>7. r = v
  BY <1>1, <1>4, <1>6, OneRemainder
<1> QED
  BY <1>4, <1>7 DEF r, s, u, v

\* A time in units of d, h, m and s, each a number of the next, in four parts or fewer.
Splits(t, d, h, m, s) ==
  /\ t \div d \in Nat /\ t \div h \in Nat /\ t \div m \in Nat /\ t \div s = t
  /\ (t % d) \div h \in Nat /\ (t % h) \div m \in Nat /\ (t % m) \div s \in Nat
  /\ t = d * (t \div d) + h * ((t % d) \div h) + m * ((t % h) \div m) + ((t % m) \div s)
  /\ t = h * (t \div h) + m * ((t % h) \div m) + ((t % m) \div s)
  /\ t = m * (t \div m) + ((t % m) \div s)

LEMMA TimeSplits ==
  ASSUME NEW t \in Nat, NEW d \in Nat \ {0}, NEW h \in Nat \ {0}, NEW m \in Nat \ {0},
         NEW s \in Nat, s = 1, Multiple(d, h), Multiple(h, m)
  PROVE  Splits(t, d, h, m, s)
<1>1. s \in Nat \ {0}
  OBVIOUS
<1>2. \A n \in Nat : n \div s = n
  <2> SUFFICES ASSUME NEW n \in Nat PROVE n \div s = n
    OBVIOUS
  <2>1. n \div s \in Nat /\ n % s \in 0..(s - 1) /\ n = s * (n \div s) + (n % s)
    BY <1>1, DivMod
  <2> DEFINE q == n \div s  r == n % s
  <2> HIDE DEF q, r
  <2>2. q \in Nat /\ r \in 0..(s - 1) /\ n = s * q + r
    BY <2>1 DEF q, r
  <2>3. q = n
    BY <2>2
  <2> QED
    BY <2>3 DEF q
<1>3. /\ t \div d \in Nat /\ t = d * (t \div d) + (t % d)
  BY DivMod
<1>4. /\ t \div h \in Nat /\ t = h * (t \div h) + (t % h)
  BY DivMod
<1>5. /\ t \div m \in Nat /\ t % m \in 0..(m - 1) /\ t = m * (t \div m) + (t % m)
  BY DivMod
<1>6. (t % d) \div h \in Nat /\ t % d = h * ((t % d) \div h) + (t % h)
  BY Within
<1>7. (t % h) \div m \in Nat /\ t % h = m * ((t % h) \div m) + (t % m)
  BY Within
<1>8. t % m \in Nat
  BY <1>5
<1>9. (t % m) \div s = t % m /\ t \div s = t
  BY <1>2, <1>8
<1> DEFINE a == d * (t \div d)  b == h * (t \div h)  c == m * (t \div m)
           e == h * ((t % d) \div h)  f == m * ((t % h) \div m)
           x == t % d  y == t % h  z == t % m
<1>10. t = a + x /\ t = b + y /\ t = c + z /\ x = e + y /\ y = f + z
  BY <1>3, <1>4, <1>5, <1>6, <1>7
<1>11. a \in Int /\ b \in Int /\ c \in Int /\ e \in Int /\ f \in Int /\ z \in Int
  BY <1>3, <1>4, <1>5, <1>6, <1>7, <1>8
<1>12. t = a + e + f + z /\ t = b + f + z /\ t = c + z
  <2> HIDE DEF a, b, c, e, f, x, y, z
  <2> QED
    BY <1>10, <1>11
<1> QED
  BY <1>3, <1>4, <1>5, <1>6, <1>7, <1>8, <1>9, <1>12 DEF Splits

\* A time is read as it was written, in however many parts.
LEMMA ReadAsWritten ==
  ASSUME NEW t \in Nat, NEW n \in 0..4, n = 0 => t = 0
  PROVE  ParceCPUTime(Written(t, n)) = [value |-> t, err |-> FALSE]
<1> DEFINE d == Multiplier[1]  h == Multiplier[2]  m == Multiplier[3]  s == Multiplier[4]
           text == Written(t, n)
           part == [k \in 1..4 |-> IF Len(text) - 4 + k > 0 THEN text[Len(text) - 4 + k] ELSE 0]
<1>1. /\ d \in Nat \ {0} /\ h \in Nat \ {0} /\ m \in Nat \ {0} /\ s \in Nat
      /\ s = 1 /\ d = h * 24 /\ h = m * 60
  BY DEF Multiplier
<1>2. /\ t \div d \in Nat /\ t \div h \in Nat /\ t \div m \in Nat /\ t \div s = t
      /\ (t % d) \div h \in Nat /\ (t % h) \div m \in Nat /\ (t % m) \div s \in Nat
      /\ t = d * (t \div d) + h * ((t % d) \div h) + m * ((t % h) \div m) + ((t % m) \div s)
      /\ t = h * (t \div h) + m * ((t % h) \div m) + ((t % m) \div s)
      /\ t = m * (t \div m) + ((t % m) \div s)
  <2> HIDE DEF d, h, m, s
  <2>1. Multiple(d, h)
    <3>1. 24 \in Nat \ {0} /\ d = h * 24
      BY <1>1
    <3> QED
      BY <3>1 DEF Multiple
  <2>2. Multiple(h, m)
    <3>1. 60 \in Nat \ {0} /\ h = m * 60
      BY <1>1
    <3> QED
      BY <3>1 DEF Multiple
  <2>3. d \in Nat \ {0} /\ h \in Nat \ {0} /\ m \in Nat \ {0} /\ s \in Nat /\ s = 1
    BY <1>1
  <2>4. Splits(t, d, h, m, s)
    BY <2>1, <2>2, <2>3, TimeSplits, Zenon
  <2> QED
    BY <2>4 DEF Splits
<1>3. text = [k \in 1..n |-> IF k = 1 THEN t \div Multiplier[4 - n + 1]
                             ELSE (t % Multiplier[4 - n + k - 1]) \div Multiplier[4 - n + k]]
      /\ Len(text) = n
  BY DEF Written
<1>4. /\ part[1] \in Nat /\ part[2] \in Nat /\ part[3] \in Nat /\ part[4] \in Nat
      /\ t = part[1] * d + part[2] * h + part[3] * m + part[4] * s
  <2> DEFINE M(k) == Multiplier[k]
  <2>1. \A k \in 1..n : text[k] = IF k = 1 THEN t \div M(4 - n + 1)
                                  ELSE (t % M(4 - n + k - 1)) \div M(4 - n + k)
    BY <1>3
  <2>2. part = [k \in 1..4 |-> IF k > 4 - n THEN text[n - 4 + k] ELSE 0]
    BY <1>3
  <2> DEFINE a == t \div d  b == t \div h  c == t \div m  e == t \div s
             x == (t % d) \div h  y == (t % h) \div m  z == (t % m) \div s
  <2>3. CASE n = 0
    <3>1. part[1] = 0 /\ part[2] = 0 /\ part[3] = 0 /\ part[4] = 0
      BY <2>2, <2>3
    <3>2. t = 0
      BY <2>3
    <3> HIDE DEF d, h, m, s, part
    <3> QED
      BY <1>1, <3>1, <3>2
  <2>4. CASE n = 1
    <3>1. part[1] = 0 /\ part[2] = 0 /\ part[3] = 0 /\ part[4] = text[1]
      BY <2>2, <2>4
    <3>2. text[1] = t \div M(4)
      BY <2>1, <2>4
    <3>3. text[1] = t
      BY <1>2, <3>2
    <3> HIDE DEF d, h, m, s, part, text
    <3> QED
      BY <1>1, <3>1, <3>3
  <2>5. CASE n = 2
    <3>1. part[1] = 0 /\ part[2] = 0 /\ part[3] = text[1] /\ part[4] = text[2]
      BY <2>2, <2>5
    <3>2. text[1] = t \div M(3) /\ text[2] = (t % M(3)) \div M(4)
      BY <2>1, <2>5
    <3>3. text[1] = c /\ text[2] = z /\ t = m * c + z /\ c \in Nat /\ z \in Nat
      BY <1>2, <3>2
    <3> HIDE DEF d, h, m, s, part, text, c, z
    <3> QED
      BY <1>1, <3>1, <3>3
  <2>6. CASE n = 3
    <3>1. part[1] = 0 /\ part[2] = text[1] /\ part[3] = text[2] /\ part[4] = text[3]
      BY <2>2, <2>6
    <3>2. /\ text[1] = t \div M(2) /\ text[2] = (t % M(2)) \div M(3)
          /\ text[3] = (t % M(3)) \div M(4)
      BY <2>1, <2>6
    <3>3. /\ text[1] = b /\ text[2] = y /\ text[3] = z /\ t = h * b + m * y + z
          /\ b \in Nat /\ y \in Nat /\ z \in Nat
      BY <1>2, <3>2
    <3> HIDE DEF d, h, m, s, part, text, b, y, z
    <3> QED
      BY <1>1, <3>1, <3>3
  <2>7. CASE n = 4
    <3>1. part[1] = text[1] /\ part[2] = text[2] /\ part[3] = text[3] /\ part[4] = text[4]
      BY <2>2, <2>7
    <3>2. /\ text[1] = t \div M(1) /\ text[2] = (t % M(1)) \div M(2)
          /\ text[3] = (t % M(2)) \div M(3) /\ text[4] = (t % M(3)) \div M(4)
      BY <2>1, <2>7
    <3>3. /\ text[1] = a /\ text[2] = x /\ text[3] = y /\ text[4] = z
          /\ t = d * a + h * x + m * y + z
          /\ a \in Nat /\ x \in Nat /\ y \in Nat /\ z \in Nat
      BY <1>2, <3>2
    <3> HIDE DEF d, h, m, s, part, text, a, x, y, z
    <3> QED
      BY <1>1, <3>1, <3>3
  <2> QED
    BY <2>3, <2>4, <2>5, <2>6, <2>7
<1>5. ParceCPUTime(text) = Total(part)
  BY DEF ParceCPUTime
<1>6. \A k \in 1..4 : part[k] # Unreadable
  BY <1>4, ConversionsAssumption DEF ConversionsAssumption
<1> QED
  BY <1>4, <1>5, <1>6 DEF Total

\* A time of which a part is no number is not read.
LEMMA GarbledRefused ==
  ASSUME NEW t \in Nat, NEW n \in 1..4, NEW bad \in 1..n
  PROVE  ParceCPUTime([Written(t, n) EXCEPT ![bad] = Unreadable]).err
<1> DEFINE text == [Written(t, n) EXCEPT ![bad] = Unreadable]
           part == [k \in 1..4 |-> IF Len(text) - 4 + k > 0 THEN text[Len(text) - 4 + k] ELSE 0]
<1>1. DOMAIN text = 1..n /\ text[bad] = Unreadable
  BY DEF Written
<1>2. Len(text) = n
  <2> HIDE DEF text
  <2>1. text = [k \in 1..n |-> text[k]]
    <3>1. text = [k \in DOMAIN text |-> text[k]]
      BY DEF Written, text
    <3> QED
      BY <1>1, <3>1
  <2> QED
    BY <2>1
<1>3. part[4 - n + bad] = Unreadable /\ 4 - n + bad \in 1..4
  BY <1>1, <1>2
<1>4. ParceCPUTime(text) = Total(part)
  BY DEF ParceCPUTime
<1> HIDE DEF text, part
<1>5. Total(part) = [value |-> 0, err |-> TRUE]
  BY <1>3 DEF Total
<1>6. ParceCPUTime(text).err
  BY <1>4, <1>5
<1> QED
  BY <1>6 DEF text

\* Fields of a process that has used that time: SAP wrote nothing, or the time, in some
\* form, or something that cannot be read.
MayStand(text, time) ==
  \/ text = <<>>
  \/ \E n \in 1..4 : text = Written(time, n)
  \/ ParceCPUTime(text).err

\* The series of the process is not beyond the time used, and later ones have no series
\* yet.
TimeState ==
  /\ used \in Nat /\ pid \in 1..MaxPid
  /\ MayStand(cpu, used)
  /\ counter \in [1..MaxPid -> Int]
  /\ counter[pid] <= used
  /\ \A p \in 1..MaxPid : p > pid => counter[p] = -1

\* Nothing is what a time of 0 looks like in no parts.
LEMMA NothingIsZero == ParceCPUTime(<<>>) = [value |-> 0, err |-> FALSE]
<1>1. Written(0, 0) = <<>>
  BY DEF Written
<1>2. ParceCPUTime(Written(0, 0)) = [value |-> 0, err |-> FALSE]
  BY ReadAsWritten
<1> QED
  BY <1>1, <1>2

\* What is read from such a field is the time used, or 0 if there is nothing in it.
LEMMA ReadsTheTimeUsed == TimeState => CpuFaithful
<1> SUFFICES ASSUME TimeState, ~ ParceCPUTime(cpu).err
             PROVE  ParceCPUTime(cpu).value = IF cpu = <<>> THEN 0 ELSE used
  BY DEF CpuFaithful
<1>1. used \in Nat /\ (cpu = <<>> \/ \E n \in 1..4 : cpu = Written(used, n))
  BY DEF TimeState, MayStand
<1>2. CASE cpu = <<>>
  BY <1>2, NothingIsZero
<1>3. CASE cpu # <<>>
  <2>1. PICK n \in 1..4 : cpu = Written(used, n)
    BY <1>1, <1>3
  <2>2. ParceCPUTime(Written(used, n)) = [value |-> used, err |-> FALSE]
    BY <1>1, ReadAsWritten
  <2> QED
    BY <1>3, <2>1, <2>2
<1> QED
  BY <1>2, <1>3

\* The field, once SAP has written to it.
LEMMA FieldWritten ==
  ASSUME NEW time \in Nat, Writes(time)
  PROVE  MayStand(cpu', time)
<1>1. Forms \subseteq 0..4
  BY ConversionsAssumption DEF ConversionsAssumption
<1>2. CASE \E parts \in Forms : cpu' = Written(time, parts)
  <2>1. PICK parts \in Forms : cpu' = Written(time, parts)
    BY <1>2
  <2>2. parts = 0 => cpu' = <<>>
    BY <2>1 DEF Written
  <2>3. parts = 0 \/ parts \in 1..4
    BY <1>1
  <2> QED
    BY <2>1, <2>2, <2>3 DEF MayStand
<1>3. CASE \E parts \in Forms \ {0} : \E bad \in 1..parts :
             cpu' = [Written(time, parts) EXCEPT ![bad] = Unreadable]
  <2>1. PICK parts \in Forms \ {0} : \E bad \in 1..parts :
               cpu' = [Written(time, parts) EXCEPT ![bad] = Unreadable]
    BY <1>3
  <2>2. PICK bad \in 1..parts : cpu' = [Written(time, parts) EXCEPT ![bad] = Unreadable]
    BY <2>1
  <2>3. parts \in 1..4
    BY <1>1
  <2>4. ParceCPUTime([Written(time, parts) EXCEPT ![bad] = Unreadable]).err
    BY <2>3, GarbledRefused
  <2> QED
    BY <2>2, <2>4 DEF MayStand
<1> QED
  BY <1>2, <1>3 DEF Writes

\* The four kinds of steps of the work process and its series.
LEMMA TimeSteps ==
  [AnswersNext]_<<times, wireVars>> => Run \/ Restart \/ sendCpu \/ UNCHANGED <<pid, used, cpu, counter>>
  BY DEF AnswersNext, Read, ConvertCpu, ConvertColour, Raise, times

LEMMA TimeStateStart == AnswersInit => TimeState
<1> SUFFICES ASSUME AnswersInit PROVE TimeState
  OBVIOUS
<1>1. /\ pid = 1 /\ used = 0 /\ cpu = <<>> /\ counter = [p \in 1..MaxPid |-> -1]
  BY DEF AnswersInit, StartTimes
<1>2. 1 \in 1..MaxPid
  BY ConversionsAssumption DEF ConversionsAssumption
<1> QED
  BY <1>1, <1>2 DEF TimeState, MayStand

LEMMA TimeStateKept == TimeState /\ [AnswersNext]_<<times, wireVars>> => TimeState'
<1> SUFFICES ASSUME TimeState, [AnswersNext]_<<times, wireVars>> PROVE TimeState'
  OBVIOUS
<1>0. /\ used \in Nat /\ pid \in 1..MaxPid /\ counter \in [1..MaxPid -> Int] /\ counter[pid] <= used
      /\ \A p \in 1..MaxPid : p > pid => counter[p] = -1
      /\ Seconds \subseteq Nat /\ MaxPid \in Nat
  BY ConversionsAssumption DEF TimeState, ConversionsAssumption
<1>1. CASE Run
  <2>1. PICK time \in Seconds : time >= used /\ used' = time /\ Writes(time)
    BY <1>1 DEF Run
  <2>2. MayStand(cpu', used')
    BY <1>0, <2>1, FieldWritten
  <2>3. pid' = pid /\ counter' = counter /\ used' \in Nat /\ counter[pid] <= used'
    BY <1>0, <1>1, <2>1 DEF Run
  <2>4. MayStand(cpu, used)'
    BY <2>2 DEF MayStand
  <2> QED
    BY <1>0, <2>3, <2>4 DEF TimeState
<1>2. CASE Restart
  <2>1. MayStand(cpu', used')
    BY <1>2, FieldWritten DEF Restart
  <2>2. pid' = pid + 1 /\ pid' \in 1..MaxPid /\ used' = 0 /\ counter' = counter
    BY <1>0, <1>2 DEF Restart
  <2>3. counter'[pid'] = -1 /\ \A p \in 1..MaxPid : p > pid' => counter'[p] = -1
    BY <1>0, <2>2
  <2>4. MayStand(cpu, used)'
    BY <2>1 DEF MayStand
  <2> QED
    BY <1>0, <2>2, <2>3, <2>4 DEF TimeState
<1>3. CASE sendCpu
  <2>1. ParceCPUTime(cpu).value \in {0, used}
    BY <1>3, ReadsTheTimeUsed DEF sendCpu, CpuFaithful
  <2>2. /\ counter' = [counter EXCEPT ![pid] = ParceCPUTime(cpu).value]
        /\ UNCHANGED <<pid, used, cpu>>
    BY <1>3 DEF sendCpu
  <2>3. MayStand(cpu, used)'
    BY <2>2 DEF TimeState, MayStand
  <2> QED
    BY <1>0, <2>1, <2>2, <2>3 DEF TimeState
<1>4. CASE UNCHANGED <<pid, used, cpu, counter>>
  BY <1>4 DEF TimeState, MayStand
<1> QED
  BY <1>1, <1>2, <1>3, <1>4, TimeSteps

LEMMA TimeStateInvariance == AnswersSpec => []TimeState
<1> QED
  BY TimeStateStart, TimeStateKept, PTL DEF AnswersSpec

\* A sample is the CPU time that the process has used, in however many parts SAP wrote
\* it, and 0 if SAP wrote nothing (webservice.go:439-465): for every time, not for those
\* of the run.
THEOREM TimesFaithful == AnswersSpec => []CpuFaithful
  BY TimeStateInvariance, ReadsTheTimeUsed, PTL

\* A series of a process decreases only when SAP sends no time, and then to 0
\* (workprocess.go:143).
THEOREM CountersFallOnlyWhenEmpty == AnswersSpec => CounterFallsOnlyWhenEmpty
<1>1. TimeState /\ [AnswersNext]_<<times, wireVars>>
      => [\A p \in 1..MaxPid :
            counter'[p] < counter[p] => p = pid /\ cpu = <<>> /\ counter'[p] = 0]_times
  <2> SUFFICES ASSUME TimeState, [AnswersNext]_<<times, wireVars>>, NEW p \in 1..MaxPid,
                      counter'[p] < counter[p]
               PROVE  p = pid /\ cpu = <<>> /\ counter'[p] = 0
    OBVIOUS
  <2>0. counter \in [1..MaxPid -> Int] /\ counter[pid] <= used /\ used \in Nat /\ pid \in 1..MaxPid
    BY DEF TimeState
  <2>1. counter' # counter
    <3>1. counter[p] \in Int
      BY <2>0
    <3> QED
      BY <3>1
  <2>2. sendCpu
    BY <2>1, TimeSteps DEF Run, Restart
  <2>3. ParceCPUTime(cpu).value = IF cpu = <<>> THEN 0 ELSE used
    BY <2>2, ReadsTheTimeUsed DEF sendCpu, CpuFaithful
  <2>4. counter' = [counter EXCEPT ![pid] = ParceCPUTime(cpu).value]
    BY <2>2 DEF sendCpu
  <2>5. p = pid
    BY <2>0, <2>4
  <2>6. counter'[p] = ParceCPUTime(cpu).value
    BY <2>0, <2>4, <2>5
  <2>7. cpu = <<>>
    BY <2>0, <2>3, <2>5, <2>6
  <2> QED
    BY <2>3, <2>5, <2>6, <2>7
<1> QED
  BY <1>1, TimeStateInvariance, PTL DEF AnswersSpec, CounterFallsOnlyWhenEmpty
-----------------------------------------------------------------------------
(* The wire.                                                                *)

\* Types of the elements of a row.
ElementTypes == {"string", "STATECOLOR", "int32", "int64", "float64"}

LEMMA RowTypes ==
  ASSUME NEW names, DOMAIN names \subseteq ElementTypes
  PROVE  /\ DOMAIN Wire!Row(names) = UNION {names[type] : type \in DOMAIN names}
         /\ \A e \in DOMAIN Wire!Row(names) :
              Wire!Row(names)[e] \in DOMAIN names /\ Wire!Row(names)[e] \in ElementTypes
<1> DEFINE all == UNION {names[type] : type \in DOMAIN names}
           of(e) == CHOOSE type \in DOMAIN names : e \in names[type]
<1>1. Wire!Row(names) = [e \in all |-> of(e)]
  BY DEF Wire!Row
<1>2. ASSUME NEW e \in all PROVE of(e) \in DOMAIN names
  <2>1. \E type \in DOMAIN names : e \in names[type]
    OBVIOUS
  <2> QED
    BY <2>1
<1> HIDE DEF all, of
<1>3. DOMAIN Wire!Row(names) = all /\ \A e \in all : Wire!Row(names)[e] = of(e)
  BY <1>1
<1> QED
  BY <1>2, <1>3 DEF all

\* What the exporter expects of an element, and what the binding says of it: the same
\* type, or any text for what is a number.
Fits(expected, response) ==
  /\ expected.root = response.root /\ expected.list = response.list
  /\ DOMAIN expected.row \subseteq DOMAIN response.row
  /\ \A e \in DOMAIN response.row : response.row[e] \in ElementTypes
  /\ \A e \in DOMAIN expected.row :
       \/ expected.row[e] = response.row[e]
       \/ expected.row[e] = "string" /\ response.row[e] # "STATECOLOR"
  /\ \E e \in DOMAIN expected.row : e # "error"

LEMMA SameFits ==
  ASSUME NEW names, DOMAIN names \subseteq ElementTypes, NEW root, NEW list,
         \E type \in DOMAIN names : \E e \in names[type] : e # "error"
  PROVE  Fits(Wire!Response(root, list, Wire!Row(names)),
              Wire!Response(root, list, Wire!Row(names)))
<1> DEFINE row == Wire!Row(names)  r == Wire!Response(root, list, row)
<1>1. r = [root |-> root, list |-> list, row |-> row]
  BY DEF Wire!Response
<1>2. \A e \in DOMAIN row : row[e] \in ElementTypes
  BY RowTypes
<1>3. \E e \in DOMAIN row : e # "error"
  <2>1. PICK type \in DOMAIN names : \E e \in names[type] : e # "error"
    OBVIOUS
  <2>2. PICK e \in names[type] : e # "error"
    BY <2>1
  <2>3. e \in UNION {names[t] : t \in DOMAIN names}
    BY <2>2
  <2>4. e \in DOMAIN row
    BY <2>3, RowTypes
  <2> QED
    BY <2>2, <2>4
<1> HIDE DEF row, r
<1>4. Fits(r, r)
  BY <1>1, <1>2, <1>3 DEF Fits
<1> QED
  BY <1>4 DEF r, row

LEMMA WorkProcessFits ==
  Fits(Wire!Expects["ABAPGetWPTable"], Wire!SAPControlPortType["ABAPGetWPTable"].response)
<1> DEFINE texts == {"Typ", "Status", "Reason", "Start", "Err", "Sem", "Cpu", "Time", "Program",
                     "Client", "User", "Action", "Table"}
           theirs == [int32 |-> {"No", "Pid"}, string |-> texts]
           ours == [string |-> {"No", "Typ", "Pid", "Status", "Reason", "Start", "Err", "Sem",
                       "Cpu", "Time", "Program", "Client", "User", "Action", "Table"}]
<1>1. DOMAIN theirs = {"int32", "string"} /\ DOMAIN ours = {"string"}
  OBVIOUS
<1>2. /\ UNION {theirs[type] : type \in DOMAIN theirs} = {"No", "Pid"} \cup texts
      /\ UNION {ours[type] : type \in DOMAIN ours} = {"No", "Pid"} \cup texts
  OBVIOUS
<1>3. Wire!WorkProcess = Wire!Row(ours) /\ Wire!wsdlWorkProcess = Wire!Row(theirs)
  BY DEF Wire!WorkProcess, Wire!wsdlWorkProcess
<1> DEFINE o == Wire!Row(ours)  t == Wire!Row(theirs)
<1> HIDE DEF theirs, ours
<1>4. /\ DOMAIN o = {"No", "Pid"} \cup texts /\ DOMAIN t = {"No", "Pid"} \cup texts
      /\ \A e \in DOMAIN o : o[e] = "string"
      /\ \A e \in DOMAIN t : t[e] \in {"int32", "string"}
  <2>1. DOMAIN ours \subseteq ElementTypes /\ DOMAIN theirs \subseteq ElementTypes
    BY <1>1 DEF ElementTypes
  <2> HIDE DEF texts
  <2> QED
    BY <1>1, <1>2, <2>1, RowTypes
<1>5. /\ Wire!Expects["ABAPGetWPTable"] = Wire!Response("ABAPGetWPTableResponse", "workprocess", o)
      /\ Wire!SAPControlPortType["ABAPGetWPTable"].response
           = Wire!Response("ABAPGetWPTableResponse", "workprocess", t)
  BY <1>3 DEF Wire!Expects, Wire!SAPControlPortType, Wire!wsdlABAPGetWPTable, Wire!Method,
              Wire!wsdlABAPGetWPTableResponse
<1>6. "Cpu" \in DOMAIN o
  BY <1>4
<1> HIDE DEF o, t, texts
<1>7. Fits(Wire!Response("ABAPGetWPTableResponse", "workprocess", o),
           Wire!Response("ABAPGetWPTableResponse", "workprocess", t))
  BY <1>4, <1>6 DEF Fits, Wire!Response, ElementTypes
<1> QED
  BY <1>5, <1>7

LEMMA OthersFit ==
  \A o \in Wire!Operations \ {"ABAPGetWPTable"} :
    Fits(Wire!Expects[o], Wire!SAPControlPortType[o].response)
<1>1. Fits(Wire!Expects["GetProcessList"], Wire!SAPControlPortType["GetProcessList"].response)
  <2> DEFINE names == [string |-> {"name", "description", "textstatus", "starttime", "elapsedtime"},
                    STATECOLOR |-> {"dispstatus"},
                    int32 |-> {"pid"}]
  <2>1. DOMAIN names \subseteq ElementTypes /\ "name" \in names["string"]
        /\ "string" \in DOMAIN names /\ "name" # "error"
    BY DEF ElementTypes
  <2>2. Wire!OSProcess = Wire!Row(names) /\ Wire!wsdlOSProcess = Wire!Row(names)
    BY DEF Wire!OSProcess, Wire!wsdlOSProcess
  <2> HIDE DEF names
  <2>3. /\ Wire!Expects["GetProcessList"] = Wire!Response("GetProcessListResponse", "process", Wire!Row(names))
        /\ Wire!SAPControlPortType["GetProcessList"].response
             = Wire!Response("GetProcessListResponse", "process", Wire!Row(names))
    BY <2>2 DEF Wire!Expects, Wire!SAPControlPortType, Wire!Method, Wire!wsdlGetProcessList,
                Wire!wsdlGetProcessListResponse
  <2> QED
    BY <2>1, <2>3, SameFits
<1>2. Fits(Wire!Expects["GetAlerts"], Wire!SAPControlPortType["GetAlerts"].response)
  <2> DEFINE names == [string |-> {"Object", "Attribute", "Description", "Time", "Tid", "Aid"},
                    STATECOLOR |-> {"Value"}]
  <2>1. DOMAIN names \subseteq ElementTypes /\ "Object" \in names["string"]
        /\ "string" \in DOMAIN names /\ "Object" # "error"
    BY DEF ElementTypes
  <2>2. Wire!Alert = Wire!Row(names) /\ Wire!wsdlAlert = Wire!Row(names)
    BY DEF Wire!Alert, Wire!wsdlAlert
  <2> HIDE DEF names
  <2>3. /\ Wire!Expects["GetAlerts"] = Wire!Response("GetAlertsResponse", "alert", Wire!Row(names))
        /\ Wire!SAPControlPortType["GetAlerts"].response
             = Wire!Response("GetAlertsResponse", "alert", Wire!Row(names))
    BY <2>2 DEF Wire!Expects, Wire!SAPControlPortType, Wire!Method, Wire!wsdlGetAlerts,
                Wire!wsdlGetAlertsResponse
  <2> QED
    BY <2>1, <2>3, SameFits
<1>3. Fits(Wire!Expects["GetQueueStatistic"], Wire!SAPControlPortType["GetQueueStatistic"].response)
  <2> DEFINE names == [string |-> {"Typ"},
                    int32 |-> {"Now", "High", "Max", "Writes", "Reads"}]
  <2>1. DOMAIN names \subseteq ElementTypes /\ "Typ" \in names["string"]
        /\ "string" \in DOMAIN names /\ "Typ" # "error"
    BY DEF ElementTypes
  <2>2. Wire!TaskHandlerQueue = Wire!Row(names) /\ Wire!wsdlTaskHandlerQueue = Wire!Row(names)
    BY DEF Wire!TaskHandlerQueue, Wire!wsdlTaskHandlerQueue
  <2> HIDE DEF names
  <2>3. /\ Wire!Expects["GetQueueStatistic"] = Wire!Response("GetQueueStatisticResponse", "queue", Wire!Row(names))
        /\ Wire!SAPControlPortType["GetQueueStatistic"].response
             = Wire!Response("GetQueueStatisticResponse", "queue", Wire!Row(names))
    BY <2>2 DEF Wire!Expects, Wire!SAPControlPortType, Wire!Method, Wire!wsdlGetQueueStatistic,
                Wire!wsdlGetQueueStatisticResponse
  <2> QED
    BY <2>1, <2>3, SameFits
<1>4. Fits(Wire!Expects["GetInstanceProperties"], Wire!SAPControlPortType["GetInstanceProperties"].response)
  <2> DEFINE names == [string |-> {"property", "propertytype", "value"}]
  <2>1. DOMAIN names \subseteq ElementTypes /\ "property" \in names["string"]
        /\ "string" \in DOMAIN names /\ "property" # "error"
    BY DEF ElementTypes
  <2>2. Wire!InstanceProperty = Wire!Row(names) /\ Wire!wsdlInstanceProperty = Wire!Row(names)
    BY DEF Wire!InstanceProperty, Wire!wsdlInstanceProperty
  <2> HIDE DEF names
  <2>3. /\ Wire!Expects["GetInstanceProperties"] = Wire!Response("GetInstancePropertiesResponse", "properties", Wire!Row(names))
        /\ Wire!SAPControlPortType["GetInstanceProperties"].response
             = Wire!Response("GetInstancePropertiesResponse", "properties", Wire!Row(names))
    BY <2>2 DEF Wire!Expects, Wire!SAPControlPortType, Wire!Method, Wire!wsdlGetInstanceProperties,
                Wire!wsdlGetInstancePropertiesResponse
  <2> QED
    BY <2>1, <2>3, SameFits
<1>5. Fits(Wire!Expects["GetSystemInstanceList"], Wire!SAPControlPortType["GetSystemInstanceList"].response)
  <2> DEFINE names == [string |-> {"hostname", "startPriority", "features"},
                    int32 |-> {"instanceNr", "httpPort", "httpsPort"},
                    STATECOLOR |-> {"dispstatus"}]
  <2>1. DOMAIN names \subseteq ElementTypes /\ "hostname" \in names["string"]
        /\ "string" \in DOMAIN names /\ "hostname" # "error"
    BY DEF ElementTypes
  <2>2. Wire!SAPInstance = Wire!Row(names) /\ Wire!wsdlSAPInstance = Wire!Row(names)
    BY DEF Wire!SAPInstance, Wire!wsdlSAPInstance
  <2> HIDE DEF names
  <2>3. /\ Wire!Expects["GetSystemInstanceList"] = Wire!Response("GetSystemInstanceListResponse", "instance", Wire!Row(names))
        /\ Wire!SAPControlPortType["GetSystemInstanceList"].response
             = Wire!Response("GetSystemInstanceListResponse", "instance", Wire!Row(names))
    BY <2>2 DEF Wire!Expects, Wire!SAPControlPortType, Wire!Method, Wire!wsdlGetSystemInstanceList,
                Wire!wsdlGetSystemInstanceListResponse
  <2> QED
    BY <2>1, <2>3, SameFits
<1>6. Fits(Wire!Expects["EnqGetStatistic"], Wire!SAPControlPortType["EnqGetStatistic"].response)
  <2> DEFINE names == [int32 |-> {"owner-now", "owner-high", "owner-max", "arguments-now", "arguments-high", "arguments-max", "locks-now", "locks-high", "locks-max"},
                    STATECOLOR |-> {"owner-state", "arguments-state", "locks-state", "replication-state"},
                    int64 |-> {"enqueue-requests", "enqueue-rejects", "enqueue-errors", "dequeue-requests", "dequeue-errors", "dequeue-all-requests", "cleanup-requests", "backup-requests", "reporting-requests", "compress-requests", "verify-requests"},
                    float64 |-> {"lock-time", "lock-wait-time", "server-time"}]
  <2>1. DOMAIN names \subseteq ElementTypes /\ "owner-now" \in names["int32"]
        /\ "int32" \in DOMAIN names /\ "owner-now" # "error"
    BY DEF ElementTypes
  <2>2. Wire!EnqGetStatisticResponse = Wire!Row(names) /\ Wire!wsdlEnqStatistic = Wire!Row(names)
    BY DEF Wire!EnqGetStatisticResponse, Wire!wsdlEnqStatistic
  <2> HIDE DEF names
  <2>3. /\ Wire!Expects["EnqGetStatistic"] = Wire!Response("EnqStatistic", "", Wire!Row(names))
        /\ Wire!SAPControlPortType["EnqGetStatistic"].response
             = Wire!Response("EnqStatistic", "", Wire!Row(names))
    BY <2>2 DEF Wire!Expects, Wire!SAPControlPortType, Wire!Method, Wire!wsdlEnqGetStatistic,
                Wire!wsdlEnqGetStatisticResponse
  <2> QED
    BY <2>1, <2>3, SameFits
<1> QED
  BY <1>1, <1>2, <1>3, <1>4, <1>5, <1>6 DEF Wire!Operations

\* Every operation is called by the element of its name.
LEMMA MethodOfRequest ==
  /\ DOMAIN Wire!SAPControlPortType = Wire!Operations
  /\ \A o \in Wire!Operations : Wire!SAPControlPortType[o].request = o
BY DEF Wire!Operations, Wire!SAPControlPortType, Wire!Method, Wire!wsdlGetProcessList,
       Wire!wsdlGetAlerts, Wire!wsdlGetQueueStatistic, Wire!wsdlGetInstanceProperties,
       Wire!wsdlGetSystemInstanceList, Wire!wsdlABAPGetWPTable, Wire!wsdlEnqGetStatistic

\* SAP can only send what a field of the type can hold.
LEMMA ValuesHeld ==
  ASSUME NEW type \in ElementTypes, NEW text \in Wire!Values(type)
  PROVE  /\ Wire!Holds(type, text) /\ Wire!Holds("string", text)
         /\ type = "STATECOLOR" => text \in Wire!STATECOLOR
BY DEF ElementTypes, Wire!Values, Wire!Holds, Wire!STATECOLOR, Wire!wsdlSTATECOLOR

\* What is on the wire, and what the exporter has of it.
WireState ==
  /\ op = "" => sent = Wire!None /\ got = <<>>
  /\ op # "" => op \in Wire!Operations /\ request = op
  /\ sent # Wire!None =>
       LET response == Wire!SAPControlPortType[op].response
       IN /\ op # ""
          /\ sent.root = response.root /\ sent.list = response.list
          /\ DOMAIN sent.row \subseteq DOMAIN response.row
          /\ \A e \in DOMAIN sent.row : sent.row[e] \in Wire!Values(response.row[e])
  /\ got # <<>> => sent # Wire!None /\ got = Wire!Unmarshal(Wire!Expects[op], sent)

LEMMA AllFit ==
  \A o \in Wire!Operations : Fits(Wire!Expects[o], Wire!SAPControlPortType[o].response)
BY OthersFit, WorkProcessFits

LEMMA WireStateStart == AnswersInit => WireState
BY DEF AnswersInit, Wire!Init, WireState

LEMMA WireStateKept == WireState /\ [AnswersNext]_<<times, wireVars>> => WireState'
<1> SUFFICES ASSUME WireState, [AnswersNext]_<<times, wireVars>> PROVE WireState'
  OBVIOUS
<1>1. CASE Wire!Call
  <2>1. PICK o \in Wire!Operations : op' = o /\ request' = o
    BY <1>1 DEF Wire!Call
  <2>2. sent' = Wire!None /\ got' = <<>> /\ op' # ""
    BY <1>1, <2>1 DEF Wire!Call, WireState, Wire!Operations
  <2> QED
    BY <2>1, <2>2 DEF WireState
<1>2. CASE Wire!Answer
  <2> DEFINE response(m) == Wire!SAPControlPortType[m].response
             types(m) == {response(m).row[e] : e \in DOMAIN response(m).row}
  <2>1. PICK m \in DOMAIN Wire!SAPControlPortType :
          /\ Wire!SAPControlPortType[m].request = request
          /\ \E value \in {v \in [types(m) -> UNION {Wire!Values(t) : t \in types(m)}] :
                             \A t \in types(m) : v[t] \in Wire!Values(t)} :
             \E missing \in DOMAIN response(m).row \cup {""} :
               sent' = Wire!Response(response(m).root, response(m).list,
                         [e \in DOMAIN response(m).row \ {missing} |-> value[response(m).row[e]]])
    BY <1>2 DEF Wire!Answer
  <2>2. op # "" /\ op \in Wire!Operations /\ request = op /\ sent = Wire!None
        /\ UNCHANGED <<op, request, got>>
    BY <1>2 DEF Wire!Answer, WireState
  <2>3. m = op
    BY <2>1, <2>2, MethodOfRequest
  <2>4. PICK value \in {v \in [types(m) -> UNION {Wire!Values(t) : t \in types(m)}] :
                          \A t \in types(m) : v[t] \in Wire!Values(t)},
             missing \in DOMAIN response(m).row \cup {""} :
               sent' = Wire!Response(response(m).root, response(m).list,
                         [e \in DOMAIN response(m).row \ {missing} |-> value[response(m).row[e]]])
    BY <2>1
  <2> DEFINE row == [e \in DOMAIN response(m).row \ {missing} |-> value[response(m).row[e]]]
  <2>5. /\ DOMAIN row \subseteq DOMAIN response(m).row
        /\ \A e \in DOMAIN row : row[e] \in Wire!Values(response(m).row[e])
    OBVIOUS
  <2>6. sent' = [root |-> response(m).root, list |-> response(m).list, row |-> row]
    BY <2>4 DEF Wire!Response
  <2>7. got' = <<>>
    BY <2>2 DEF WireState
  <2> HIDE DEF row, response
  <2> QED
    BY <2>2, <2>3, <2>5, <2>6, <2>7 DEF WireState, response
<1>3. CASE Wire!Decode
  BY <1>3 DEF Wire!Decode, WireState
<1>4. CASE UNCHANGED wireVars
  BY <1>4 DEF wireVars, WireState
<1> QED
  BY <1>1, <1>2, <1>3, <1>4 DEF AnswersNext, Read, ConvertCpu, ConvertColour

\* An answer that is on the wire is decoded, as it is, into fields of the same colours.
LEMMA NothingLostOnTheWay == WireState => NothingLost /\ Wire!ColoursKnown
<1> SUFFICES ASSUME WireState, got # <<>> PROVE NothingLost /\ Wire!ColoursKnown
  BY DEF NothingLost, Wire!NothingLost, Wire!ColoursKnown
<1> DEFINE expected == Wire!Expects[op]  response == Wire!SAPControlPortType[op].response
<1>1. /\ op \in Wire!Operations
      /\ sent.root = response.root /\ sent.list = response.list
      /\ DOMAIN sent.row \subseteq DOMAIN response.row
      /\ \A e \in DOMAIN sent.row : sent.row[e] \in Wire!Values(response.row[e])
      /\ got = Wire!Unmarshal(expected, sent)
  BY DEF WireState
<1>2. Fits(expected, response)
  BY <1>1, AllFit
<1> HIDE DEF expected, response
<1>3. ASSUME NEW e \in DOMAIN sent.row, e \in DOMAIN expected.row
      PROVE  /\ Wire!Holds(expected.row[e], sent.row[e])
             /\ expected.row[e] = "STATECOLOR" => sent.row[e] \in Wire!STATECOLOR
  <2>1. response.row[e] \in ElementTypes /\ sent.row[e] \in Wire!Values(response.row[e])
    BY <1>1, <1>2 DEF Fits
  <2>2. expected.row[e] = response.row[e] \/ expected.row[e] = "string"
    BY <1>2, <1>3 DEF Fits
  <2>3. /\ Wire!Holds(response.row[e], sent.row[e]) /\ Wire!Holds("string", sent.row[e])
        /\ response.row[e] = "STATECOLOR" => sent.row[e] \in Wire!STATECOLOR
    BY <2>1, ValuesHeld
  <2> QED
    BY <2>2, <2>3
<1>4. got = [e \in DOMAIN expected.row |-> IF e \in DOMAIN sent.row THEN sent.row[e] ELSE ""]
  BY <1>1, <1>2, <1>3 DEF Fits, Wire!Unmarshal
<1>5. DOMAIN got = DOMAIN expected.row
      /\ \A e \in DOMAIN got : got[e] = IF e \in DOMAIN sent.row THEN sent.row[e] ELSE ""
  BY <1>4
<1>6. got # Wire!Error
  <2>1. DOMAIN Wire!Error = {"error"}
    BY DEF Wire!Error
  <2>2. PICK e \in DOMAIN got : e # "error"
    BY <1>2, <1>5 DEF Fits
  <2> QED
    BY <2>1, <2>2
<1>7. DOMAIN got \subseteq DOMAIN response.row
  BY <1>2, <1>5 DEF Fits
<1>8. NothingLost
  BY <1>5, <1>6, <1>7 DEF NothingLost, Wire!NothingLost, response
<1>9. Wire!ColoursKnown
  BY <1>3, <1>5 DEF Wire!ColoursKnown, expected
<1> QED
  BY <1>8, <1>9

\* Whatever the colour of an alert is: the two conversions know the same ones.
LEMMA AllRankedAlike == RankedAlike
<1>1. CASE alert = "SAPControl-GRAY"
  BY <1>1 DEF RankedAlike, StateColorToFloat, StateColorToLevel
<1>2. CASE alert = "SAPControl-GREEN"
  BY <1>2 DEF RankedAlike, StateColorToFloat, StateColorToLevel
<1>3. CASE alert = "SAPControl-YELLOW"
  BY <1>3 DEF RankedAlike, StateColorToFloat, StateColorToLevel
<1>4. CASE alert = "SAPControl-RED"
  BY <1>4 DEF RankedAlike, StateColorToFloat, StateColorToLevel
<1>5. CASE alert \notin {"SAPControl-GRAY", "SAPControl-GREEN", "SAPControl-YELLOW", "SAPControl-RED"}
  BY <1>5 DEF RankedAlike, StateColorToFloat, StateColorToLevel
<1> QED
  BY <1>1, <1>2, <1>3, <1>4, <1>5

LEMMA WireInvariance == AnswersSpec => []WireState
<1> QED
  BY WireStateStart, WireStateKept, PTL DEF AnswersSpec

\* What SAP sends and the exporter has a field for arrives, whichever element is missing
\* (webservice.go:63-214 against the generated binding).
THEOREM AnswersArrive == AnswersSpec => []NothingLost
  BY WireInvariance, NothingLostOnTheWay, PTL

\* A colour that SAP can send has a number and a level, and Prometheus and Loki rank
\* any two alike (webservice.go:379-408).
THEOREM ColoursMeanTheSame == AnswersSpec => []ColoursAgree
<1>1. WireState => ColoursAgree
  BY NothingLostOnTheWay, AllRankedAlike DEF ColoursAgree
<1> QED
  BY <1>1, WireInvariance, PTL
=============================================================================
