-------------------------- MODULE ReadThroughCache --------------------------
(***************************************************************************)
(* What the users of cache/manager.go rely on: GetOrSet behaves as if the  *)
(* cache were one atomic read-through cache whose items expire.            *)
(*                                                                         *)
(* A call is pending from its invocation until it returns.  It returns in  *)
(* one of two ways, each a single atomic step:                             *)
(*   - Hit: it returns the content of its key at an instant of the call at *)
(*     which that content is unexpired;                                    *)
(*   - Load then Loaded: at an instant of the call at which the key has no *)
(*     unexpired content and nobody else is loading anything, it starts to *)
(*     load; what it loads becomes the content and its result.             *)
(* There are no locks, copies or double checks here: CacheManager has      *)
(* those and is shown to implement this module.                            *)
(***************************************************************************)
EXTENDS Integers

CONSTANTS
  Callers,   \* the goroutines that call GetOrSet
  Keys,      \* "InstanceInfo" and one "ProcessList_<url>" per SAP instance
  Values,    \* what a set function may produce, nil included
  TTLs,      \* the time-to-live values a set function may return
  None       \* absence: of a value, of a key, of a result

VARIABLES
  now,       \* the wall clock
  content,   \* content[k]: the item stored for key k, or NoItem
  status,    \* status[p]: "idle", "pending" or "loading"
  wanted,    \* wanted[p]: the key of p's call in progress
  result     \* result[p]: what p's last call returned

vars == <<now, content, status, wanted, result>>

NoItem == [value |-> None, exp |-> 0]

\* An item may be served: exp = 0 means that it never expires.
Unexpired(it, t) ==
  it.value # None /\ (it.exp = 0 \/ it.exp > t)

Return(p, v) ==
  /\ status' = [status EXCEPT ![p] = "idle"]
  /\ wanted' = [wanted EXCEPT ![p] = None]
  /\ result' = [result EXCEPT ![p] = v]

Init ==
  /\ now = 1
  /\ content = [k \in Keys |-> NoItem]
  /\ status  = [p \in Callers |-> "idle"]
  /\ wanted  = [p \in Callers |-> None]
  /\ result  = [p \in Callers |-> None]

Invoke(p, k) ==
  /\ status[p] = "idle"
  /\ status' = [status EXCEPT ![p] = "pending"]
  /\ wanted' = [wanted EXCEPT ![p] = k]
  /\ result' = [result EXCEPT ![p] = None]
  /\ UNCHANGED <<now, content>>

Hit(p) ==
  /\ status[p] = "pending"
  /\ Unexpired(content[wanted[p]], now)
  /\ Return(p, content[wanted[p]].value)
  /\ UNCHANGED <<now, content>>

Load(p) ==
  /\ status[p] = "pending"
  /\ \A q \in Callers : status[q] # "loading"
  /\ ~ Unexpired(content[wanted[p]], now)
  /\ status' = [status EXCEPT ![p] = "loading"]
  /\ UNCHANGED <<now, content, wanted, result>>

Loaded(p, v, ttl) ==
  /\ status[p] = "loading"
  /\ content' = [content EXCEPT ![wanted[p]] =
                   [value |-> v, exp |-> IF ttl > 0 THEN now + ttl ELSE 0]]
  /\ Return(p, v)
  /\ UNCHANGED now

Tick ==
  /\ now' = now + 1
  /\ UNCHANGED <<content, status, wanted, result>>

Next ==
  \/ \E p \in Callers :
       \/ \E k \in Keys : Invoke(p, k)
       \/ Hit(p)
       \/ Load(p)
       \/ \E v \in Values, ttl \in TTLs : Loaded(p, v, ttl)
  \/ Tick

Spec == Init /\ [][Next]_vars
=============================================================================
