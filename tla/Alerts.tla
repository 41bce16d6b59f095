------------------------------- MODULE Alerts -------------------------------
(***************************************************************************)
(* collector/alerts, recordAlerts: the open alerts of every instance, as   *)
(* series for Prometheus and as entries for Loki.                          *)
(*                                                                         *)
(* Scrapes may overlap, so several Collects run at a time.  They share the *)
(* promtail client: an entry is pushed by a send on the client's bounded   *)
(* channel, which no deadline bounds; a goroutine of the client drains it. *)
(*                                                                         *)
(* Prometheus refuses a whole scrape that has the same series twice, and   *)
(* SAP may list the same alert twice.  Series and entries carry the labels *)
(* that an instance has in the list of their Collect; they are others when *)
(* its properties could not be had for that list.                          *)
(***************************************************************************)
EXTENDS Integers, Sequences, SequencesExt

CONSTANTS
  Collects,    \* the goroutines, each in one recordAlerts after another
  Instances,   \* the SAP instances there may be, by number and host name
  Labels,      \* the names and SIDs that lists may give an instance: its own, or
               \* "#" and its number with sap_sid
  Alerts,      \* what SAP may report: [name, valid, time]
  Unparsable,  \* a time that is not in the expected format
  MaxAge,      \* config alert_samples_max_age; negative: any age is accepted
  Capacity,    \* how many entries the client's channel holds
  None,        \* absence
  MaxAlerts,   \* bound: how many alerts an instance reports
  MaxTime      \* bound: the clock stops there

ASSUME AlertsAssumption ==
  /\ \A a \in Alerts : a.valid \in BOOLEAN /\ a.time \in Nat \cup {Unparsable}
  /\ Unparsable \notin Int
  /\ MaxAge \in Int
  /\ Capacity \in Nat \ {0}
  /\ MaxAlerts \in Nat /\ MaxTime \in Nat \ {0}

VARIABLES
  now,       \* the wall clock
  options,   \* options.prom: send_alerts_to_prom; options.loki: there is a client
  pc,        \* pc[p]: where p stands
  todo,      \* todo[p]: what p has still to ask of its list
  cur,       \* cur[p]: the instance, as listed, whose alerts p is going through
  items,     \* items[p]: the alerts of that instance that are left
  entry,     \* entry[p]: the entry that p is sending
  series,    \* series[p]: the metrics that p's Collect has emitted
  queue,     \* the client's channel
  reported,  \* ghost: what SAP reported to p's Collect
  pushed     \* ghost: the entries that p's Collect has pushed

vars == <<now, options, pc, todo, cur, items, entry, series, queue, reported, pushed>>

\* An instance as a list has it, and the lists of the instances.
Listed == [id : Instances, labels : Labels]
InstanceLists == {list \in SUBSET Listed \ {{}} : \A i, j \in list : i.id = j.id => i = j}

AlertLists == BoundedSeq(Alerts, MaxAlerts)

Init ==
  /\ now      = 1
  /\ options \in [prom : BOOLEAN, loki : BOOLEAN]
  /\ pc       = [p \in Collects |-> "idle"]
  /\ todo     = [p \in Collects |-> {}]
  /\ cur      = [p \in Collects |-> None]
  /\ items    = [p \in Collects |-> <<>>]
  /\ entry    = [p \in Collects |-> None]
  /\ series   = [p \in Collects |-> <<>>]
  /\ queue    = <<>>
  /\ reported = [p \in Collects |-> {}]
  /\ pushed   = [p \in Collects |-> {}]

Goto(p, label) == pc' = [pc EXCEPT ![p] = label]

\* The instance list has arrived, perhaps another than the last one.
Collect(p) ==
  /\ pc[p] = "idle"
  /\ \E list \in InstanceLists : todo' = [todo EXCEPT ![p] = list]
  /\ Goto(p, "loop")
  /\ UNCHANGED <<now, options, cur, items, entry, series, queue, reported, pushed>>
-----------------------------------------------------------------------------
\* RemoveDuplicate: the first occurrence of every element, in order.
RemoveDuplicate(list) ==
  LET kept[n \in 0..Len(list)] ==
        IF n = 0 THEN <<>>
        ELSE IF Contains(kept[n - 1], list[n]) THEN kept[n - 1]
        ELSE Append(kept[n - 1], list[n])
  IN  kept[Len(list)]

\* Mutant: duplicates are left in.
ItemListAsReported(list) == list

\* Duplicates are removed for Prometheus only.
ItemList(list) == IF options.prom THEN RemoveDuplicate(list) ELSE list

\* SAP answers p with the alerts of i.
Report(p, i, list) ==
  /\ items'    = [items EXCEPT ![p] = ItemList(list)]
  /\ reported' = [reported EXCEPT ![p] =
                    @ \cup {[inst |-> i, alert |-> a] : a \in ToSet(list)}]
  /\ cur' = [cur EXCEPT ![p] = i]
  /\ Goto(p, "items")

GetAlerts(p, i) ==
  /\ pc[p] = "loop"
  /\ i \in todo[p]
  /\ todo' = [todo EXCEPT ![p] = @ \ {i}]
  /\ \/ UNCHANGED <<pc, cur, items, reported>>             \* the call failed
     \/ \E list \in AlertLists : Report(p, i, list)
  /\ UNCHANGED <<now, options, entry, series, queue, pushed>>

\* The time of the alert, or else the current one.
Timestamp(a) == IF a.time = Unparsable THEN now ELSE a.time

\* The clock is read for the age after it was read for the timestamp.
TooOld(a) ==
  MaxAge >= 0 /\ (now - Timestamp(a) > MaxAge \/ (MaxAge = 0 /\ Timestamp(a) = now))

\* Mutant: there is always a client.
GoesToLokiAlways(a) == ~ TooOld(a)

GoesToLoki(a) == options.loki /\ ~ TooOld(a)

\* Mutant: the rest of the list is left out with an invalid alert.
DropInvalidAndRest(p) ==
  /\ pc[p] = "items" /\ items[p] # <<>>
  /\ ~ Head(items[p]).valid
  /\ items' = [items EXCEPT ![p] = <<>>]
  /\ UNCHANGED <<now, options, pc, todo, cur, entry, series, queue, reported, pushed>>

\* An alert of invalid colour is left out.
DropInvalid(p) ==
  /\ pc[p] = "items" /\ items[p] # <<>>
  /\ ~ Head(items[p]).valid
  /\ items' = [items EXCEPT ![p] = Tail(@)]
  /\ UNCHANGED <<now, options, pc, todo, cur, entry, series, queue, reported, pushed>>

\* Any other becomes a metric, an entry that p starts to send, or both.
Record(p) ==
  /\ pc[p] = "items" /\ items[p] # <<>>
  /\ LET a == Head(items[p])
     IN  /\ a.valid
         /\ series' = IF options.prom
                      THEN [series EXCEPT ![p] = Append(@, [inst |-> cur[p], alert |-> a])]
                      ELSE series
         /\ IF GoesToLoki(a)
            THEN /\ Goto(p, "push")
                 /\ entry' = [entry EXCEPT ![p] = [inst |-> cur[p], alert |-> a]]
            ELSE UNCHANGED <<pc, entry>>
  /\ items' = [items EXCEPT ![p] = Tail(@)]
  /\ UNCHANGED <<now, options, todo, cur, queue, reported, pushed>>

\* loki_client.Single() <- entry: blocks while the channel is full.
Push(p) ==
  /\ pc[p] = "push"
  /\ options.loki /\ Len(queue) < Capacity
  /\ queue'  = Append(queue, entry[p])
  /\ pushed' = [pushed EXCEPT ![p] = @ \cup {entry[p]}]
  /\ entry'  = [entry EXCEPT ![p] = None]
  /\ Goto(p, "items")
  /\ UNCHANGED <<now, options, todo, cur, items, series, reported>>

NextInstance(p) ==
  /\ pc[p] = "items" /\ items[p] = <<>>
  /\ cur' = [cur EXCEPT ![p] = None]
  /\ Goto(p, "loop")
  /\ UNCHANGED <<now, options, todo, items, entry, series, queue, reported, pushed>>

Return(p) ==
  /\ pc[p] = "loop" /\ todo[p] = {}
  /\ Goto(p, "idle")
  /\ series'   = [series EXCEPT ![p] = <<>>]
  /\ reported' = [reported EXCEPT ![p] = {}]
  /\ pushed'   = [pushed EXCEPT ![p] = {}]
  /\ UNCHANGED <<now, options, todo, cur, items, entry, queue>>
-----------------------------------------------------------------------------
\* The goroutine of the client takes an entry; what becomes of it is not said.
Drain ==
  /\ queue # <<>>
  /\ queue' = Tail(queue)
  /\ UNCHANGED <<now, options, pc, todo, cur, items, entry, series, reported, pushed>>

Tick ==
  /\ now < MaxTime
  /\ now' = now + 1
  /\ UNCHANGED <<options, pc, todo, cur, items, entry, series, queue, reported, pushed>>

Advance(p) ==
  \/ \E i \in Listed : GetAlerts(p, i)
  \/ DropInvalid(p) \/ Record(p) \/ NextInstance(p) \/ Return(p)

Next ==
  \/ \E p \in Collects : Collect(p) \/ Advance(p) \/ Push(p)
  \/ Drain \/ Tick

Spec == Init /\ [][Next]_vars

\* Goroutines run, the context bounds the calls, blocked senders are served in the
\* order of their arrival, and the client drains its channel (its HTTP requests
\* have a timeout, loki_http_timeout).
Fairness ==
  /\ WF_vars(Drain)
  /\ \A p \in Collects : WF_vars(Advance(p)) /\ SF_vars(Push(p))

FairSpec == Spec /\ Fairness
-----------------------------------------------------------------------------
\* No Collect emits the same series twice, although SAP may report an alert twice:
\* one repeated series would cost the whole scrape (alerts.go:157-160).
SeriesDistinct ==
  \A p \in Collects : \A m, n \in DOMAIN series[p] :
    series[p][m] = series[p][n] => m = n

\* An alert that cannot be shown, is too old or does not go to Loki hides no other
\* one: what SAP reported to a Collect has been emitted and pushed when it goes on to
\* the next instance or returns, with the labels of its own list, whatever other
\* Collects push (the continue statements of alerts.go:141, 171 and 205).
NoAlertHidden ==
  \A p \in Collects : pc[p] = "loop" =>
    \A r \in reported[p] : r.alert.valid =>
      /\ options.prom => Contains(series[p], r)
      /\ options.loki => TooOld(r.alert) \/ r \in pushed[p]

\* Every Collect ends although a push waits for the client and for the pushes of
\* other Collects, without a deadline (alerts.go:216).
CollectEnds == \A p \in Collects : pc[p] # "idle" ~> pc[p] = "idle"
=============================================================================
