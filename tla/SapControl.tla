------------------------------ MODULE SapControl ------------------------------
(***************************************************************************)
(* The SAPControl client in one Collect: finding the instances of the      *)
(* system through one of four access points, making the URL of each        *)
(* instance, and calling the instances there, the process lists through    *)
(* the cache.                                                              *)
(*                                                                         *)
(* Time passes only while a call waits.  What the answers say is reduced   *)
(* to whose they are; InstanceList has the concurrent calls, Scrape the    *)
(* waiting for the cache, SoapWire the form of the messages.               *)
(***************************************************************************)
EXTENDS Naturals, FiniteSets

CONSTANTS
  Listed,      \* the instances: [host, domain, short, http, https]; short: SAP lists
               \* the host without its domain; a port 0 is closed
  HostDomains, \* what host_domain may be
  Timeouts,    \* what scrape_timeout may be
  None         \* absence

ASSUME SapControlAssumption ==
  /\ Timeouts \subseteq Nat
  /\ Listed # {} /\ None \notin Listed
  /\ \A i, j \in Listed :      \* a port of a host belongs to one instance
       i # j /\ i.host = j.host =>
         {i.http, i.https} \cap {j.http, j.https} \subseteq {0} /\ i.domain = j.domain

VARIABLES
  config,    \* [timeout, ssl, host_domain]
  points,    \* points[k]: how the access point k behaves
  pc,        \* "next", "calling", "list", "failed"
  point,     \* the access point that is asked, or will be next
  now,       \* the time since the context was made
  started,   \* when the call began
  response,  \* the instances decoded into the response
  props,     \* props[i]: who answered GetInstanceProperties for i, or None
  cache,     \* cache[u]: whose process list is stored under the URL u, or None
  shown      \* the pairs of an instance and of the instance whose data it is shown with

vars == <<config, points, pc, point, now, started, response, props, cache, shown>>
-----------------------------------------------------------------------------
(* GetSystemInstanceList.                                                   *)

\* The configured one, /sap/bc/soap/rfc, /SAPControl.cgi, dba_control.
Points == 1..4

Behaviours == {"works", "empty", "refuses", "breaks", "silent"}

Init ==
  /\ config \in [timeout : Timeouts, ssl : BOOLEAN, host_domain : HostDomains]
  /\ points \in [Points -> Behaviours]
  /\ pc = "next" /\ point = 1
  /\ now = 0 /\ started = 0
  /\ response = {}
  /\ props = [i \in Listed |-> None]
  /\ cache = [u \in {} |-> None]
  /\ shown = {}

rest == <<config, points, props, cache, shown>>

\* The context of the Collect, and the timeout of the client unless that is 0.
Expired ==
  \/ now >= config.timeout
  \/ config.timeout # 0 /\ now >= started + config.timeout

\* Mutant: one response for all attempts.
CreateSoapClientSharing ==
  /\ pc = "next" /\ point \in Points
  /\ pc' = "calling" /\ started' = now
  /\ UNCHANGED <<point, now, response, rest>>

\* A new client and a new response for every access point.
CreateSoapClient ==
  /\ pc = "next" /\ point \in Points
  /\ pc' = "calling" /\ started' = now /\ response' = {}
  /\ UNCHANGED <<point, now, rest>>

Wait ==
  /\ pc = "calling" /\ ~ Expired
  /\ now' = now + 1
  /\ UNCHANGED <<pc, point, started, response, rest>>

\* Mutant: the first error ends the search.
DecodesOrGivesUp(items, error) ==
  /\ response' = response \cup items
  /\ IF error \/ response' = {} THEN pc' = "failed" ELSE pc' = "list"
  /\ UNCHANGED point

\* Mutant: an access point is asked until it has a list.
DecodesRetrying(items, error) ==
  /\ response' = response \cup items
  /\ pc' = IF error \/ response' = {} THEN "next" ELSE "list"
  /\ UNCHANGED point

\* encoding/xml adds what it decodes to the response; it may break off with an error.
Decodes(items, error) ==
  /\ response' = response \cup items
  /\ IF error \/ response' = {}
     THEN pc' = "next" /\ point' = point + 1      \* continue
     ELSE pc' = "list" /\ UNCHANGED point

CallContext ==
  /\ pc = "calling"
  /\ \/ Expired /\ Decodes({}, TRUE)
     \/ ~ Expired /\ CASE points[point] = "works"   -> Decodes(Listed, FALSE)
                       [] points[point] = "empty"   -> Decodes({}, FALSE)
                       [] points[point] = "refuses" -> Decodes({}, TRUE)
                       [] points[point] = "breaks"  ->
                            \E some \in SUBSET Listed : Decodes(some, TRUE)
                       [] points[point] = "silent"  -> FALSE
  /\ UNCHANGED <<now, started, rest>>

\* "all endpoints failed"
AllFailed ==
  /\ pc = "next" /\ point \notin Points
  /\ pc' = "failed"
  /\ UNCHANGED <<point, now, started, response, rest>>
-----------------------------------------------------------------------------
(* The instances.                                                           *)

\* Mutant: https is spoken to the port of http.
EndpointHttpPort(i) ==
  [scheme |-> IF config.ssl THEN "https" ELSE "http", host |-> i.host,
   domain |-> IF i.short THEN config.host_domain ELSE i.domain,
   port   |-> i.http]

\* GetAllInstances: a host name without a dot gets the host_domain.
Endpoint(i) ==
  [scheme |-> IF config.ssl THEN "https" ELSE "http", host |-> i.host,
   domain |-> IF i.short THEN config.host_domain ELSE i.domain,
   port   |-> IF config.ssl THEN i.https ELSE i.http]

\* Who listens at a URL.
Listens(i, url) ==
  /\ i.host = url.host /\ i.domain = url.domain /\ url.port # 0
  /\ url.port = IF url.scheme = "https" THEN i.https ELSE i.http
At(url) ==
  IF \E i \in Listed : Listens(i, url) THEN CHOOSE i \in Listed : Listens(i, url) ELSE None

\* GetInstanceProperties, called by GetSingleInstance.
GetSingleInstance(i) ==
  /\ pc = "list" /\ i \in response /\ props[i] = None
  /\ props' = [props EXCEPT ![i] = At(Endpoint(i))]
  /\ shown' = shown \cup ({<<i, props'[i]>>} \ {<<i, None>>})
  /\ UNCHANGED <<config, points, pc, point, now, started, response, cache>>

\* Mutant: the list is stored under the name of the host.
CacheKeyHost(url) == [host |-> url.host, domain |-> url.domain]

CacheKey(url) == url

\* GetProcesses when the cache has nothing; a failure is stored as well.
GetCachedProcessList(i) ==
  LET key  == CacheKey(Endpoint(i))
      list == IF key \in DOMAIN cache THEN cache[key] ELSE At(Endpoint(i))
  IN /\ pc = "list" /\ i \in response
     /\ cache' = [u \in DOMAIN cache \cup {key} |-> IF u = key THEN list ELSE cache[u]]
     /\ shown' = shown \cup ({<<i, list>>} \ {<<i, None>>})
     /\ UNCHANGED <<config, points, pc, point, now, started, response, props>>

\* EnqGetStatistic, GetQueueStatistic, ABAPGetWPTable and GetAlerts.
CallInstance(i) ==
  /\ pc = "list" /\ i \in response
  /\ shown' = shown \cup ({<<i, At(Endpoint(i))>>} \ {<<i, None>>})
  /\ UNCHANGED <<config, points, pc, point, now, started, response, props, cache>>

Next ==
  \/ CreateSoapClient \/ Wait \/ CallContext \/ AllFailed
  \/ \E i \in Listed : GetSingleInstance(i) \/ GetCachedProcessList(i) \/ CallInstance(i)

Spec == Init /\ [][Next]_vars /\ WF_vars(CreateSoapClient \/ Wait \/ CallContext \/ AllFailed)
-----------------------------------------------------------------------------
(* Properties.                                                              *)

\* The shape of the state.
TypeOK ==
  /\ pc \in {"next", "calling", "list", "failed"} /\ point \in 1..5
  /\ response \subseteq Listed
  /\ props \in [Listed -> Listed \cup {None}]
  /\ pc = "list" => response # {}
  /\ shown \subseteq Listed \X Listed

\* A working access point is found behind ones that refuse, break off or have an
\* empty list; only a silent one, which uses up the time, keeps it from being found
\* (webservice.go:256-272).
FailsOnlyForCause ==
  pc = "failed" =>
    \/ \A k \in Points : points[k] # "works"
    \/ now >= config.timeout

\* The list is that of one access point, the first that has one: nothing of what
\* a broken attempt decoded is in it, and no list is taken from a point behind it.
FromOnePoint ==
  /\ pc = "list" => /\ points[point] = "works"
                    /\ \A k \in 1..(point - 1) : points[k] # "works"
  /\ pc = "calling" /\ ~ Expired /\ points[point] # "breaks" => response = {}

\* An instance is shown with its own data only: the URL that its processes are
\* cached under and its calls go to belongs to no other instance, on hosts with
\* several of them and under both schemes (current_instance.go:84, processes_list.go:26).
OwnData == \A s \in shown : s[1] = s[2]

\* Every instance is reached that can be: that listens under the scheme of
\* sap_control_url, and whose host name is listed in full or is in host_domain.
Reached ==
  pc = "list" => \A i \in response :
    /\ (IF config.ssl THEN i.https ELSE i.http) # 0
    /\ i.short => i.domain = config.host_domain
    => At(Endpoint(i)) = i

\* The search for the instances ends, although access points may never answer.
SearchEnds == <>(pc \in {"list", "failed"})
=============================================================================
