------------------------------- MODULE SoapWire -------------------------------
(***************************************************************************)
(* What goes over the wire between the exporter and SAPControl.            *)
(*                                                                         *)
(* The types of lib/sapcontrol/webservice.go are parts of the binding that *)
(* gowsdl generated from SAP's WSDL (doc/_generated_soap_wsdl.go), taken   *)
(* over and adapted by hand.  encoding/xml does not complain about a field *)
(* whose element never comes: it stays empty.  SAP answers as the binding  *)
(* says, here with any one element left out, and the exporter reads the    *)
(* answer with its own types.                                              *)
(***************************************************************************)
VARIABLES
  op,       \* the operation that is called, or ""
  request,  \* the request element
  sent,     \* SAP's answer: [root, list, row]
  got       \* what the exporter has of it: the values by element, or Error

vars == <<op, request, sent, got>>

Operations == {"GetProcessList", "EnqGetStatistic", "GetQueueStatistic", "GetSystemInstanceList",
               "GetInstanceProperties", "GetAlerts", "ABAPGetWPTable"}

\* The elements of a row and their types, from the names that each type has in it.
Row(names) ==
  [e \in UNION {names[type] : type \in DOMAIN names} |->
     CHOOSE type \in DOMAIN names : e \in names[type]]

\* An answer has a root element and in it items of a list, or the values themselves.
Response(root, list, row) == [root |-> root, list |-> list, row |-> row]
-----------------------------------------------------------------------------
(* The binding.                                                             *)

wsdlSTATECOLOR == {"SAPControl-GRAY", "SAPControl-GREEN", "SAPControl-YELLOW", "SAPControl-RED"}

wsdlOSProcess ==
  Row([string |-> {"name", "description", "textstatus", "starttime", "elapsedtime"},
       STATECOLOR |-> {"dispstatus"}, int32 |-> {"pid"}])
wsdlTaskHandlerQueue ==
  Row([string |-> {"Typ"}, int32 |-> {"Now", "High", "Max", "Writes", "Reads"}])
wsdlWorkProcess ==
  Row([int32 |-> {"No", "Pid"},
       string |-> {"Typ", "Status", "Reason", "Start", "Err", "Sem", "Cpu", "Time", "Program",
                   "Client", "User", "Action", "Table"}])
wsdlAlert ==
  Row([string |-> {"Object", "Attribute", "Description", "Time", "Tid", "Aid"},
       STATECOLOR |-> {"Value"}])
wsdlInstanceProperty == Row([string |-> {"property", "propertytype", "value"}])
wsdlSAPInstance ==
  Row([string |-> {"hostname", "startPriority", "features"},
       int32 |-> {"instanceNr", "httpPort", "httpsPort"}, STATECOLOR |-> {"dispstatus"}])
wsdlEnqStatistic ==
  Row([int32 |-> {"owner-now", "owner-high", "owner-max", "arguments-now", "arguments-high",
                  "arguments-max", "locks-now", "locks-high", "locks-max"},
       STATECOLOR |-> {"owner-state", "arguments-state", "locks-state", "replication-state"},
       int64 |-> {"enqueue-requests", "enqueue-rejects", "enqueue-errors", "dequeue-requests",
                  "dequeue-errors", "dequeue-all-requests", "cleanup-requests",
                  "backup-requests", "reporting-requests", "compress-requests",
                  "verify-requests"},
       float64 |-> {"lock-time", "lock-wait-time", "server-time"}])

wsdlGetProcessListResponse == Response("GetProcessListResponse", "process", wsdlOSProcess)
wsdlGetAlertsResponse == Response("GetAlertsResponse", "alert", wsdlAlert)
wsdlGetQueueStatisticResponse ==
  Response("GetQueueStatisticResponse", "queue", wsdlTaskHandlerQueue)
wsdlGetInstancePropertiesResponse ==
  Response("GetInstancePropertiesResponse", "properties", wsdlInstanceProperty)
wsdlGetSystemInstanceListResponse ==
  Response("GetSystemInstanceListResponse", "instance", wsdlSAPInstance)
wsdlABAPGetWPTableResponse == Response("ABAPGetWPTableResponse", "workprocess", wsdlWorkProcess)
wsdlEnqGetStatisticResponse == Response("EnqStatistic", "", wsdlEnqStatistic)

\* The methods of the port: the element that is sent, and what comes back.
Method(element, response) == [request |-> element, response |-> response]

wsdlGetProcessList        == Method("GetProcessList", wsdlGetProcessListResponse)
wsdlGetAlerts             == Method("GetAlerts", wsdlGetAlertsResponse)
wsdlGetQueueStatistic     == Method("GetQueueStatistic", wsdlGetQueueStatisticResponse)
wsdlGetInstanceProperties == Method("GetInstanceProperties", wsdlGetInstancePropertiesResponse)
wsdlGetSystemInstanceList == Method("GetSystemInstanceList", wsdlGetSystemInstanceListResponse)
wsdlABAPGetWPTable        == Method("ABAPGetWPTable", wsdlABAPGetWPTableResponse)
wsdlEnqGetStatistic       == Method("EnqGetStatistic", wsdlEnqGetStatisticResponse)

SAPControlPortType ==
  [GetProcessList |-> wsdlGetProcessList, GetAlerts |-> wsdlGetAlerts,
   GetQueueStatistic |-> wsdlGetQueueStatistic,
   GetInstanceProperties |-> wsdlGetInstanceProperties,
   GetSystemInstanceList |-> wsdlGetSystemInstanceList,
   ABAPGetWPTable |-> wsdlABAPGetWPTable, EnqGetStatistic |-> wsdlEnqGetStatistic]
-----------------------------------------------------------------------------
(* The types of the exporter.                                               *)

\* Mutant: a colour is forgotten.
StateColorsWithoutGray == {"SAPControl-GREEN", "SAPControl-YELLOW", "SAPControl-RED"}

STATECOLOR == {"SAPControl-GRAY", "SAPControl-GREEN", "SAPControl-YELLOW", "SAPControl-RED"}

OSProcess ==
  Row([string |-> {"name", "description", "textstatus", "starttime", "elapsedtime"},
       STATECOLOR |-> {"dispstatus"}, int32 |-> {"pid"}])
InstanceProperty == Row([string |-> {"property", "propertytype", "value"}])
SAPInstance ==
  Row([string |-> {"hostname", "startPriority", "features"},
       int32 |-> {"instanceNr", "httpPort", "httpsPort"}, STATECOLOR |-> {"dispstatus"}])

\* Mutant: the element is called like the Go field.
TaskHandlerQueueByField ==
  Row([string |-> {"Type"}, int32 |-> {"Now", "High", "Max", "Writes", "Reads"}])

TaskHandlerQueue ==
  Row([string |-> {"Typ"}, int32 |-> {"Now", "High", "Max", "Writes", "Reads"}])
Alert ==
  Row([string |-> {"Object", "Attribute", "Description", "Time", "Tid", "Aid"},
       STATECOLOR |-> {"Value"}])
WorkProcess ==      \* No and Pid are strings here
  Row([string |-> {"No", "Typ", "Pid", "Status", "Reason", "Start", "Err", "Sem", "Cpu", "Time",
                   "Program", "Client", "User", "Action", "Table"}])

EnqGetStatisticResponse ==
  Row([int32 |-> {"owner-now", "owner-high", "owner-max", "arguments-now", "arguments-high",
                  "arguments-max", "locks-now", "locks-high", "locks-max"},
       STATECOLOR |-> {"owner-state", "arguments-state", "locks-state", "replication-state"},
       int64 |-> {"enqueue-requests", "enqueue-rejects", "enqueue-errors", "dequeue-requests",
                  "dequeue-errors", "dequeue-all-requests", "cleanup-requests",
                  "backup-requests", "reporting-requests", "compress-requests",
                  "verify-requests"},
       float64 |-> {"lock-time", "lock-wait-time", "server-time"}])

\* What each of the calls of webService reads its answer with.
Expects ==
  [GetProcessList |-> Response("GetProcessListResponse", "process", OSProcess),
   GetAlerts |-> Response("GetAlertsResponse", "alert", Alert),
   GetQueueStatistic |-> Response("GetQueueStatisticResponse", "queue", TaskHandlerQueue),
   GetInstanceProperties |->
     Response("GetInstancePropertiesResponse", "properties", InstanceProperty),
   GetSystemInstanceList |->
     Response("GetSystemInstanceListResponse", "instance", SAPInstance),
   ABAPGetWPTable |-> Response("ABAPGetWPTableResponse", "workprocess", WorkProcess),
   EnqGetStatistic |-> Response("EnqStatistic", "", EnqGetStatisticResponse)]
-----------------------------------------------------------------------------
(* A call.                                                                  *)

\* What SAP may send in an element of a type.
Values(type) ==
  CASE type = "string"     -> {"text", ""}
    [] type = "STATECOLOR" -> wsdlSTATECOLOR
    [] type = "int32"      -> {"7", "2147483647"}
    [] type = "int64"      -> {"7", "9223372036854775807"}
    [] type = "float64"    -> {"7", "1.5"}

\* encoding/xml: the texts that a field of a type can hold.
Holds(type, text) ==
  CASE type \in {"string", "STATECOLOR"} -> TRUE
    [] type = "int32"   -> text \in {"7", "2147483647"}
    [] type = "int64"   -> text \in {"7", "2147483647", "9223372036854775807"}
    [] type = "float64" -> text \in {"7", "2147483647", "9223372036854775807", "1.5"}

Error == [error |-> "error"]
None  == [root |-> "", list |-> "", row |-> <<>>]

Init == op = "" /\ request = "" /\ sent = None /\ got = <<>>

\* The exporter sends the request of the operation, with nothing in it.
Call ==
  /\ op = ""
  /\ \E o \in Operations : op' = o /\ request' = o
  /\ UNCHANGED <<sent, got>>

\* SAP answers with a row in which at most one element is missing.  One value of
\* the type stands in all of its elements.
Answer ==
  /\ op # "" /\ sent = None
  /\ \E method \in DOMAIN SAPControlPortType :
       LET response == SAPControlPortType[method].response
           types    == {response.row[e] : e \in DOMAIN response.row}
       IN /\ SAPControlPortType[method].request = request
          /\ \E value \in {v \in [types -> UNION {Values(t) : t \in types}] :
                           \A t \in types : v[t] \in Values(t)} :
             \E missing \in DOMAIN response.row \cup {""} :
               sent' = Response(response.root, response.list,
                         [e \in DOMAIN response.row \ {missing} |-> value[response.row[e]]])
  /\ UNCHANGED <<op, request, got>>

\* encoding/xml: another root is an error, another list is no item, an element
\* that is not there leaves the field empty, one that does not fit is an error.
Unmarshal(expected, answer) ==
  IF \/ answer.root # expected.root
     \/ \E e \in DOMAIN answer.row \cap DOMAIN expected.row :
          ~ Holds(expected.row[e], answer.row[e])
  THEN Error
  ELSE [e \in DOMAIN expected.row |->
          IF answer.list = expected.list /\ e \in DOMAIN answer.row THEN answer.row[e] ELSE ""]

Decode ==
  /\ sent # None /\ got = <<>>
  /\ got' = Unmarshal(Expects[op], sent)
  /\ UNCHANGED <<op, request, sent>>

Next == Call \/ Answer \/ Decode

Spec == Init /\ [][Next]_vars
-----------------------------------------------------------------------------
(* Properties.                                                              *)

\* Nothing that SAP sends and the exporter has a field for is lost: no answer is
\* refused, no field is empty whose element came, and every field has an element
\* in the binding (webservice.go:63-214 against the generated binding).
NothingLost ==
  got # <<>> =>
    /\ got # Error
    /\ DOMAIN got \subseteq DOMAIN SAPControlPortType[op].response.row
    /\ \A e \in DOMAIN sent.row \cap DOMAIN got : got[e] = sent.row[e]

\* Every value of a colour that SAP can send is one that the exporter knows; an
\* empty one is the only other (webservice.go:379).
ColoursKnown ==
  got # <<>> => \A e \in DOMAIN got :
    Expects[op].row[e] = "STATECOLOR" => got[e] \in STATECOLOR \cup {""}
=============================================================================
