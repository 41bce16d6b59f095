---------------------------- MODULE StartupProofs ----------------------------
(***************************************************************************)
(* Proofs about what main, run and the constructors leave behind, as        *)
(* Startup models them, for any configurations, Loki clients, log levels    *)
(* and any number of crashes and restarts.                                  *)
(***************************************************************************)
EXTENDS Startup, TLAPS

\* The level that every logger has after SetLevel.
Level == SetLevel(LevelInfo, conf.level)

\* Where the process stands once the configuration is known.
Configured == {"clients", "start_service", "registry", "optional", "serving"}

\* The optional collectors that have had their turn and are switched on.
TurnsTaken == {n \in conf.collect : \E k \in 1..visited : Optional[k] = n}

\* Which loggers there are by now, and which collectors.
Made ==
  (IF pc \in Configured THEN {"main", "config"} ELSE {})
    \cup (IF pc \in Configured \ {"clients"}
          THEN {"cache", "sapcontrol", "sapcontrol-loki"} ELSE {})
    \cup (IF pc \in {"registry", "optional", "serving"} THEN {"start_service"} ELSE {})
    \cup (IF pc \in {"optional", "serving"} THEN {"registry"} \cup TurnsTaken ELSE {})

Registered ==
  (IF pc \in {"registry", "optional", "serving"} THEN {"start_service"} ELSE {})
    \cup (IF pc \in {"optional", "serving"} THEN TurnsTaken ELSE {})

Place ==
  /\ conf \in Configs /\ command \in {"help", "version", "run"}
  /\ pc \in {"down", "main", "config"} \cup Configured
  /\ visited \in 0..4
  /\ pc \notin {"optional", "serving"} => visited = 0
  /\ pc = "serving" => visited = 4
  /\ pc \in {"config"} \cup Configured => command = "run"
  /\ pc \in Configured => conf.valid

\* The memory of the process.
Memory ==
  /\ loggers = [n \in LoggerNames |-> IF n \in Made THEN Level ELSE None]
  /\ registered = Registered
  /\ loki = IF pc \in Configured \ {"clients"} THEN NewLokiClient ELSE None

\* What it has printed: nothing below the level but the debug lines of NewLogger, and
\* the lines of main if the level lets them through.
Printed ==
  pc \in Configured =>
    /\ \A l \in lines : l.level < Level => l.level = LevelDebug
    /\ (\E l \in lines : l.by = "main") <=> Level <= LevelInfo

IInv == Place /\ Memory /\ Printed
-----------------------------------------------------------------------------
(* What the definitions amount to.                                          *)

LEMMA LevelTyped == Level \in 0..3
BY DEF Level, SetLevel, LevelDebug, LevelInfo, LevelWarn, LevelError

LEMMA ErrorLevel == conf.level = "error" => Level = LevelError
BY DEF Level, SetLevel

LEMMA NoneApart ==
  /\ None \notin 0..3
  /\ None \notin [batch : Int, location : Locations \cup {"UTC"}]
BY StartupAssumption DEF StartupAssumption

LEMMA ConfTyped ==
  ASSUME NEW c \in Configs
  PROVE  c.collect \subseteq Range(Optional) /\ c.batch \in Int
BY StartupAssumption, Zenon DEF StartupAssumption

\* The four optional collectors, each with its turn.
LEMMA OptionalNames ==
  /\ Len(Optional) = 4
  /\ Range(Optional) = {"enqueue_server", "dispatcher", "workprocess", "alerts"}
  /\ \A n \in Range(Optional) : \E k \in 1..4 : Optional[k] = n
  /\ \A k \in 1..4 : Optional[k] \in Range(Optional)
<1>1. /\ Len(Optional) = 4 /\ DOMAIN Optional = 1..4
      /\ Optional[1] = "enqueue_server" /\ Optional[2] = "dispatcher"
      /\ Optional[3] = "workprocess" /\ Optional[4] = "alerts"
  BY DEF Optional
<1>2. 1..4 = {1, 2, 3, 4}
  OBVIOUS
<1>3. Range(Optional) = {Optional[1], Optional[2], Optional[3], Optional[4]}
  BY <1>1, <1>2 DEF Range
<1> HIDE DEF Optional
<1> QED
  BY <1>1, <1>2, <1>3

LEMMA InitIInv == Init => IInv
<1> SUFFICES ASSUME Init PROVE IInv
  OBVIOUS
<1>1. Made = {} /\ Registered = {}
  BY DEF Init, Made, Registered, Configured
<1> QED
  BY <1>1 DEF Init, IInv, Place, Memory, Printed, Configured
-----------------------------------------------------------------------------
\* A process that ends forgets everything.
LEMMA ExitIInv ==
  ASSUME IInv, Exit, UNCHANGED <<conf, command>>
  PROVE  IInv'
<1>1. Made' = {} /\ Registered' = {}
  BY DEF Exit, Made, Registered, Configured
<1> QED
  BY <1>1 DEF Exit, IInv, Place, Memory, Printed, Configured

\* Nothing that the invariant is about changes.
LEMMA SameIInv ==
  ASSUME IInv, UNCHANGED <<conf, command, pc, loggers, lines, registered, visited, loki>>
  PROVE  IInv'
<1>1. UNCHANGED <<Made, Registered, Level, NewLokiClient>>
  BY DEF Made, Registered, TurnsTaken, Level, NewLokiClient
<1> QED
  BY <1>1 DEF IInv, Place, Memory, Printed

\* A constructor makes its loggers.
LEMMA LoggersMade ==
  ASSUME IInv, NEW names, loggers' = LevelOf(names), UNCHANGED conf, Made' = Made \cup names
  PROVE  loggers' = [n \in LoggerNames |-> IF n \in Made' THEN Level' ELSE None]
<1>1. loggers = [n \in LoggerNames |-> IF n \in Made THEN Level ELSE None]
  BY DEF IInv, Memory
<1>2. Level' = Level
  BY DEF Level
<1>3. loggers' = [n \in LoggerNames |-> IF n \in names THEN Level ELSE loggers[n]]
  BY DEF LevelOf, Level
<1> QED
  BY <1>1, <1>2, <1>3

\* A step prints debug lines that are not of main, and lines that the level lets
\* through.
LEMMA LinesPrinted ==
  ASSUME Printed, pc \in Configured, pc' \in Configured, UNCHANGED conf,
         NEW names, "main" \notin names,
         NEW by, NEW at \in {LevelDebug, LevelInfo}, by = "main" => at = LevelInfo,
         \/ lines' = lines \cup NewLogger(names) \cup log(by, at, Level)
         \/ lines' = lines \cup NewLogger(names)
         \/ lines' = lines \cup log(by, at, Level)
         \/ lines' = lines
  PROVE  Printed'
<1>1. Level' = Level /\ Level \in 0..3
  BY LevelTyped DEF Level
<1>2. \A l \in NewLogger(names) : l.level = LevelDebug /\ l.by # "main"
  BY DEF NewLogger
<1>3. \A l \in log(by, at, Level) : l.level = at /\ l.by = by /\ Level <= at
  BY DEF log
<1>4. at \in 0..1 /\ LevelDebug = 0 /\ LevelInfo = 1
  BY DEF LevelDebug, LevelInfo
<1>5. \A l \in lines' : l \in lines \/ l \in NewLogger(names) \/ l \in log(by, at, Level)
  OBVIOUS
<1>6. \A l \in lines' : l.level < Level => l.level = LevelDebug
  BY <1>1, <1>2, <1>3, <1>4, <1>5 DEF Printed
<1>7. \A l \in lines' : l.by = "main" => l \in lines \/ Level <= LevelInfo
  BY <1>2, <1>3, <1>5
<1>8. (\E l \in lines' : l.by = "main") <=> Level <= LevelInfo
  BY <1>7 DEF Printed
<1> QED
  BY <1>1, <1>6, <1>8 DEF Printed

\* The level of a logger that is made is that of the option.
LEMMA LoggerLevel ==
  ASSUME IInv, NEW n \in LoggerNames, n \in Made
  PROVE  loggers[n] = Level
BY DEF IInv, Memory

LEMMA LoadConfigIInv == ASSUME IInv, LoadConfig PROVE IInv'
<1>1. CASE ~ conf.valid
  BY <1>1, ExitIInv DEF LoadConfig, world
<1>2. CASE conf.valid
  <2>1. /\ pc = "config" /\ pc' = "clients" /\ loggers' = LevelOf({"main", "config"})
        /\ lines' = log("main", LevelInfo, Level)
        /\ UNCHANGED <<registered, visited, loki, conf, command>>
    BY <1>2, LevelTyped DEF LoadConfig, world, Level, Exit
  <2>2. Made = {} /\ Made' = {"main", "config"} /\ Registered = {} /\ Registered' = {}
    BY <2>1 DEF Made, Registered, Configured
  <2>3. loggers' = [n \in LoggerNames |-> IF n \in Made' THEN Level' ELSE None]
    BY <2>1, <2>2, LoggersMade
  <2>4. Place' /\ Memory'
    BY <1>2, <2>1, <2>2, <2>3 DEF IInv, Place, Memory, Configured
  <2>5. Printed'
    <3>1. Level' = Level
      BY <2>1 DEF Level
    <3>2. \A l \in lines' : l.level = LevelInfo /\ Level <= LevelInfo
      BY <2>1 DEF log
    <3>3. Level <= LevelInfo => \E l \in lines' : l.by = "main"
      <4>1. ASSUME Level <= LevelInfo PROVE [by |-> "main", level |-> LevelInfo] \in lines'
        BY <2>1, <4>1 DEF log
      <4> QED
        BY <4>1
    <3>4. LevelInfo \in Int /\ Level \in Int
      BY LevelTyped DEF LevelInfo
    <3> QED
      BY <3>1, <3>2, <3>3, <3>4 DEF Printed
  <2> QED
    BY <2>4, <2>5 DEF IInv
<1> QED
  BY <1>1, <1>2

LEMMA NewClientsIInv == ASSUME IInv, NewClients PROVE IInv'
<1> DEFINE names == {"cache", "sapcontrol", "sapcontrol-loki"}
<1>1. /\ pc = "clients" /\ pc' = "start_service" /\ loggers' = LevelOf(names)
      /\ loki' = NewLokiClient /\ lines' = lines \cup NewLogger(names)
      /\ UNCHANGED <<registered, visited, conf, command>>
  BY DEF NewClients, world
<1>2. Made' = Made \cup names /\ Registered = {} /\ Registered' = {}
  BY <1>1 DEF Made, Registered, Configured
<1>3. loggers' = [n \in LoggerNames |-> IF n \in Made' THEN Level' ELSE None]
  BY <1>1, <1>2, LoggersMade
<1>4. NewLokiClient' = NewLokiClient
  BY <1>1 DEF NewLokiClient
<1>5. Place' /\ Memory'
  BY <1>1, <1>2, <1>3, <1>4 DEF IInv, Place, Memory, Configured
<1>6. Printed'
  <2>1. "main" \notin names /\ LevelInfo \in {LevelDebug, LevelInfo}
        /\ pc \in Configured /\ pc' \in Configured /\ Printed
    BY <1>1 DEF Configured, IInv
  <2> HIDE DEF names
  <2> QED
    BY <1>1, <2>1, LinesPrinted
<1> QED
  BY <1>5, <1>6 DEF IInv

LEMMA RegisterStartServiceIInv == ASSUME IInv, RegisterStartService PROVE IInv'
<1>1. /\ pc = "start_service" /\ pc' = "registry" /\ loggers' = LevelOf({"start_service"})
      /\ registered' = registered \cup {"start_service"}
      /\ UNCHANGED <<visited, loki, conf, command>>
  BY DEF RegisterStartService, Registers, world
<1>2. Made' = Made \cup {"start_service"} /\ Registered = {} /\ Registered' = {"start_service"}
  BY <1>1 DEF Made, Registered, Configured
<1>3. loggers' = [n \in LoggerNames |-> IF n \in Made' THEN Level' ELSE None]
  BY <1>1, <1>2, LoggersMade
<1>4. NewLokiClient' = NewLokiClient
  BY <1>1 DEF NewLokiClient
<1>5. Place' /\ Memory'
  BY <1>1, <1>2, <1>3, <1>4 DEF IInv, Place, Memory, Configured
<1>6. Printed'
  <2>1. "main" \in Made /\ "main" \in LoggerNames
    BY <1>1 DEF Made, Configured, LoggerNames
  <2>2. lines' = lines \cup NewLogger({"start_service"}) \cup log("main", LevelInfo, Level)
    BY <2>1, LoggerLevel DEF RegisterStartService
  <2>3. "main" \notin {"start_service"} /\ LevelInfo \in {LevelDebug, LevelInfo}
        /\ pc \in Configured /\ pc' \in Configured /\ Printed
    BY <1>1 DEF Configured, IInv
  <2> QED
    BY <1>1, <2>2, <2>3, LinesPrinted
<1> QED
  BY <1>5, <1>6 DEF IInv

LEMMA EnterRegistryIInv == ASSUME IInv, EnterRegistry PROVE IInv'
<1>1. /\ pc = "registry" /\ pc' = "optional" /\ loggers' = LevelOf({"registry"})
      /\ lines' = lines \cup NewLogger({"registry"})
      /\ UNCHANGED <<registered, visited, loki, conf, command>>
  BY DEF EnterRegistry, world
<1>2. TurnsTaken' = {}
  BY <1>1 DEF TurnsTaken, IInv, Place, Configured
<1>3. Made' = Made \cup {"registry"} /\ Registered' = Registered
  BY <1>1, <1>2 DEF Made, Registered, Configured
<1>4. loggers' = [n \in LoggerNames |-> IF n \in Made' THEN Level' ELSE None]
  BY <1>1, <1>3, LoggersMade
<1>5. NewLokiClient' = NewLokiClient
  BY <1>1 DEF NewLokiClient
<1>6. Place' /\ Memory'
  BY <1>1, <1>3, <1>4, <1>5 DEF IInv, Place, Memory, Configured
<1>7. Printed'
  <2>1. "main" \notin {"registry"} /\ LevelInfo \in {LevelDebug, LevelInfo}
        /\ pc \in Configured /\ pc' \in Configured /\ Printed
    BY <1>1 DEF Configured, IInv
  <2> QED
    BY <1>1, <2>1, LinesPrinted
<1> QED
  BY <1>6, <1>7 DEF IInv

LEMMA RegisterOptionalCollectorIInv == ASSUME IInv, RegisterOptionalCollector PROVE IInv'
<1> DEFINE name == Optional[visited + 1]
<1>1. /\ pc = "optional" /\ pc' = "optional" /\ visited < 4 /\ visited' = visited + 1
      /\ UNCHANGED <<loki, conf, command>>
  BY OptionalNames DEF RegisterOptionalCollector, world
<1>2. visited \in 0..3 /\ visited + 1 \in 1..4 /\ name \in Range(Optional)
  BY <1>1, OptionalNames DEF IInv, Place
<1>3. TurnsTaken' = IF name \in conf.collect THEN TurnsTaken \cup {name} ELSE TurnsTaken
  <2>1. \A k : k \in 1..visited' <=> (k \in 1..visited \/ k = visited + 1)
    BY <1>1, <1>2
  <2> HIDE DEF Optional
  <2> QED
    BY <1>1, <2>1 DEF TurnsTaken
<1> HIDE DEF name
<1>4. NewLokiClient' = NewLokiClient
  BY <1>1 DEF NewLokiClient
<1>5. Place'
  BY <1>1, <1>2 DEF IInv, Place, Configured
<1>6. name # "main" /\ "main" \in Made /\ "registry" \in Made
      /\ "main" \in LoggerNames /\ "registry" \in LoggerNames
  BY <1>1, <1>2, OptionalNames DEF Made, Configured, LoggerNames
<1>7. pc \in Configured /\ pc' \in Configured /\ Printed
  BY <1>1 DEF Configured, IInv
<1>8. CASE name \in conf.collect
  <2>1. /\ registered' = registered \cup {name} /\ loggers' = LevelOf({name})
        /\ lines' = lines \cup NewLogger({name}) \cup log("registry", LevelInfo, Level)
    BY <1>6, <1>8, LoggerLevel DEF RegisterOptionalCollector, Registers, name
  <2>2. Made' = Made \cup {name} /\ Registered' = Registered \cup {name}
    BY <1>1, <1>3, <1>8 DEF Made, Registered, Configured
  <2>3. loggers' = [n \in LoggerNames |-> IF n \in Made' THEN Level' ELSE None]
    BY <1>1, <2>1, <2>2, LoggersMade
  <2>4. Memory'
    BY <1>1, <1>4, <2>1, <2>2, <2>3 DEF IInv, Memory, Configured
  <2>5. Printed'
    <3>1. "main" \notin {name} /\ LevelInfo \in {LevelDebug, LevelInfo}
      BY <1>6
    <3> QED
      BY <1>1, <1>7, <2>1, <3>1, LinesPrinted
  <2> QED
    BY <1>5, <2>4, <2>5 DEF IInv
<1>9. CASE name \notin conf.collect
  <2>1. /\ UNCHANGED <<registered, loggers>>
        /\ lines' = lines \cup log("registry", LevelDebug, Level)
    BY <1>6, <1>9, LoggerLevel DEF RegisterOptionalCollector, name
  <2>2. UNCHANGED <<Made, Registered, Level>>
    BY <1>1, <1>3, <1>9 DEF Made, Registered, Configured, Level
  <2>3. Memory'
    BY <1>1, <1>4, <2>1, <2>2 DEF IInv, Memory, Configured
  <2>4. Printed'
    <3>1. "main" \notin {} /\ LevelDebug \in {LevelDebug, LevelInfo} /\ "registry" # "main"
      OBVIOUS
    <3>2. lines' = lines \cup NewLogger({}) \cup log("registry", LevelDebug, Level)
      BY <2>1 DEF NewLogger
    <3> QED
      BY <1>1, <1>7, <3>1, <3>2, LinesPrinted
  <2> QED
    BY <1>5, <2>3, <2>4 DEF IInv
<1> QED
  BY <1>8, <1>9

LEMMA ServeIInv == ASSUME IInv, Serve PROVE IInv'
<1>1. /\ pc = "optional" /\ pc' = "serving" /\ visited = 4
      /\ UNCHANGED <<loggers, registered, visited, loki, conf, command>>
  BY OptionalNames DEF Serve, world, process
<1>2. UNCHANGED <<Made, Registered, Level, NewLokiClient>>
  BY <1>1 DEF Made, Registered, TurnsTaken, Configured, Level, NewLokiClient
<1>3. Place' /\ Memory'
  BY <1>1, <1>2 DEF IInv, Place, Memory, Configured
<1>4. Printed'
  <2>1. "main" \in Made /\ "main" \in LoggerNames
    BY <1>1 DEF Made, Configured, LoggerNames
  <2>2. lines' = lines \cup NewLogger({}) \cup log("main", LevelInfo, Level)
    BY <2>1, LoggerLevel DEF Serve, NewLogger
  <2>3. "main" \notin {} /\ LevelInfo \in {LevelDebug, LevelInfo}
        /\ pc \in Configured /\ pc' \in Configured /\ Printed
    BY <1>1 DEF Configured, IInv
  <2> QED
    BY <1>1, <2>2, <2>3, LinesPrinted
<1> QED
  BY <1>3, <1>4 DEF IInv

\* Where the start of the process stands, and what it has registered and set by then.
THEOREM Invariance == Spec => []IInv
<1>1. IInv /\ [Next]_vars => IInv'
  <2> SUFFICES ASSUME IInv, [Next]_vars PROVE IInv'
    OBVIOUS
  <2>1. CASE Start \/ (main /\ pc' = "config" /\ command = "run")
    <3>1. /\ pc \in {"down", "main"} /\ pc' \in {"main", "config"}
          /\ pc' = "config" => command = "run"
          /\ UNCHANGED <<loggers, registered, visited, loki, conf, command>>
      BY <2>1 DEF Start, main, process, world, Exit
    <3>2. Made = {} /\ Made' = {} /\ Registered = {} /\ Registered' = {}
      BY <3>1 DEF Made, Registered, Configured
    <3> QED
      BY <3>1, <3>2 DEF IInv, Place, Memory, Printed, Configured
  <2>2. CASE main /\ Exit
    BY <2>2, ExitIInv DEF main, world
  <2>3. CASE Crash
    BY <2>3, ExitIInv DEF Crash, world
  <2>4. CASE Scrape \/ Deliver \/ LoseBatch \/ Opens \/ Closes \/ Ages \/ UNCHANGED vars
    BY <2>4, SameIInv DEF Scrape, Deliver, LoseBatch, Sent, Opens, Closes, Ages, given, program, vars
  <2>5. main => Exit \/ (pc' = "config" /\ command = "run")
    BY DEF main
  <2> QED
    BY <2>1, <2>2, <2>3, <2>4, <2>5, LoadConfigIInv, NewClientsIInv, RegisterStartServiceIInv,
       EnterRegistryIInv, RegisterOptionalCollectorIInv, ServeIInv DEF Next, Run
<1> QED
  BY InitIInv, <1>1, PTL DEF Spec
-----------------------------------------------------------------------------
\* When a process serves, every collector that is switched on has had its turn.
LEMMA AllTurnsTaken ==
  ASSUME IInv, pc = "serving"
  PROVE  TurnsTaken = conf.collect /\ conf.collect \subseteq Range(Optional)
<1>1. conf.collect \subseteq Range(Optional) /\ visited = 4
  BY ConfTyped DEF IInv, Place
<1>2. \A n \in conf.collect : \E k \in 1..visited : Optional[k] = n
  BY <1>1, OptionalNames
<1> QED
  BY <1>1, <1>2 DEF TurnsTaken

\* A process that serves has just the collectors, the Loki client, the loggers and
\* the levels that its configuration asks for, however often one before it crashed.
THEOREM ServesAsAsked == Spec => []ServesAsConfigured
<1>1. IInv => ServesAsConfigured
  <2> SUFFICES ASSUME IInv, pc = "serving" PROVE ServesAsConfigured
    BY DEF ServesAsConfigured, ServesComplete, LoggersAgree, LevelDecides
  <2>1. TurnsTaken = conf.collect /\ conf.collect \subseteq Range(Optional)
    BY AllTurnsTaken
  <2>2. Registered = {"start_service"} \cup conf.collect
    BY <2>1 DEF Registered
  <2>3. Made = LoggerNames \ (Range(Optional) \ conf.collect)
    BY <2>1, OptionalNames DEF Made, Configured, LoggerNames
  <2>4. /\ loki = NewLokiClient
        /\ (loki # None) <=> (conf.loki = "good")
        /\ loki # None => loki.batch > 0 /\ loki.location \in Locations \cup {"UTC"}
    <3>1. loki = NewLokiClient
      BY DEF IInv, Memory, Configured
    <3>2. conf.batch \in Int
      BY ConfTyped DEF IInv, Place
    <3>3. CASE conf.loki = "good"
      <4> DEFINE batch == IF conf.batch <= 0 THEN 1 ELSE conf.batch
                 location == IF conf.location \in Locations THEN conf.location ELSE "UTC"
      <4>1. loki = [batch |-> batch, location |-> location]
        BY <3>1, <3>3 DEF NewLokiClient
      <4>2. batch \in Int /\ batch > 0 /\ location \in Locations \cup {"UTC"}
        BY <3>2
      <4> HIDE DEF batch, location
      <4>3. loki \in [batch : Int, location : Locations \cup {"UTC"}]
        BY <4>1, <4>2
      <4> QED
        BY <3>1, <3>3, <4>1, <4>2, <4>3, NoneApart
    <3>4. CASE conf.loki # "good"
      BY <3>1, <3>4 DEF NewLokiClient
    <3> QED
      BY <3>3, <3>4
  <2>5. ServesComplete
    BY <2>2, <2>4 DEF ServesComplete, IInv, Place, Memory, Configured
  <2>6. LoggersAgree
    <3>1. \A n \in LoggerNames : loggers[n] = IF n \in Made THEN Level ELSE None
      BY DEF IInv, Memory
    <3>2. Level # None
      BY LevelTyped, NoneApart
    <3>3. {n \in LoggerNames : loggers[n] # None} = Made
      BY <2>3, <3>1, <3>2
    <3>4. "main" \in Made /\ "main" \in LoggerNames
      BY DEF Made, Configured, LoggerNames
    <3> QED
      BY <2>3, <3>1, <3>3, <3>4, ErrorLevel DEF LoggersAgree
  <2>7. LevelDecides
    BY DEF LevelDecides, IInv, Printed, Configured, Level
  <2> QED
    BY <2>5, <2>6, <2>7 DEF ServesAsConfigured
<1> QED
  BY Invariance, <1>1, PTL
===============================================================================
