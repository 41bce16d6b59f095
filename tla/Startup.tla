------------------------------- MODULE Startup -------------------------------
(***************************************************************************)
(* The life of the process: main and run, the constructors they call, the  *)
(* registration of the collectors, serving, exits and crashes, and systemd  *)
(* starting it again (sap_host_exporter@.service).                          *)
(*                                                                          *)
(* Registry, loggers and Loki client live in the memory of the process.  So *)
(* does what the Loki client has taken but not sent: ListenAndServe ends in *)
(* Fatalf or in a signal, and the deferred Shutdown never runs.  One alert  *)
(* of SAP is followed, the one that was raised last, to see what that means *)
(* for it: it grows old, and an old alert is pushed no more.                *)
(***************************************************************************)
EXTENDS Integers, Sequences, SequencesExt

CONSTANTS
  Configs,      \* configurations: [valid, level, collect, loki, batch, location, maxAge]
  Locations,    \* names of time zones that are known
  None,         \* absence
  MaxAge,       \* bound: the age of an alert is not counted any further
  MaxFailures   \* bound: how often the process crashes or cannot listen

\* The order of RegisterOptionalCollectors.
Optional == <<"enqueue_server", "dispatcher", "workprocess", "alerts">>

ASSUME StartupAssumption ==
  /\ \A c \in Configs : /\ c.valid \in BOOLEAN /\ c.collect \subseteq Range(Optional)
                        /\ c.loki \in {"", "bad", "good"} /\ c.batch \in Int
                        /\ c.maxAge \in Int
  /\ None \notin 0..3 /\ None \notin [batch : Int, location : Locations \cup {"UTC"}]
  /\ MaxAge \in Nat \ {0} /\ MaxFailures \in Nat

VARIABLES
  conf,        \* the configuration
  command,     \* "help", "version" or "run"
  pc,          \* what the process does next, "serving", or "down"
  loggers,     \* loggers[n]: the level of logger n, or None
  lines,       \* what is printed while the configuration is known: [by, level]
  registered,  \* the collectors in the Prometheus registry
  visited,     \* how many of the optional collectors have had their turn
  loki,        \* the Loki client, or None
  buffered,    \* the client holds an entry of the alert that is not yet sent
  open,        \* the alert is open in SAP
  age,         \* how long ago SAP says that it was raised, or None if that is unreadable
  shown,       \* a scrape has shown the alert
  delivered,   \* Loki has an entry of the alert
  failures     \* bound

vars == <<conf, command, pc, loggers, lines, registered, visited, loki, buffered, open, age,
          shown, delivered, failures>>
process == <<loggers, registered, visited, loki, buffered>>
given   == <<conf, command>>
program == <<pc, lines, loggers, registered, visited, loki, failures>>
world   == <<conf, command, open, age, shown, delivered>>
-----------------------------------------------------------------------------
(* Loggers.                                                                 *)

LevelDebug == 0
LevelInfo  == 1
LevelWarn  == 2
LevelError == 3

LoggerNames == {"main", "config", "cache", "sapcontrol", "sapcontrol-loki", "registry",
                "start_service"} \cup Range(Optional)

\* SetLevel; a level that it does not know changes nothing.
SetLevel(level, name) ==
  CASE name = "debug"             -> LevelDebug
    [] name = "info"              -> LevelInfo
    [] name \in {"warn", "warning"} -> LevelWarn
    [] name = "error"             -> LevelError
    [] OTHER                      -> level

\* Debug, Info, Warn, Error and the same with f: what is below the level is dropped.
log(by, at, level) == IF level <= at THEN {[by |-> by, level |-> at]} ELSE {}

\* Loggers after NewLogger and SetLevel, as every constructor calls them.
LevelOf(names) ==
  [n \in LoggerNames |-> IF n \in names THEN SetLevel(LevelInfo, conf.level) ELSE loggers[n]]

\* NewLogger says so with a line that does not look at the level.
NewLogger(names) == {[by |-> n, level |-> LevelDebug] : n \in names}
-----------------------------------------------------------------------------
(* The process.                                                             *)

Init ==
  /\ conf \in Configs /\ command \in {"help", "version", "run"}
  /\ pc = "down"
  /\ loggers    = [n \in LoggerNames |-> None]
  /\ registered = {} /\ visited = 0
  /\ loki = None /\ buffered = FALSE
  /\ lines = {}
  /\ open \in BOOLEAN /\ age \in 1..MaxAge \cup {None} /\ shown = FALSE /\ delivered = FALSE
  /\ failures = 0

\* The process is gone, and its memory with it.
Exit ==
  /\ pc' = "down"
  /\ loggers'    = [n \in LoggerNames |-> None]
  /\ registered' = {} /\ visited' = 0
  /\ loki' = None /\ buffered' = FALSE

\* systemd: Restart=always.
Start ==
  /\ pc = "down"
  /\ pc' = "main"
  /\ UNCHANGED <<process, world, lines, failures>>

\* -h and --version print and exit; help has precedence.
main ==
  /\ pc = "main"
  /\ \/ command \in {"help", "version"} /\ Exit
     \/ command = "run" /\ pc' = "config" /\ UNCHANGED process
  /\ UNCHANGED <<world, lines, failures>>

\* config.New; its error is fatal.
LoadConfig ==
  /\ pc = "config"
  /\ \/ conf.valid
        /\ loggers' = LevelOf({"main", "config"})
        /\ lines' = log("main", LevelInfo, SetLevel(LevelInfo, conf.level))
        /\ pc' = "clients"
        /\ UNCHANGED <<registered, visited, loki, buffered>>
     \/ ~ conf.valid /\ Exit /\ lines' = {}
  /\ UNCHANGED <<world, failures>>

\* No URL, or one that no client can be made for: alerts do not go to Loki.
NewLokiClient ==
  IF conf.loki = "good"
  THEN [batch    |-> IF conf.batch <= 0 THEN 1 ELSE conf.batch,
        location |-> IF conf.location \in Locations THEN conf.location ELSE "UTC"]
  ELSE None

NewClients ==
  LET names == {"cache", "sapcontrol", "sapcontrol-loki"}
  IN /\ pc = "clients"
     /\ loggers' = LevelOf(names)
     /\ loki' = NewLokiClient
     /\ lines' = lines \cup NewLogger(names)
     /\ pc' = "start_service"
     /\ UNCHANGED <<registered, visited, buffered, world, failures>>

\* NewCollector makes a collector with a logger of its own; MustRegister.
Registers(name) ==
  /\ registered' = registered \cup {name}
  /\ loggers' = LevelOf({name})

RegisterStartService ==
  /\ pc = "start_service"
  /\ Registers("start_service")
  /\ lines' = lines \cup NewLogger({"start_service"}) \cup log("main", LevelInfo, loggers["main"])
  /\ pc' = "registry"
  /\ UNCHANGED <<visited, loki, buffered, world, failures>>

EnterRegistry ==
  /\ pc = "registry"
  /\ loggers' = LevelOf({"registry"})
  /\ lines' = lines \cup NewLogger({"registry"})
  /\ pc' = "optional"
  /\ UNCHANGED <<registered, visited, loki, buffered, world, failures>>

\* Mutant: the first collector that is switched off ends the registration.
RegisterUntilDisabled ==
  LET name == Optional[visited + 1]
  IN /\ pc = "optional" /\ visited < Len(Optional)
     /\ \/ /\ name \in conf.collect
           /\ Registers(name)
           /\ visited' = visited + 1
        \/ /\ name \notin conf.collect
           /\ visited' = Len(Optional)
           /\ UNCHANGED <<registered, loggers>>
     /\ UNCHANGED <<pc, lines, loki, buffered, world, failures>>

RegisterOptionalCollector ==
  LET name == Optional[visited + 1]
  IN /\ pc = "optional" /\ visited < Len(Optional)
     /\ visited' = visited + 1
     /\ \/ /\ name \in conf.collect
           /\ Registers(name)
           /\ lines' = lines \cup NewLogger({name}) \cup log("registry", LevelInfo, loggers["registry"])
        \/ /\ name \notin conf.collect
           /\ lines' = lines \cup log("registry", LevelDebug, loggers["registry"])
           /\ UNCHANGED <<registered, loggers>>
     /\ UNCHANGED <<pc, loki, buffered, world, failures>>

\* The handlers are set, and the process listens until it ends.
Serve ==
  /\ pc = "optional" /\ visited = Len(Optional)
  /\ pc' = "serving"
  /\ lines' = lines \cup log("main", LevelInfo, loggers["main"])
  /\ UNCHANGED <<process, world, failures>>

\* ListenAndServe fails, at once or later: Fatalf.  A signal, or the HUP of
\* systemd's ExecReload, which nothing handles, does the same to the memory.
Crash ==
  /\ pc # "down" /\ failures < MaxFailures
  /\ failures' = failures + 1
  /\ Exit /\ lines' = {}
  /\ UNCHANGED world
-----------------------------------------------------------------------------
(* An alert.                                                                *)

\* alert_samples_max_age: a negative one accepts any age; a time that cannot be read
\* is replaced by the current one, a moment ago when it is tested.
TooOld == conf.maxAge >= 0 /\ (IF age = None THEN 1 ELSE age) > conf.maxAge

\* Mutant: only what no scrape has shown before is pushed.
PushesNewOnly == loki # None /\ ~ TooOld /\ ~ shown

\* An open alert is pushed if there is a client and it is not too old.
Pushes == loki # None /\ ~ TooOld

\* Prometheus scrapes.
Scrape ==
  /\ pc = "serving" /\ "alerts" \in registered /\ open
  /\ shown' = TRUE
  /\ buffered' = (buffered \/ Pushes)
  /\ UNCHANGED <<given, program, open, age, delivered>>

\* The client sends a batch; Loki takes it, or it is lost.
Sent(received) ==
  /\ buffered /\ buffered' = FALSE
  /\ delivered' = (delivered \/ received)
  /\ UNCHANGED <<given, program, open, age, shown>>
Deliver   == Sent(TRUE)
LoseBatch == Sent(FALSE)

\* SAP raises an alert, which nobody has seen yet.
Opens ==
  /\ ~ open /\ open' = TRUE
  /\ age' \in {1, None}
  /\ shown' = FALSE /\ buffered' = FALSE /\ delivered' = FALSE
  /\ UNCHANGED <<given, program>>

Closes ==
  /\ open /\ open' = FALSE
  /\ UNCHANGED <<given, program, buffered, age, shown, delivered>>

\* Time passes.
Ages ==
  /\ age # None /\ age < MaxAge /\ age' = age + 1
  /\ UNCHANGED <<given, program, buffered, open, shown, delivered>>

Run ==
  \/ Start \/ main \/ LoadConfig \/ NewClients \/ RegisterStartService \/ EnterRegistry
  \/ RegisterOptionalCollector \/ Serve

Next == Run \/ Crash \/ Scrape \/ Deliver \/ LoseBatch \/ Opens \/ Closes \/ Ages

Spec == Init /\ [][Next]_vars

\* systemd restarts and the process runs on; Prometheus scrapes again and again;
\* if batches go on being sent, one of them gets through.
FairSpec == Spec /\ WF_vars(Run) /\ WF_vars(Scrape) /\ SF_vars(Deliver)
-----------------------------------------------------------------------------
(* Properties.                                                              *)

\* A process that serves has registered just the collectors that are switched on,
\* whichever of them are off and whatever runs in the SAP system (the code does not
\* look, although optional_collectors.go:18 and its test say so), and has a Loki
\* client, with a time zone and a batch of at least one, just if one can be made
\* (optional_collectors.go:25-68, loki_client.go:26-71).
ServesComplete ==
  pc = "serving" =>
    /\ conf.valid /\ command = "run"
    /\ registered = {"start_service"} \cup conf.collect
    /\ (loki # None) <=> (conf.loki = "good")
    /\ loki # None => loki.batch > 0 /\ loki.location \in Locations \cup {"UTC"}

\* Every part of the process logs at the level of the option: each constructor
\* makes a logger of its own and has to set it (main.go:76, client.go:33, ...).
LoggersAgree ==
  pc = "serving" =>
    LET made == {n \in LoggerNames : loggers[n] # None}
    IN /\ made = LoggerNames \ (Range(Optional) \ conf.collect)
       /\ \A n \in made : loggers[n] = loggers["main"]
       /\ \A n \in made : conf.level = "error" => loggers[n] = LevelError

\* The option accepts the alert: any age, or this one, or a time that cannot be read.
Accepted ==
  \/ conf.maxAge < 0
  \/ age # None /\ age <= conf.maxAge
  \/ age = None /\ conf.maxAge > 0

\* An alert that stays open, and that the option goes on accepting, comes to Loki
\* although crashes and failed batches lose what was pushed: every scrape pushes it
\* again (alerts.go:203-216).  One that grows too old before it got through never does.
OpenAlertReachesLoki ==
  (/\ conf.valid /\ command = "run" /\ "alerts" \in conf.collect /\ conf.loki = "good"
   /\ <>[](open /\ Accepted)) => <>[]delivered

\* The level decides what a process that comes to serve has printed: with "error" no
\* line says more than the debug line that NewLogger prints unasked, and with a
\* lower level the lines of main are there (logger.go:29, 48-109).
LevelDecides ==
  pc = "serving" =>
    LET below == {l \in lines : l.level < SetLevel(LevelInfo, conf.level)}
    IN  /\ \A l \in below : l.level = LevelDebug
        /\ (\E l \in lines : l.by = "main") <=> SetLevel(LevelInfo, conf.level) <= LevelInfo

\* A process that serves is the one the configuration asks for: its collectors, its
\* Loki client, the levels of all its loggers and what it has printed (main.go:64-157).
ServesAsConfigured == ServesComplete /\ LoggersAgree /\ LevelDecides
=============================================================================
