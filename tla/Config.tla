-------------------------------- MODULE Config --------------------------------
(***************************************************************************)
(* How the exporter gets its configuration: config.New, and viper under it, *)
(* which keeps a value of an option in each of six layers and answers Get   *)
(* with the first layer that has one.                                       *)
(*                                                                          *)
(* A URL is taken apart: what url.ParseRequestURI finds in it.  Options     *)
(* that nothing in New depends on are left out.                             *)
(***************************************************************************)
EXTENDS Naturals, Sequences

CONSTANTS
  Domains,     \* domain names; "" is none
  BadDomains,  \* those of them that no URL can contain
  Hosts,       \* first parts of host names
  Ports,       \* ports
  Paths,       \* what may follow --config; "" is no path
  Places,      \* where the file may lie: a directory with a name, or such a path
  UserUrls,    \* what users write for sap_control_url
  Unset,       \* a layer has no value
  Garbage      \* text that is no URL, with or without a scheme

VARIABLES
  pc,       \* where New is: the call it makes next, or "ready" or "failed"
  layers,   \* layers[l][o]: the value of option o in layer l
  args,     \* the command line: a value for each option that it has
  env,      \* the environment
  disk      \* [place, readable, content]: the file there is, if any, and what it says

vars == <<pc, layers, args, env, disk>>
inputs == <<args, env, disk>>

URLs == [scheme : {"", "http", "https"}, host : Hosts, domain : Domains \ BadDomains,
         port : Ports \cup {""}]

ASSUME ConfigAssumption ==
  /\ UserUrls \subseteq URLs \cup {Garbage}
  /\ "" \in Domains \ BadDomains /\ BadDomains \subseteq Domains
  /\ "localhost" \in Hosts /\ {"50013", "50014"} \subseteq Ports /\ "" \notin Ports
  /\ "" \in Paths /\ "" \notin Places
  /\ Unset \notin URLs \cup {Garbage} \cup Domains \cup Paths \cup Ports \cup BOOLEAN
  /\ Garbage \notin URLs

Options == {"sap_control_url", "host_domain", "config", "sap_port", "sap_use_ssl", "sap_host"}

Nothing == [o \in Options |-> Unset]

\* What a user can say by one of the three ways.
Says(url, domain, path) ==
  [Nothing EXCEPT !["sap_control_url"] = url, !["host_domain"] = domain, !["config"] = path]

CommandLines == {Says(url, domain, path) : url \in UserUrls \cup {Unset},
                                           domain \in Domains \cup {Unset},
                                           path \in Paths \cup {Unset}}

\* An empty environment variable counts as none.
InEnvironment(values) == (values \ {""}) \cup {Unset}

Environments == {Says(url, domain, path) : url \in UserUrls \cup {Unset},
                                           domain \in InEnvironment(Domains),
                                           path \in InEnvironment(Paths)}

Contents == {Says(url, domain, Unset) : url \in UserUrls \cup {Unset},
                                        domain \in Domains \cup {Unset}}
-----------------------------------------------------------------------------
(* viper.                                                                   *)

\* The layers in the order in which viper asks them.
Precedence == <<"override", "flag", "env", "file", "default", "flagDefault">>
LayerNames == {"override", "flag", "env", "file", "default", "flagDefault"}

Has(n, o) == layers[Precedence[n]][o] # Unset
FirstSet(o) == CHOOSE n \in 1..6 : Has(n, o) /\ \A m \in 1..(n - 1) : ~ Has(m, o)

\* An option that no layer has is the zero value of its type, here "".
Get(o) == IF \E n \in 1..6 : Has(n, o) THEN layers[Precedence[FirstSet(o)]][o] ELSE ""

SetIn(layer, values) ==
  layers' = [layers EXCEPT ![layer] =
               [o \in Options |-> IF o \in DOMAIN values THEN values[o] ELSE layers[layer][o]]]
-----------------------------------------------------------------------------
(* New.                                                                     *)

\* The defaults that the flags are declared with (main.go).
FlagDefaults ==
  Says([scheme |-> "", host |-> "localhost", domain |-> "", port |-> "50013"], "", "")

Defaults ==
  [sap_control_url |-> [scheme |-> "https", host |-> "localhost", domain |-> "", port |-> "50014"]]

Init ==
  /\ pc     = "BindPFlags"
  /\ layers = [l \in LayerNames |-> Nothing]
  /\ args \in CommandLines
  /\ env  \in Environments
  /\ disk \in [place : Places, readable : {TRUE}, content : Contents]
              \cup [place : Places \cup {""}, readable : {FALSE}, content : {Nothing}]

\* Only a flag that is on the command line precedes the other layers.
BindPFlags ==
  /\ pc = "BindPFlags" /\ pc' = "setDefaults"
  /\ layers' = [layers EXCEPT !["flag"] = args, !["flagDefault"] = FlagDefaults]
  /\ UNCHANGED inputs

\* Mutant: Set instead of SetDefault.
SetDefaultsOverride ==
  /\ pc = "setDefaults" /\ pc' = "bindEnvVars"
  /\ SetIn("override", Defaults)
  /\ UNCHANGED inputs

setDefaults ==
  /\ pc = "setDefaults" /\ pc' = "bindEnvVars"
  /\ SetIn("default", Defaults)
  /\ UNCHANGED inputs

\* AutomaticEnv: every option can come from the environment.
bindEnvVars ==
  /\ pc = "bindEnvVars" /\ pc' = "loadConfigurationFromFile"
  /\ layers' = [layers EXCEPT !["env"] = env]
  /\ UNCHANGED inputs

\* The directories that viper searches, in this order, each with the one name.
SearchPath == {"./sap_system_exporter", "./config/sap_system_exporter",
               "./conf/sap_system_exporter", "/etc/sap_system_exporter"}

LookedFor == IF Get("config") # "" THEN {Get("config")} ELSE SearchPath

Found == disk.place \in LookedFor

\* Mutant: when there is no file that can be read, the defaults will do.
MayGoWithoutAlways == ~ (Found /\ disk.readable)

\* Only the files that are looked for by default need not exist.
MayGoWithout == Get("config") = "" /\ ~ Found

loadConfigurationFromFile ==
  /\ pc = "loadConfigurationFromFile"
  /\ \/ /\ Found /\ disk.readable
        /\ layers' = [layers EXCEPT !["file"] = disk.content]
        /\ pc' = "sanitizeSapControlUrl"
     \/ MayGoWithout /\ pc' = "sanitizeSapControlUrl" /\ UNCHANGED layers
     \/ ~ (Found /\ disk.readable) /\ ~ MayGoWithout /\ pc' = "failed" /\ UNCHANGED layers
  /\ UNCHANGED inputs

WithScheme(url) == IF url \in URLs /\ url.scheme = "" THEN [url EXCEPT !.scheme = "http"] ELSE url

sanitizeSapControlUrl ==
  /\ pc = "sanitizeSapControlUrl" /\ pc' = "validateSapControlUrl"
  /\ SetIn("override", [sap_control_url |-> WithScheme(Get("sap_control_url"))])
  /\ UNCHANGED inputs

\* No URL, no port, or no URL any more once it has the domain of host_domain.
Refuses(url) ==
  url \in URLs => \/ url.port = ""
                 \/ (url.domain = "" /\ Get("host_domain") \in BadDomains)

\* What every URL says; a URL without a domain leaves host_domain alone.
FromUrl(url) ==
  [sap_port |-> url.port, sap_use_ssl |-> (url.scheme = "https"),
   sap_host |-> <<url.host, url.domain>>]

\* The domain of the URL becomes the host_domain.
FromUrlWithDomain(url) ==
  [sap_port |-> url.port, sap_use_ssl |-> (url.scheme = "https"),
   sap_host |-> <<url.host, url.domain>>, host_domain |-> url.domain]

\* Mutant: the URL is completed for the test only.
CompletedForTest(url) == FromUrl(url)

\* The host of the URL gets the domain; sap_host gets Hostname, not what it returns.
Completed(url) ==
  [sap_port |-> url.port, sap_use_ssl |-> (url.scheme = "https"), sap_host |-> <<"func">>,
   sap_control_url |-> [url EXCEPT !.domain = Get("host_domain")]]

\* What validateSapControlUrl sets: the domain of the URL is the host_domain, or
\* else the URL gets the host_domain, if there is one.
Settled(url) ==
  IF url.domain # "" THEN FromUrlWithDomain(url)
  ELSE IF Get("host_domain") # "" THEN Completed(url) ELSE FromUrl(url)

validateSapControlUrl ==
  /\ pc = "validateSapControlUrl"
  /\ LET url == Get("sap_control_url")
     IN IF Refuses(url)
        THEN pc' = "failed" /\ UNCHANGED layers
        ELSE pc' = "ready"  /\ SetIn("override", Settled(url))
  /\ UNCHANGED inputs

Next ==
  \/ BindPFlags \/ setDefaults \/ bindEnvVars \/ loadConfigurationFromFile
  \/ sanitizeSapControlUrl \/ validateSapControlUrl

Spec == Init /\ [][Next]_vars
-----------------------------------------------------------------------------
(* Properties.                                                              *)

OptionType(o) ==
  CASE o = "sap_control_url" -> URLs \cup {Garbage}
    [] o = "host_domain"     -> Domains
    [] o = "config"          -> Paths
    [] o = "sap_port"        -> Ports
    [] o = "sap_use_ssl"     -> BOOLEAN
    [] o = "sap_host"        -> (Hosts \X Domains) \cup {<<"func">>}

\* The shape of the state; every layer has values of an option's type only.
TypeOK ==
  /\ pc \in {"BindPFlags", "setDefaults", "bindEnvVars", "loadConfigurationFromFile",
             "sanitizeSapControlUrl", "validateSapControlUrl", "ready", "failed"}
  /\ layers = [l \in LayerNames |-> [o \in Options |-> layers[l][o]]]
  /\ \A l \in LayerNames : \A o \in Options : layers[l][o] \in OptionType(o) \cup {Unset}
  /\ args \in CommandLines /\ env \in Environments
  /\ disk.content \in Contents

\* Five options say where SAP is, and different calls read different ones: the
\* URL asks for the list of instances, the others make the URLs of the instances
\* (current_instance.go:86).  When New returns they agree, whichever layers they
\* came from (config.go:74).
UrlAgrees ==
  pc = "ready" =>
    LET url == Get("sap_control_url")
    IN /\ url \in URLs /\ url.scheme # "" /\ url.port # ""
       /\ Get("sap_port") = url.port
       /\ Get("sap_use_ssl") = (url.scheme = "https")
       /\ Get("host_domain") = url.domain

\* The file that the user names, by one way or the other, or "".
NamedFile ==
  IF args["config"] # Unset THEN args["config"]
  ELSE IF env["config"] # Unset THEN env["config"] ELSE ""

\* The file is the one that is named, or else lies where the loader searches.
FileCounts == disk.place \in (IF NamedFile # "" THEN {NamedFile} ELSE SearchPath)

FileSays == IF FileCounts THEN disk.content ELSE Nothing

\* The first of the ways by which a user may have given the URL.
GivenUrl ==
  CASE args["sap_control_url"] # Unset -> args["sap_control_url"]
    [] args["sap_control_url"] = Unset /\ env["sap_control_url"] # Unset ->
         env["sap_control_url"]
    [] OTHER -> FileSays["sap_control_url"]

\* Of a URL that the user gave by some way, the repairs leave host and port
\* alone, and the defaults, which are set on two layers, never replace it.
UserUrlKept ==
  pc = "ready" /\ GivenUrl # Unset =>
    /\ GivenUrl \in URLs
    /\ Get("sap_control_url").host = GivenUrl.host
    /\ Get("sap_control_url").port = GivenUrl.port

\* A file that the user names is read, by whichever way and whatever lies in the
\* directories, and one that lies where the loader searches but cannot be read is not
\* passed over: New does not return with less than such a file says (loader.go:14-43).
\* One that lies elsewhere counts for nothing, be it where README.md:89 says.
FileNotIgnored ==
  pc = "ready" =>
    /\ NamedFile # "" => FileCounts
    /\ FileCounts => disk.readable
    /\ layers["file"] = FileSays
=============================================================================
