----------------------------- MODULE ConfigProofs -----------------------------
(***************************************************************************)
(* Proofs about config.New as Config models it, for any hosts, domains,    *)
(* ports and URLs, whatever command line, environment and file say.        *)
(***************************************************************************)
EXTENDS Config, TLAPS

\* What Get returns of an option, from the layer that has precedence.
GetFacts(o) ==
  /\ Get(o) # Unset
  /\ layers["override"][o] # Unset => Get(o) = layers["override"][o]
  /\ \/ Get(o) = "" /\ \A l \in LayerNames : layers[l][o] = Unset
     \/ \E l \in LayerNames : Get(o) = layers[l][o]

\* The first layer that has a value is one that has a value.
LEMMA FirstSetHas ==
  ASSUME NEW o, \E n \in 1..6 : Has(n, o)
  PROVE  /\ FirstSet(o) \in 1..6 /\ Has(FirstSet(o), o)
         /\ \A m \in 1..(FirstSet(o) - 1) : ~ Has(m, o)
         /\ Has(1, o) => FirstSet(o) = 1
<1> DEFINE First(n) == Has(n, o) /\ \A m \in 1..(n - 1) : ~ Has(m, o)
<1>1. \E n \in 1..6 : First(n)
  <2> HIDE DEF First
  <2>1. \A n \in 1..6 : First(n) <=> (Has(n, o) /\ \A m \in 1..6 : m < n => ~ Has(m, o))
    BY DEF First
  <2>2. CASE Has(1, o)
    BY <2>1, <2>2
  <2>3. CASE ~ Has(1, o) /\ Has(2, o)
    BY <2>1, <2>3
  <2>4. CASE ~ Has(1, o) /\ ~ Has(2, o) /\ Has(3, o)
    BY <2>1, <2>4
  <2>5. CASE ~ Has(1, o) /\ ~ Has(2, o) /\ ~ Has(3, o) /\ Has(4, o)
    BY <2>1, <2>5
  <2>6. CASE ~ Has(1, o) /\ ~ Has(2, o) /\ ~ Has(3, o) /\ ~ Has(4, o) /\ Has(5, o)
    BY <2>1, <2>6
  <2>7. CASE ~ Has(1, o) /\ ~ Has(2, o) /\ ~ Has(3, o) /\ ~ Has(4, o) /\ ~ Has(5, o)
    <3>1. Has(6, o)
      BY <2>7
    <3> QED
      BY <2>1, <2>7, <3>1
  <2> QED
    BY <2>2, <2>3, <2>4, <2>5, <2>6, <2>7
<1>2. FirstSet(o) \in 1..6 /\ First(FirstSet(o))
  BY <1>1 DEF FirstSet
<1> QED
  BY <1>2

LEMMA GetIs == \A o : GetFacts(o)
<1> SUFFICES ASSUME NEW o PROVE GetFacts(o)
  OBVIOUS
<1>0. "" # Unset
  BY ConfigAssumption DEF ConfigAssumption
<1>1. CASE \E n \in 1..6 : Has(n, o)
  <2>1. Get(o) = layers[Precedence[FirstSet(o)]][o] /\ Get(o) # Unset
    BY <1>1, FirstSetHas DEF Get, Has
  <2>2. Precedence[FirstSet(o)] \in LayerNames
    BY <1>1, FirstSetHas DEF Precedence, LayerNames
  <2>3. layers["override"][o] # Unset => FirstSet(o) = 1
    BY <1>1, FirstSetHas DEF Has, Precedence
  <2>4. Precedence[1] = "override"
    BY DEF Precedence
  <2> QED
    BY <2>1, <2>2, <2>3, <2>4 DEF GetFacts
<1>2. CASE ~ \E n \in 1..6 : Has(n, o)
  <2>1. Get(o) = ""
    BY <1>2 DEF Get
  <2>2. \A n \in 1..6 : layers[Precedence[n]][o] = Unset
    BY <1>2 DEF Has
  <2>3. \A l \in LayerNames : \E n \in 1..6 : l = Precedence[n]
    <3>1. /\ Precedence[1] = "override" /\ Precedence[2] = "flag" /\ Precedence[3] = "env"
          /\ Precedence[4] = "file" /\ Precedence[5] = "default"
          /\ Precedence[6] = "flagDefault"
      BY DEF Precedence
    <3> QED
      BY <3>1 DEF LayerNames
  <2>4. \A l \in LayerNames : layers[l][o] = Unset
    BY <2>2, <2>3
  <2> QED
    BY <1>0, <2>1, <2>4 DEF GetFacts, LayerNames
<1> QED
  BY <1>1, <1>2

LEMMA GetIsNext == (\A o : GetFacts(o))'
BY GetIs, PTL

FirstFacts(o) ==
  (\E n \in 1..6 : Has(n, o)) =>
    FirstSet(o) \in 1..6 /\ Has(FirstSet(o), o) /\ \A m \in 1..(FirstSet(o) - 1) : ~ Has(m, o)

LEMMA FirstIs == \A o : FirstFacts(o)
BY FirstSetHas DEF FirstFacts

LEMMA FirstIsNext == (\A o : FirstFacts(o))'
BY FirstIs, PTL

\* What Get returns of an option depends on its own values only.
LEMMA GetStable ==
  ASSUME NEW o, \A n \in 1..6 : layers'[Precedence[n]][o] = layers[Precedence[n]][o]
  PROVE  Get(o)' = Get(o)
<1>1. \A n \in 1..6 : Has(n, o)' <=> Has(n, o)
  BY DEF Has
<1>2. CASE \E n \in 1..6 : Has(n, o)
  <2>1. FirstFacts(o) /\ FirstFacts(o)'
    BY FirstIs, FirstIsNext
  <2>2. /\ FirstSet(o) \in 1..6 /\ Has(FirstSet(o), o)
        /\ \A m \in 1..(FirstSet(o) - 1) : ~ Has(m, o)
    BY <1>2, <2>1 DEF FirstFacts
  <2>3. /\ FirstSet(o)' \in 1..6 /\ Has(FirstSet(o)', o)
        /\ \A m \in 1..(FirstSet(o)' - 1) : ~ Has(m, o)
    BY <1>1, <1>2, <2>1 DEF FirstFacts, Has
  <2>4. FirstSet(o)' = FirstSet(o)
    BY <2>2, <2>3
  <2> QED
    BY <1>1, <1>2, <2>2, <2>4 DEF Get
<1>3. CASE ~ \E n \in 1..6 : Has(n, o)
  BY <1>1, <1>3 DEF Get
<1> QED
  BY <1>2, <1>3
-----------------------------------------------------------------------------
(* Types.                                                                   *)

Shape(L) == L = [l \in LayerNames |-> [o \in Options |-> L[l][o]]]

Typed(values) == \A o \in Options : values[o] \in OptionType(o) \cup {Unset}

\* What users say has the types of the options.
LEMMA SaysTyped ==
  ASSUME NEW url \in URLs \cup {Garbage, Unset}, NEW domain \in Domains \cup {Unset},
         NEW path \in Paths \cup {Unset}
  PROVE  /\ Says(url, domain, path) = [o \in Options |-> Says(url, domain, path)[o]]
         /\ Typed(Says(url, domain, path))
BY DEF Says, Nothing, Typed, OptionType, Options

LEMMA InputsTyped ==
  ASSUME NEW values \in CommandLines \cup Environments \cup Contents
  PROVE  values = [o \in Options |-> values[o]] /\ Typed(values)
<1>1. \E url \in UserUrls \cup {Unset}, domain \in Domains \cup {Unset},
         path \in Paths \cup {Unset} : values = Says(url, domain, path)
  <2>1. CASE values \in CommandLines
    BY <2>1 DEF CommandLines
  <2>2. CASE values \in Environments
    <3>1. PICK url \in UserUrls \cup {Unset}, domain \in InEnvironment(Domains),
               path \in InEnvironment(Paths) : values = Says(url, domain, path)
      BY <2>2 DEF Environments
    <3>2. domain \in Domains \cup {Unset} /\ path \in Paths \cup {Unset}
      BY DEF InEnvironment
    <3> QED
      BY <3>1, <3>2
  <2>3. CASE values \in Contents
    BY <2>3 DEF Contents
  <2> QED
    BY <2>1, <2>2, <2>3
<1>2. PICK url \in UserUrls \cup {Unset}, domain \in Domains \cup {Unset},
           path \in Paths \cup {Unset} : values = Says(url, domain, path)
  BY <1>1
<1>3. url \in URLs \cup {Garbage, Unset}
  BY ConfigAssumption DEF ConfigAssumption
<1>4. /\ Says(url, domain, path) = [o \in Options |-> Says(url, domain, path)[o]]
      /\ Typed(Says(url, domain, path))
  BY <1>3, SaysTyped
<1> QED
  BY <1>2, <1>4

\* The defaults set a URL on two layers, so that Get finds one.
Defaulted ==
  pc \notin {"BindPFlags", "setDefaults"} => layers["default"]["sap_control_url"] # Unset

\* The URL that is checked stands on the topmost layer, and has a scheme.
Sanitized ==
  pc = "validateSapControlUrl" =>
    LET url == layers["override"]["sap_control_url"]
    IN url # Unset /\ (url \in URLs => url.scheme # "")

IInv == TypeOK /\ Defaulted /\ Sanitized /\ UrlAgrees

LEMMA InitIInv == Init => IInv
<1> SUFFICES ASSUME Init PROVE IInv
  OBVIOUS
<1>1. TypeOK
  <2>1. layers = [l \in LayerNames |-> [o \in Options |-> layers[l][o]]]
    BY DEF Init, Nothing
  <2>2. \A l \in LayerNames : \A o \in Options : layers[l][o] = Unset
    BY DEF Init, Nothing
  <2>3. Nothing \in Contents
    <3>1. Says(Unset, Unset, Unset) = Nothing
      BY DEF Says, Nothing, Options
    <3> QED
      BY <3>1 DEF Contents
  <2>4. disk.content \in Contents
    BY <2>3 DEF Init
  <2> QED
    BY <2>1, <2>2, <2>4 DEF Init, TypeOK
<1>2. Defaulted /\ Sanitized /\ UrlAgrees
  BY DEF Init, Defaulted, Sanitized, UrlAgrees
<1> QED
  BY <1>1, <1>2 DEF IInv

\* What becomes of the layers when one of them is replaced.
LEMMA ReplaceKeepsTypes ==
  ASSUME TypeOK, NEW l \in LayerNames, NEW values,
         values = [o \in Options |-> values[o]], Typed(values),
         layers' = [layers EXCEPT ![l] = values],
         pc' \in {"BindPFlags", "setDefaults", "bindEnvVars", "loadConfigurationFromFile",
                  "sanitizeSapControlUrl", "validateSapControlUrl", "ready", "failed"},
         UNCHANGED inputs
  PROVE  /\ TypeOK' /\ layers'[l] = values
         /\ \A k \in LayerNames \ {l} : layers'[k] = layers[k]
<1>1. /\ Shape(layers') /\ layers'[l] = values
      /\ \A k \in LayerNames \ {l} : layers'[k] = layers[k]
  <2>1. layers = [k \in LayerNames |-> layers[k]]
        /\ \A k \in LayerNames : layers[k] = [o \in Options |-> layers[k][o]]
    BY DEF TypeOK
  <2>2. layers' = [k \in LayerNames |-> IF k = l THEN values ELSE layers[k]]
    BY <2>1
  <2>3. layers'[l] = values /\ \A k \in LayerNames \ {l} : layers'[k] = layers[k]
    BY <2>2
  <2>4. \A k \in LayerNames : layers'[k] = [o \in Options |-> layers'[k][o]]
    BY <2>1, <2>3
  <2>5. layers' = [k \in LayerNames |-> layers'[k]]
    BY <2>2
  <2>6. layers' = [k \in LayerNames |-> [o \in Options |-> layers'[k][o]]]
    BY <2>4, <2>5
  <2> QED
    BY <2>3, <2>6 DEF Shape
<1>2. \A k \in LayerNames : \A o \in Options : layers'[k][o] \in OptionType(o) \cup {Unset}
  <2> SUFFICES ASSUME NEW k \in LayerNames, NEW o \in Options
               PROVE  layers'[k][o] \in OptionType(o) \cup {Unset}
    OBVIOUS
  <2>1. CASE k = l
    BY <1>1, <2>1 DEF Typed
  <2>2. CASE k # l
    BY <1>1, <2>2 DEF TypeOK
  <2> QED
    BY <2>1, <2>2
<1> QED
  BY <1>1, <1>2 DEF TypeOK, Shape, inputs

\* What Set does: the given options of the layer change, the others stay.
LEMMA SetInReplaces ==
  ASSUME TypeOK, NEW l \in LayerNames, NEW values, SetIn(l, values),
         \A o \in Options : o \in DOMAIN values => values[o] \in OptionType(o),
         pc' \in {"BindPFlags", "setDefaults", "bindEnvVars", "loadConfigurationFromFile",
                  "sanitizeSapControlUrl", "validateSapControlUrl", "ready", "failed"},
         UNCHANGED inputs
  PROVE  /\ TypeOK'
         /\ \A o \in Options :
              layers'[l][o] = IF o \in DOMAIN values THEN values[o] ELSE layers[l][o]
         /\ \A k \in LayerNames \ {l} : layers'[k] = layers[k]
<1> DEFINE new == [o \in Options |-> IF o \in DOMAIN values THEN values[o] ELSE layers[l][o]]
<1>1. layers' = [layers EXCEPT ![l] = new]
  BY DEF SetIn
<1>2. new = [o \in Options |-> new[o]]
  OBVIOUS
<1>3. Typed(new)
  BY DEF Typed, TypeOK
<1>4. TypeOK' /\ layers'[l] = new /\ \A k \in LayerNames \ {l} : layers'[k] = layers[k]
  <2> HIDE DEF new
  <2> QED
    BY <1>1, <1>2, <1>3, ReplaceKeepsTypes
<1> QED
  BY <1>4

\* Once the defaults are set there is a URL, or what is none.
LEMMA UrlThere ==
  ASSUME TypeOK, Defaulted, pc \notin {"BindPFlags", "setDefaults"}
  PROVE  Get("sap_control_url") \in URLs \cup {Garbage}
<1>1. GetFacts("sap_control_url")
  BY GetIs
<1>2. "sap_control_url" \in Options /\ "default" \in LayerNames
  BY DEF Options, LayerNames
<1>3. \A l \in LayerNames : layers[l]["sap_control_url"] \in URLs \cup {Garbage, Unset}
  BY <1>2 DEF TypeOK, OptionType
<1> QED
  BY <1>1, <1>2, <1>3 DEF GetFacts, Defaulted

LEMMA DomainTyped ==
  ASSUME TypeOK
  PROVE  Get("host_domain") \in Domains
<1>1. GetFacts("host_domain") /\ "host_domain" \in Options
  BY GetIs DEF Options
<1>2. \A l \in LayerNames : layers[l]["host_domain"] \in Domains \cup {Unset}
  BY <1>1 DEF TypeOK, OptionType
<1> QED
  BY <1>1, <1>2, ConfigAssumption DEF GetFacts, ConfigAssumption
-----------------------------------------------------------------------------
(* Steps.                                                                   *)

LEMMA BindPFlagsIInv == IInv /\ BindPFlags => IInv'
<1> SUFFICES ASSUME IInv, BindPFlags PROVE IInv'
  OBVIOUS
<1>1. FlagDefaults = [o \in Options |-> FlagDefaults[o]] /\ Typed(FlagDefaults)
  <2>1. [scheme |-> "", host |-> "localhost", domain |-> "", port |-> "50013"] \in URLs
    BY ConfigAssumption DEF ConfigAssumption, URLs
  <2>2. "" \in Domains /\ "" \in Paths
    BY ConfigAssumption DEF ConfigAssumption
  <2> QED
    BY <2>1, <2>2, SaysTyped DEF FlagDefaults
<1>2. args = [o \in Options |-> args[o]] /\ Typed(args)
  BY InputsTyped DEF IInv, TypeOK
<1>3. layers = [k \in LayerNames |-> layers[k]]
      /\ \A k \in LayerNames : layers[k] = [o \in Options |-> layers[k][o]] /\ Typed(layers[k])
  BY DEF IInv, TypeOK, Typed
<1>4. layers' = [k \in LayerNames |-> IF k = "flagDefault" THEN FlagDefaults
                                     ELSE IF k = "flag" THEN args ELSE layers[k]]
  <2>1. "flag" \in LayerNames /\ "flagDefault" \in LayerNames /\ "flag" # "flagDefault"
    BY DEF LayerNames
  <2> QED
    BY <1>3, <2>1 DEF BindPFlags
<1>5. /\ layers' = [k \in LayerNames |-> layers'[k]]
      /\ \A k \in LayerNames : layers'[k] = [o \in Options |-> layers'[k][o]] /\ Typed(layers'[k])
  BY <1>1, <1>2, <1>3, <1>4
<1>6. layers' = [k \in LayerNames |-> [o \in Options |-> layers'[k][o]]]
  BY <1>5
<1>7. TypeOK'
  BY <1>5, <1>6 DEF IInv, TypeOK, Typed, BindPFlags, inputs
<1> QED
  BY <1>7 DEF IInv, BindPFlags, Defaulted, Sanitized, UrlAgrees

LEMMA setDefaultsIInv == IInv /\ setDefaults => IInv'
<1> SUFFICES ASSUME IInv, setDefaults PROVE IInv'
  OBVIOUS
<1>1. Defaults["sap_control_url"] \in URLs /\ DOMAIN Defaults = {"sap_control_url"}
  BY ConfigAssumption DEF ConfigAssumption, URLs, Defaults
<1>2. "default" \in LayerNames /\ "sap_control_url" \in Options
  BY DEF LayerNames, Options
<1>3. \A o \in Options : o \in DOMAIN Defaults => Defaults[o] \in OptionType(o)
  BY <1>1 DEF OptionType
<1>4. TypeOK' /\ layers'["default"]["sap_control_url"] = Defaults["sap_control_url"]
  BY <1>1, <1>2, <1>3, SetInReplaces DEF IInv, setDefaults
<1>5. Defaults["sap_control_url"] # Unset
  BY <1>1, ConfigAssumption DEF ConfigAssumption
<1> QED
  BY <1>4, <1>5 DEF IInv, setDefaults, Defaulted, Sanitized, UrlAgrees

LEMMA bindEnvVarsIInv == IInv /\ bindEnvVars => IInv'
<1> SUFFICES ASSUME IInv, bindEnvVars PROVE IInv'
  OBVIOUS
<1>1. env = [o \in Options |-> env[o]] /\ Typed(env)
  BY InputsTyped DEF IInv, TypeOK
<1>2. "env" \in LayerNames /\ "default" \in LayerNames \ {"env"}
  BY DEF LayerNames
<1>3. TypeOK' /\ layers'["default"] = layers["default"]
  BY <1>1, <1>2, ReplaceKeepsTypes DEF IInv, bindEnvVars
<1> QED
  BY <1>3 DEF IInv, bindEnvVars, Defaulted, Sanitized, UrlAgrees

LEMMA loadConfigurationFromFileIInv == IInv /\ loadConfigurationFromFile => IInv'
<1> SUFFICES ASSUME IInv, loadConfigurationFromFile PROVE IInv'
  OBVIOUS
<1>1. TypeOK' /\ layers'["default"] = layers["default"]
  <2>1. CASE UNCHANGED layers
    BY <2>1 DEF IInv, TypeOK, loadConfigurationFromFile, inputs
  <2>2. CASE layers' = [layers EXCEPT !["file"] = disk.content]
    <3>1. disk.content = [o \in Options |-> disk.content[o]] /\ Typed(disk.content)
      BY InputsTyped DEF IInv, TypeOK
    <3>2. "file" \in LayerNames /\ "default" \in LayerNames \ {"file"}
      BY DEF LayerNames
    <3> QED
      BY <2>2, <3>1, <3>2, ReplaceKeepsTypes DEF IInv, loadConfigurationFromFile
  <2> QED
    BY <2>1, <2>2 DEF loadConfigurationFromFile
<1> QED
  BY <1>1 DEF IInv, loadConfigurationFromFile, Defaulted, Sanitized, UrlAgrees

LEMMA sanitizeSapControlUrlIInv == IInv /\ sanitizeSapControlUrl => IInv'
<1> SUFFICES ASSUME IInv, sanitizeSapControlUrl PROVE IInv'
  OBVIOUS
<1> DEFINE url == Get("sap_control_url")
           fixed == WithScheme(url)
           values == [sap_control_url |-> fixed]
<1>1. url \in URLs \cup {Garbage}
  BY UrlThere DEF IInv, sanitizeSapControlUrl
<1>2. fixed \in URLs \cup {Garbage} /\ (fixed \in URLs => fixed.scheme # "")
  <2>1. CASE url \in URLs /\ url.scheme = ""
    BY <2>1 DEF WithScheme, URLs
  <2>2. CASE ~ (url \in URLs /\ url.scheme = "")
    BY <1>1, <2>2 DEF WithScheme
  <2> QED
    BY <2>1, <2>2
<1>3. "override" \in LayerNames /\ "default" \in LayerNames \ {"override"}
      /\ "sap_control_url" \in Options
  BY DEF LayerNames, Options
<1>4. \A o \in Options : o \in DOMAIN values => values[o] \in OptionType(o)
  <2>1. DOMAIN values = {"sap_control_url"} /\ values["sap_control_url"] = fixed
    OBVIOUS
  <2> HIDE DEF values, fixed
  <2> QED
    BY <1>2, <2>1 DEF OptionType
<1>5. SetIn("override", values)
  BY DEF sanitizeSapControlUrl
<1>6. /\ TypeOK' /\ layers'["override"]["sap_control_url"] = fixed
      /\ layers'["default"] = layers["default"]
  <2>1. "sap_control_url" \in DOMAIN values /\ values["sap_control_url"] = fixed
    OBVIOUS
  <2> HIDE DEF values
  <2> QED
    BY <1>3, <1>4, <1>5, <2>1, SetInReplaces DEF IInv, sanitizeSapControlUrl
<1>7. fixed # Unset
  BY <1>2, ConfigAssumption DEF ConfigAssumption
<1> QED
  BY <1>2, <1>6, <1>7 DEF IInv, sanitizeSapControlUrl, Defaulted, Sanitized, UrlAgrees

\* What validateSapControlUrl sets, of a URL that it does not refuse.
SettlesAs(values, url) ==
  /\ \A o \in Options : o \in DOMAIN values => values[o] \in OptionType(o)
  /\ "sap_port" \in DOMAIN values /\ values["sap_port"] = url.port
  /\ "sap_use_ssl" \in DOMAIN values /\ values["sap_use_ssl"] = (url.scheme = "https")
  /\ \/ /\ url.domain # "" /\ "sap_control_url" \notin DOMAIN values
        /\ "host_domain" \in DOMAIN values /\ values["host_domain"] = url.domain
     \/ /\ url.domain = "" /\ Get("host_domain") # ""
        /\ "host_domain" \notin DOMAIN values
        /\ "sap_control_url" \in DOMAIN values
        /\ values["sap_control_url"] = [url EXCEPT !.domain = Get("host_domain")]
        /\ values["sap_control_url"] \in URLs
     \/ /\ url.domain = "" /\ Get("host_domain") = ""
        /\ "host_domain" \notin DOMAIN values
        /\ "sap_control_url" \notin DOMAIN values

LEMMA SettledAgrees ==
  ASSUME TypeOK, NEW url \in URLs, url.scheme # "", ~ Refuses(url)
  PROVE  SettlesAs(Settled(url), url)
<1>0. /\ OptionType("sap_port") = Ports /\ OptionType("sap_use_ssl") = BOOLEAN
      /\ \A h \in Hosts, d \in Domains : <<h, d>> \in OptionType("sap_host")
      /\ <<"func">> \in OptionType("sap_host")
      /\ OptionType("host_domain") = Domains
      /\ URLs \subseteq OptionType("sap_control_url")
  BY DEF OptionType
<1>1. /\ url.port \in Ports /\ url.host \in Hosts /\ url.domain \in Domains
      /\ (url.scheme = "https") \in BOOLEAN
      /\ <<url.host, url.domain>> \in OptionType("sap_host")
  <2>1. /\ url.port \in Ports /\ url.host \in Hosts /\ url.domain \in Domains
        /\ (url.scheme = "https") \in BOOLEAN
    BY ConfigAssumption DEF ConfigAssumption, URLs, Refuses
  <2> QED
    BY <1>0, <2>1
<1>2. /\ FromUrl(url)["sap_port"] = url.port
      /\ FromUrl(url)["sap_use_ssl"] = (url.scheme = "https")
      /\ FromUrl(url)["sap_host"] = <<url.host, url.domain>>
      /\ DOMAIN FromUrl(url) = {"sap_port", "sap_use_ssl", "sap_host"}
  BY DEF FromUrl
<1>3. CASE url.domain # ""
  <2> DEFINE values == FromUrlWithDomain(url)
  <2>1. Settled(url) = values
    BY <1>3 DEF Settled
  <2>2. /\ DOMAIN values = {"sap_port", "sap_use_ssl", "sap_host", "host_domain"}
        /\ values["sap_port"] = url.port
        /\ values["sap_use_ssl"] = (url.scheme = "https")
        /\ values["sap_host"] = <<url.host, url.domain>>
        /\ values["host_domain"] = url.domain
    BY DEF FromUrlWithDomain
  <2> HIDE DEF values
  <2>3. \A o \in DOMAIN values : values[o] \in OptionType(o)
    BY <1>0, <1>1, <2>2
  <2>4. SettlesAs(values, url)
    BY <1>3, <2>2, <2>3 DEF SettlesAs
  <2> QED
    BY <2>1, <2>4
<1>4. CASE url.domain = "" /\ Get("host_domain") # ""
  <2> DEFINE values == Completed(url)
             completed == [url EXCEPT !.domain = Get("host_domain")]
  <2>1. Settled(url) = values
    BY <1>4 DEF Settled
  <2>2. completed \in URLs
    <3>1. Get("host_domain") \in Domains \ BadDomains
      BY <1>4, DomainTyped DEF Refuses
    <3> QED
      BY <3>1 DEF URLs
  <2>3. /\ DOMAIN values = {"sap_port", "sap_use_ssl", "sap_host", "sap_control_url"}
        /\ values["sap_port"] = url.port
        /\ values["sap_use_ssl"] = (url.scheme = "https")
        /\ values["sap_host"] = <<"func">>
        /\ values["sap_control_url"] = completed
    BY DEF Completed
  <2> HIDE DEF values, completed
  <2>4. \A o \in DOMAIN values : values[o] \in OptionType(o)
    BY <1>0, <1>1, <2>2, <2>3
  <2>5. SettlesAs(values, url)
    BY <1>4, <2>2, <2>3, <2>4 DEF SettlesAs, completed
  <2> QED
    BY <2>1, <2>5
<1>5. CASE url.domain = "" /\ Get("host_domain") = ""
  <2>1. Settled(url) = FromUrl(url)
    BY <1>5 DEF Settled
  <2>2. \A o \in DOMAIN FromUrl(url) : FromUrl(url)[o] \in OptionType(o)
    BY <1>0, <1>1, <1>2
  <2>3. SettlesAs(FromUrl(url), url)
    BY <1>2, <1>5, <2>2 DEF SettlesAs
  <2> QED
    BY <2>1, <2>3
<1> QED
  BY <1>3, <1>4, <1>5

LEMMA validateSapControlUrlIInv == IInv /\ validateSapControlUrl => IInv'
<1> SUFFICES ASSUME IInv, validateSapControlUrl PROVE IInv'
  OBVIOUS
<1> DEFINE url == Get("sap_control_url")
<1>1. CASE Refuses(url)
  <2>1. pc' = "failed" /\ UNCHANGED <<layers, args, env, disk>>
    BY <1>1 DEF validateSapControlUrl, inputs
  <2> QED
    BY <2>1 DEF IInv, TypeOK, validateSapControlUrl, Defaulted, Sanitized, UrlAgrees
<1>2. CASE ~ Refuses(url)
  <2> DEFINE values == Settled(url)
  <2>1. pc' = "ready" /\ SetIn("override", values) /\ UNCHANGED inputs
    BY <1>2 DEF validateSapControlUrl
  <2>2. /\ url = layers["override"]["sap_control_url"]
        /\ url \in URLs /\ url.scheme # ""
    <3>1. url = layers["override"]["sap_control_url"]
      BY GetIs DEF GetFacts, IInv, Sanitized, validateSapControlUrl
    <3>2. url \in URLs
      BY <1>2 DEF Refuses
    <3> QED
      BY <3>1, <3>2 DEF IInv, Sanitized, validateSapControlUrl
  <2>3. url.port # ""
    BY <1>2, <2>2 DEF Refuses
  <2> HIDE DEF url
  <2>4. SettlesAs(values, url)
    BY <1>2, <2>2, SettledAgrees DEF IInv
  <2> HIDE DEF values
  <2>5. "override" \in LayerNames /\ {"default", "flag", "env", "file", "flagDefault"} = LayerNames \ {"override"}
        /\ {"sap_control_url", "sap_port", "sap_use_ssl", "host_domain"} \subseteq Options
    BY DEF LayerNames, Options
  <2>6. /\ TypeOK'
        /\ \A o \in Options :
             layers'["override"][o] = IF o \in DOMAIN values THEN values[o] ELSE layers["override"][o]
        /\ \A k \in LayerNames \ {"override"} : layers'[k] = layers[k]
    BY <2>1, <2>4, <2>5, SetInReplaces DEF IInv, SettlesAs
  <2>7. Defaulted'
    BY <2>5, <2>6 DEF IInv, Defaulted, validateSapControlUrl
  <2>8. \A o : layers'["override"][o] # Unset => Get(o)' = layers'["override"][o]
    BY GetIsNext DEF GetFacts
  <2>9. /\ Get("sap_port")' = url.port
        /\ Get("sap_use_ssl")' = (url.scheme = "https")
    <3>1. url.port # Unset /\ (url.scheme = "https") # Unset
      <4>1. url.port \in Ports
        BY <2>2, <2>3 DEF URLs
      <4> QED
        BY <4>1, ConfigAssumption DEF ConfigAssumption
    <3> QED
      BY <2>4, <2>5, <2>6, <2>8, <3>1 DEF SettlesAs
  <2>10. UrlAgrees'
    <3>1. CASE url.domain # ""
      <4>1. Get("sap_control_url")' = url
        BY <2>2, <2>4, <2>5, <2>6, <2>8, <3>1, ConfigAssumption DEF ConfigAssumption, SettlesAs
      <4>2. Get("host_domain")' = url.domain
        <5>1. url.domain # Unset
          BY <2>2, ConfigAssumption DEF ConfigAssumption, URLs
        <5> QED
          BY <2>4, <2>5, <2>6, <2>8, <3>1, <5>1 DEF SettlesAs
      <4> QED
        BY <2>2, <2>3, <2>9, <4>1, <4>2 DEF UrlAgrees
    <3>2. CASE url.domain = "" /\ Get("host_domain") # ""
      <4>1. Get("sap_control_url")' = [url EXCEPT !.domain = Get("host_domain")]
            /\ [url EXCEPT !.domain = Get("host_domain")] \in URLs
        BY <2>4, <2>5, <2>6, <2>8, <3>2, ConfigAssumption DEF ConfigAssumption, SettlesAs
      <4>2. Get("host_domain")' = Get("host_domain")
        <5>1. \A k \in LayerNames : layers'[k]["host_domain"] = layers[k]["host_domain"]
          BY <2>4, <2>5, <2>6, <3>2 DEF SettlesAs
        <5>2. \A n \in 1..6 : Precedence[n] \in LayerNames
          BY DEF Precedence, LayerNames
        <5> QED
          BY <5>1, <5>2, GetStable
      <4>3. LET new == [url EXCEPT !.domain = Get("host_domain")]
            IN new.scheme = url.scheme /\ new.port = url.port /\ new.domain = Get("host_domain")
        BY <2>2 DEF URLs
      <4> QED
        BY <2>2, <2>3, <2>9, <4>1, <4>2, <4>3 DEF UrlAgrees
    <3>3. CASE url.domain = "" /\ Get("host_domain") = ""
      <4>1. Get("sap_control_url")' = url
        BY <2>2, <2>4, <2>5, <2>6, <2>8, <3>3, ConfigAssumption DEF ConfigAssumption, SettlesAs
      <4>2. Get("host_domain")' = Get("host_domain")
        <5>1. \A k \in LayerNames : layers'[k]["host_domain"] = layers[k]["host_domain"]
          BY <2>4, <2>5, <2>6, <3>3 DEF SettlesAs
        <5>2. \A n \in 1..6 : Precedence[n] \in LayerNames
          BY DEF Precedence, LayerNames
        <5> QED
          BY <5>1, <5>2, GetStable
      <4> QED
        BY <2>2, <2>3, <2>9, <3>3, <4>1, <4>2 DEF UrlAgrees
    <3> QED
      BY <2>4, <3>1, <3>2, <3>3 DEF SettlesAs
  <2> QED
    BY <2>1, <2>6, <2>7, <2>10 DEF IInv, Sanitized
<1> QED
  BY <1>1, <1>2

LEMMA StepIInv == IInv /\ [Next]_vars => IInv'
<1> SUFFICES ASSUME IInv, [Next]_vars PROVE IInv'
  OBVIOUS
<1>1. CASE UNCHANGED vars
  <2>1. UNCHANGED <<pc, layers, args, env, disk>>
    BY <1>1 DEF vars
  <2>2. TypeOK' /\ Defaulted' /\ Sanitized'
    BY <2>1 DEF IInv, TypeOK, Defaulted, Sanitized
  <2>3. \A o : Get(o)' = Get(o)
    BY <2>1, GetStable
  <2>4. UrlAgrees'
    BY <2>1, <2>3 DEF IInv, UrlAgrees
  <2> QED
    BY <2>2, <2>4 DEF IInv
<1> QED
  BY <1>1, BindPFlagsIInv, setDefaultsIInv, bindEnvVarsIInv, loadConfigurationFromFileIInv,
     sanitizeSapControlUrlIInv, validateSapControlUrlIInv DEF Next

LEMMA Invariant == Spec => []IInv
BY InitIInv, StepIInv, PTL DEF Spec

\* Every layer holds values of the options' types only, whatever is configured.
THEOREM TypeCorrect == Spec => []TypeOK
<1>1. IInv => TypeOK
  BY DEF IInv
<1> QED
  BY <1>1, Invariant, PTL

\* When config.New returns, the options that say where SAP is agree with each
\* other, from whichever of the six layers each of them came.
THEOREM UrlsAgree == Spec => []UrlAgrees
<1>1. IInv => UrlAgrees
  BY DEF IInv
<1> QED
  BY <1>1, Invariant, PTL
-----------------------------------------------------------------------------
(* What the user gave.                                                      *)

\* Get, layer by layer.
LEMMA GetInOrder ==
  ASSUME NEW o
  PROVE  /\ layers["override"][o] # Unset => Get(o) = layers["override"][o]
         /\ layers["override"][o] = Unset =>
              /\ layers["flag"][o] # Unset => Get(o) = layers["flag"][o]
              /\ layers["flag"][o] = Unset =>
                   /\ layers["env"][o] # Unset => Get(o) = layers["env"][o]
                   /\ layers["env"][o] = Unset =>
                        /\ layers["file"][o] # Unset => Get(o) = layers["file"][o]
<1>1. /\ Precedence[1] = "override" /\ Precedence[2] = "flag" /\ Precedence[3] = "env"
      /\ Precedence[4] = "file"
  BY DEF Precedence
<1>2. ASSUME NEW n \in 1..4, Has(n, o), \A m \in 1..(n - 1) : ~ Has(m, o)
      PROVE  Get(o) = layers[Precedence[n]][o]
  <2>1. \E k \in 1..6 : Has(k, o)
    BY <1>2
  <2>2. /\ FirstSet(o) \in 1..6 /\ Has(FirstSet(o), o)
        /\ \A m \in 1..(FirstSet(o) - 1) : ~ Has(m, o)
    BY <2>1, FirstSetHas
  <2>3. FirstSet(o) = n
    BY <1>2, <2>2
  <2> QED
    BY <2>1, <2>3 DEF Get
<1>3. /\ Has(1, o) <=> layers["override"][o] # Unset
      /\ Has(2, o) <=> layers["flag"][o] # Unset
      /\ Has(3, o) <=> layers["env"][o] # Unset
      /\ Has(4, o) <=> layers["file"][o] # Unset
  BY <1>1 DEF Has
<1>4. Has(1, o) => Get(o) = layers["override"][o]
  BY <1>1, <1>2
<1>5. Has(2, o) /\ ~ Has(1, o) => Get(o) = layers["flag"][o]
  BY <1>1, <1>2
<1>6. Has(3, o) /\ ~ Has(1, o) /\ ~ Has(2, o) => Get(o) = layers["env"][o]
  BY <1>1, <1>2
<1>7. Has(4, o) /\ ~ Has(1, o) /\ ~ Has(2, o) /\ ~ Has(3, o) => Get(o) = layers["file"][o]
  BY <1>1, <1>2
<1> QED
  BY <1>3, <1>4, <1>5, <1>6, <1>7

\* Which layers New has filled by now, and with what.
Filled ==
  /\ pc # "BindPFlags" => layers["flag"] = args
  /\ pc \in {"BindPFlags", "setDefaults", "bindEnvVars"} => layers["env"] = Nothing
  /\ pc \notin {"BindPFlags", "setDefaults", "bindEnvVars"} => layers["env"] = env
  /\ pc \in {"BindPFlags", "setDefaults", "bindEnvVars", "loadConfigurationFromFile"} =>
       layers["file"] = Nothing
  /\ pc \in {"sanitizeSapControlUrl", "validateSapControlUrl", "ready"} =>
       layers["file"] = FileSays
  /\ pc \in {"BindPFlags", "setDefaults", "bindEnvVars", "loadConfigurationFromFile",
             "sanitizeSapControlUrl"} => layers["override"] = Nothing

\* From when the file is read on, it is the one that had to be.
FileRead ==
  pc \in {"sanitizeSapControlUrl", "validateSapControlUrl", "ready"} =>
    (NamedFile # "" => FileCounts) /\ (FileCounts => disk.readable)

\* No default names a file.
NoDefaultPath ==
  layers["default"]["config"] = Unset /\ layers["flagDefault"]["config"] \in {Unset, ""}

\* The user's URL on its way through the repairs.
UrlKept ==
  pc = "validateSapControlUrl" /\ GivenUrl # Unset =>
    layers["override"]["sap_control_url"] = WithScheme(GivenUrl)

KeptState == Filled /\ NoDefaultPath /\ FileRead /\ UrlKept /\ UserUrlKept

LEMMA InitKept == Init => KeptState
<1> SUFFICES ASSUME Init PROVE KeptState
  OBVIOUS
<1>1. pc = "BindPFlags" /\ layers = [l \in LayerNames |-> Nothing]
  BY DEF Init
<1>2. /\ layers["env"] = Nothing /\ layers["file"] = Nothing /\ layers["override"] = Nothing
      /\ layers["default"] = Nothing /\ layers["flagDefault"] = Nothing
  BY <1>1 DEF LayerNames
<1>3. Nothing["config"] = Unset
  BY DEF Nothing, Options
<1>4. Filled
  BY <1>1, <1>2 DEF Filled
<1>5. NoDefaultPath
  BY <1>2, <1>3 DEF NoDefaultPath
<1>6. FileRead /\ UrlKept /\ UserUrlKept
  BY <1>1 DEF FileRead, UrlKept, UserUrlKept
<1> QED
  BY <1>4, <1>5, <1>6 DEF KeptState

\* Replacing one layer leaves the others alone.
LEMMA OneLayer ==
  ASSUME TypeOK, NEW l \in LayerNames, NEW values, layers' = [layers EXCEPT ![l] = values]
  PROVE  layers'[l] = values /\ \A k \in LayerNames \ {l} : layers'[k] = layers[k]
<1>1. DOMAIN layers = LayerNames
  <2> DEFINE L == [k \in LayerNames |-> [o \in Options |-> layers[k][o]]]
  <2>1. layers = L /\ DOMAIN L = LayerNames
    BY DEF TypeOK
  <2> QED
    BY <2>1
<1> QED
  BY <1>1

\* The names of the layers, told apart.
LEMMA LayersApart ==
  /\ {"override", "flag", "env", "file", "default", "flagDefault"} \subseteq LayerNames
  /\ {"flag", "env", "file"} \subseteq LayerNames \ {"override"}
  /\ {"override", "flag", "env", "file"} \subseteq LayerNames \ {"default"}
  /\ {"override", "flag", "file"} \subseteq LayerNames \ {"env"}
  /\ {"override", "flag", "env"} \subseteq LayerNames \ {"file"}
  /\ "flagDefault" \in LayerNames \ {"default"}
  /\ \A l \in {"env", "file", "override"} : {"default", "flagDefault"} \subseteq LayerNames \ {l}
BY DEF LayerNames

\* What Get returns is what the user names, by the command line first.
LEMMA ConfigNamed ==
  ASSUME TypeOK, Filled, NoDefaultPath, pc = "loadConfigurationFromFile"
  PROVE  Get("config") = NamedFile /\ Found = FileCounts
<1>1. layers["override"]["config"] = Unset /\ layers["file"]["config"] = Unset
  BY DEF Filled, Nothing, Options
<1>2. layers["flag"] = args /\ layers["env"] = env
  BY DEF Filled
<1>3. ASSUME args["config"] = Unset, env["config"] = Unset PROVE Get("config") = NamedFile
  <2>1. layers["flag"]["config"] = Unset /\ layers["env"]["config"] = Unset
    BY <1>2, <1>3
  <2>2. layers["default"]["config"] = Unset /\ layers["flagDefault"]["config"] \in {Unset, ""}
    BY DEF NoDefaultPath
  <2>3. \A l \in LayerNames : layers[l]["config"] = Unset \/ layers[l]["config"] = ""
    BY <1>1, <2>1, <2>2 DEF LayerNames
  <2>4. GetFacts("config")
    BY GetIs
  <2>5. Get("config") = ""
    BY <2>3, <2>4 DEF GetFacts
  <2> QED
    BY <1>3, <2>5 DEF NamedFile
<1>4. Get("config") = NamedFile
  BY <1>1, <1>2, <1>3, GetInOrder DEF NamedFile
<1> QED
  BY <1>4 DEF Found, LookedFor, FileCounts

\* When the URL is repaired, it is the user's, if there is one.
LEMMA GivenFound ==
  ASSUME TypeOK, Filled, pc = "sanitizeSapControlUrl", GivenUrl # Unset
  PROVE  Get("sap_control_url") = GivenUrl
<1>1. layers["override"]["sap_control_url"] = Unset
  BY DEF Filled, Nothing, Options
<1>2. layers["flag"] = args /\ layers["env"] = env /\ layers["file"] = FileSays
  BY DEF Filled
<1> QED
  BY <1>1, <1>2, GetInOrder DEF GivenUrl

\* Validation changes the domain of a URL that it accepts, and nothing else of it.
LEMMA ValidatedUrl ==
  ASSUME TypeOK, IInv, validateSapControlUrl, pc' = "ready"
  PROVE  LET url == layers["override"]["sap_control_url"]
         IN /\ url \in URLs
            /\ Get("sap_control_url")' = url
               \/ Get("sap_control_url")' = [url EXCEPT !.domain = Get("host_domain")]
<1> DEFINE url == Get("sap_control_url")
           new == Settled(url)
<1>1. ~ Refuses(url) /\ SetIn("override", new)
  BY DEF validateSapControlUrl
<1>2. url = layers["override"]["sap_control_url"] /\ url \in URLs
  <2>1. url = layers["override"]["sap_control_url"]
    BY GetIs DEF GetFacts, IInv, Sanitized, validateSapControlUrl
  <2> QED
    BY <1>1, <2>1 DEF Refuses
<1>3. /\ "sap_control_url" \in DOMAIN new =>
           /\ new["sap_control_url"] = [url EXCEPT !.domain = Get("host_domain")]
           /\ new["sap_control_url"] \in URLs
  <2>1. SettlesAs(new, url)
    BY <1>1, <1>2, SettledAgrees DEF IInv, Sanitized, validateSapControlUrl
  <2> HIDE DEF new
  <2> QED
    BY <2>1 DEF SettlesAs
<1> HIDE DEF new
<1>4. layers'["override"]["sap_control_url"] =
        IF "sap_control_url" \in DOMAIN new THEN new["sap_control_url"]
        ELSE layers["override"]["sap_control_url"]
  <2> DEFINE values == [o \in Options |-> IF o \in DOMAIN new THEN new[o]
                                          ELSE layers["override"][o]]
  <2>1. layers' = [layers EXCEPT !["override"] = values]
    BY <1>1 DEF SetIn
  <2>2. layers'["override"] = values
    <3> HIDE DEF values
    <3> QED
      BY <2>1, OneLayer, LayersApart
  <2> QED
    BY <2>2 DEF Options
<1>5. layers'["override"]["sap_control_url"] \in URLs
  BY <1>2, <1>3, <1>4
<1>6. Get("sap_control_url")' = layers'["override"]["sap_control_url"]
  <2>1. layers'["override"]["sap_control_url"] # Unset
    BY <1>5, ConfigAssumption DEF ConfigAssumption
  <2> QED
    BY <2>1, GetIsNext DEF GetFacts
<1> QED
  BY <1>2, <1>3, <1>4, <1>6

\* The only step that gives an option a default path, or any, is BindPFlags.
LEMMA NoDefaultPathKept ==
  ASSUME TypeOK, NoDefaultPath, [Next]_vars
  PROVE  NoDefaultPath'
<1>1. CASE BindPFlags
  <2>1. layers' = [[layers EXCEPT !["flag"] = args] EXCEPT !["flagDefault"] = FlagDefaults]
    BY <1>1 DEF BindPFlags
  <2>2. DOMAIN layers = LayerNames
    <3> DEFINE L == [k \in LayerNames |-> [o \in Options |-> layers[k][o]]]
    <3>1. layers = L /\ DOMAIN L = LayerNames
      BY DEF TypeOK
    <3> QED
      BY <3>1
  <2>3. layers'["flagDefault"] = FlagDefaults /\ layers'["default"] = layers["default"]
    BY <2>1, <2>2 DEF LayerNames
  <2>4. FlagDefaults["config"] = ""
    BY DEF FlagDefaults, Says, Nothing, Options
  <2> QED
    BY <2>3, <2>4 DEF NoDefaultPath
<1>2. CASE setDefaults
  <2> DEFINE values == [o \in Options |-> IF o \in DOMAIN Defaults THEN Defaults[o]
                                          ELSE layers["default"][o]]
  <2>1. layers' = [layers EXCEPT !["default"] = values]
    BY <1>2 DEF setDefaults, SetIn
  <2>2. values["config"] = layers["default"]["config"]
    BY DEF Options, Defaults
  <2> HIDE DEF values
  <2>3. layers'["default"] = values /\ layers'["flagDefault"] = layers["flagDefault"]
    BY <2>1, OneLayer, LayersApart
  <2> QED
    BY <2>2, <2>3 DEF NoDefaultPath
<1>3. CASE UNCHANGED layers
  BY <1>3 DEF NoDefaultPath
<1>4. ASSUME NEW l \in {"env", "file", "override"}, NEW values,
             layers' = [layers EXCEPT ![l] = values]
      PROVE  NoDefaultPath'
  <2>1. \A k \in {"default", "flagDefault"} : layers'[k] = layers[k]
    <3>1. {"default", "flagDefault"} \subseteq LayerNames \ {l} /\ l \in LayerNames
      BY LayersApart
    <3> QED
      BY <1>4, <3>1, OneLayer
  <2> QED
    BY <2>1 DEF NoDefaultPath
<1>5. bindEnvVars \/ loadConfigurationFromFile => NoDefaultPath'
  BY <1>3, <1>4 DEF bindEnvVars, loadConfigurationFromFile
<1>6. sanitizeSapControlUrl \/ validateSapControlUrl => NoDefaultPath'
  BY <1>3, <1>4 DEF sanitizeSapControlUrl, validateSapControlUrl, SetIn
<1> QED
  BY <1>1, <1>2, <1>3, <1>5, <1>6 DEF Next, vars

LEMMA StepKept == IInv /\ KeptState /\ [Next]_vars => KeptState'
<1> SUFFICES ASSUME IInv, KeptState, [Next]_vars PROVE KeptState'
  OBVIOUS
<1>t. TypeOK /\ Filled /\ NoDefaultPath /\ FileRead /\ UrlKept
  BY DEF IInv, KeptState
<1>n. NoDefaultPath'
  BY <1>t, NoDefaultPathKept
<1>i. UNCHANGED inputs
  BY DEF Next, BindPFlags, setDefaults, bindEnvVars, loadConfigurationFromFile,
         sanitizeSapControlUrl, validateSapControlUrl, vars, inputs
<1>f. UNCHANGED <<NamedFile, FileCounts, FileSays>>
  BY <1>i DEF NamedFile, FileCounts, FileSays, inputs
<1>g. GivenUrl' = GivenUrl
  BY <1>i, <1>f DEF GivenUrl, inputs
<1>k. ASSUME pc' # "ready", Filled', FileRead', UrlKept' PROVE KeptState'
  BY <1>k, <1>n DEF KeptState, UserUrlKept
<1>1. CASE BindPFlags
  <2>1. layers' = [[layers EXCEPT !["flag"] = args] EXCEPT !["flagDefault"] = FlagDefaults]
    BY <1>1 DEF BindPFlags
  <2>2. DOMAIN layers = LayerNames
    <3> DEFINE L == [k \in LayerNames |-> [o \in Options |-> layers[k][o]]]
    <3>1. layers = L /\ DOMAIN L = LayerNames
      BY <1>t DEF TypeOK
    <3> QED
      BY <3>1
  <2>3. layers'["flag"] = args
        /\ \A k \in {"override", "env", "file"} : layers'[k] = layers[k]
    BY <2>1, <2>2, LayersApart
  <2> QED
    BY <1>1, <1>i, <1>f, <1>k, <1>t, <2>3 DEF BindPFlags, Filled, FileRead, UrlKept, inputs
<1>2. CASE setDefaults
  <2>1. \A k \in {"override", "flag", "env", "file"} : layers'[k] = layers[k]
    BY <1>2, <1>t, OneLayer, LayersApart DEF setDefaults, SetIn
  <2> QED
    BY <1>2, <1>i, <1>f, <1>k, <1>t, <2>1 DEF setDefaults, Filled, FileRead, UrlKept, inputs
<1>3. CASE bindEnvVars
  <2>1. layers'["env"] = env
        /\ \A k \in {"override", "flag", "file"} : layers'[k] = layers[k]
    BY <1>3, <1>t, OneLayer, LayersApart DEF bindEnvVars
  <2> QED
    BY <1>3, <1>i, <1>f, <1>k, <1>t, <2>1 DEF bindEnvVars, Filled, FileRead, UrlKept, inputs
<1>4. CASE loadConfigurationFromFile
  <2>0. Found = FileCounts /\ Get("config") = NamedFile /\ pc = "loadConfigurationFromFile"
    BY <1>4, <1>t, ConfigNamed DEF loadConfigurationFromFile
  <2>1. CASE Found /\ disk.readable /\ layers' = [layers EXCEPT !["file"] = disk.content]
             /\ pc' = "sanitizeSapControlUrl"
    <3>1. layers'["file"] = disk.content
          /\ \A k \in {"override", "flag", "env"} : layers'[k] = layers[k]
      BY <1>t, <2>1, OneLayer, LayersApart
    <3>2. FileSays = disk.content
      BY <2>0, <2>1 DEF FileSays
    <3> QED
      BY <1>i, <1>f, <1>k, <1>t, <2>0, <2>1, <3>1, <3>2 DEF Filled, FileRead, UrlKept, inputs
  <2>2. CASE MayGoWithout /\ pc' = "sanitizeSapControlUrl" /\ UNCHANGED layers
    <3>1. NamedFile = "" /\ ~ FileCounts /\ FileSays = Nothing
      BY <2>0, <2>2 DEF MayGoWithout, FileSays
    <3> QED
      BY <1>i, <1>f, <1>k, <1>t, <2>0, <2>2, <3>1 DEF Filled, FileRead, UrlKept, inputs
  <2>3. CASE pc' = "failed" /\ UNCHANGED layers
    BY <1>i, <1>f, <1>k, <1>t, <2>0, <2>3 DEF Filled, FileRead, UrlKept, inputs
  <2> QED
    BY <1>4, <2>1, <2>2, <2>3 DEF loadConfigurationFromFile
<1>5. CASE sanitizeSapControlUrl
  <2> DEFINE fixed == WithScheme(Get("sap_control_url"))
             values == [o \in Options |-> IF o \in DOMAIN [sap_control_url |-> fixed]
                                          THEN [sap_control_url |-> fixed][o]
                                          ELSE layers["override"][o]]
  <2>1. layers' = [layers EXCEPT !["override"] = values]
    BY <1>5 DEF sanitizeSapControlUrl, SetIn
  <2>2. values["sap_control_url"] = fixed
    BY DEF Options
  <2> HIDE DEF values
  <2>3. layers'["override"] = values
        /\ \A k \in {"flag", "env", "file"} : layers'[k] = layers[k]
    BY <1>t, <2>1, OneLayer, LayersApart
  <2>4. GivenUrl # Unset => layers'["override"]["sap_control_url"] = WithScheme(GivenUrl)
    BY <1>5, <1>t, <2>2, <2>3, GivenFound DEF sanitizeSapControlUrl
  <2> HIDE DEF fixed
  <2>5. pc = "sanitizeSapControlUrl" /\ pc' = "validateSapControlUrl"
    BY <1>5 DEF sanitizeSapControlUrl
  <2>6. UrlKept'
    BY <1>g, <2>4, <2>5 DEF UrlKept, WithScheme
  <2> QED
    BY <1>i, <1>f, <1>k, <1>t, <2>3, <2>5, <2>6 DEF Filled, FileRead, inputs
<1>6. CASE validateSapControlUrl
  <2>1. pc = "validateSapControlUrl" /\ pc' \in {"ready", "failed"}
    BY <1>6 DEF validateSapControlUrl
  <2>2. \A k \in {"flag", "env", "file"} : layers'[k] = layers[k]
    <3>1. CASE UNCHANGED layers
      BY <3>1
    <3>2. CASE SetIn("override", Settled(Get("sap_control_url")))
      BY <1>t, <3>2, OneLayer, LayersApart DEF SetIn
    <3> QED
      BY <1>6, <3>1, <3>2 DEF validateSapControlUrl
  <2>3. Filled' /\ FileRead' /\ UrlKept'
    BY <1>i, <1>f, <1>t, <2>1, <2>2 DEF Filled, FileRead, UrlKept, inputs
  <2>4. ASSUME pc' = "ready", GivenUrl # Unset
        PROVE  /\ GivenUrl \in URLs
               /\ Get("sap_control_url")'.host = GivenUrl.host
               /\ Get("sap_control_url")'.port = GivenUrl.port
    <3> DEFINE url == layers["override"]["sap_control_url"]
    <3>1. url = WithScheme(GivenUrl)
      BY <1>t, <2>1, <2>4 DEF UrlKept
    <3>2. /\ url \in URLs
          /\ \/ Get("sap_control_url")' = url
             \/ Get("sap_control_url")' = [url EXCEPT !.domain = Get("host_domain")]
      BY <1>6, <1>t, <2>4, ValidatedUrl
    <3>3. GivenUrl \in URLs /\ url.host = GivenUrl.host /\ url.port = GivenUrl.port
      BY <3>1, <3>2 DEF WithScheme, URLs
    <3>4. Get("sap_control_url")'.host = url.host /\ Get("sap_control_url")'.port = url.port
      BY <3>2 DEF URLs
    <3> QED
      BY <3>3, <3>4
  <2>5. UserUrlKept'
    BY <1>g, <2>4 DEF UserUrlKept
  <2> QED
    BY <1>n, <2>3, <2>5 DEF KeptState
<1>7. CASE UNCHANGED vars
  <2>1. Get("sap_control_url")' = Get("sap_control_url")
    BY <1>7, GetStable DEF vars
  <2>2. UNCHANGED <<pc, layers, args, env, disk, GivenUrl>>
    BY <1>7, <1>g DEF vars
  <2>3. UserUrlKept'
    BY <2>1, <2>2 DEF KeptState, UserUrlKept
  <2>4. Filled' /\ FileRead' /\ UrlKept'
    BY <1>t, <1>f, <2>2 DEF Filled, FileRead, UrlKept, WithScheme
  <2> QED
    BY <1>n, <2>3, <2>4 DEF KeptState
<1> QED
  BY <1>1, <1>2, <1>3, <1>4, <1>5, <1>6, <1>7 DEF Next

LEMMA KeptInvariant == Spec => []KeptState
BY InitKept, StepKept, Invariant, PTL DEF Spec

\* The host and the port of a URL that the user gave by some way are those of the
\* URL that the exporter asks.
THEOREM UserUrlStays == Spec => []UserUrlKept
<1>1. KeptState => UserUrlKept
  BY DEF KeptState
<1> QED
  BY <1>1, KeptInvariant, PTL

\* New returns only with what the file says that the user named, or that lies where the
\* loader searches, and with nothing of a file that lies elsewhere.
THEOREM FileHonoured == Spec => []FileNotIgnored
<1>1. KeptState => FileNotIgnored
  BY DEF KeptState, Filled, FileRead, FileNotIgnored
<1> QED
  BY <1>1, KeptInvariant, PTL
===============================================================================
