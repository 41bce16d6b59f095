SPECIFICATION Spec
CONSTANTS
  Domains = {"", "dom.url", "dom.opt", "not a domain"}
  BadDomains = {"not a domain"}
  Hosts = {"localhost", "ci", "app"}
  Ports = {"50013", "50014", "50114"}
  Paths = {"", "exporter.yaml"}
  Places = {"exporter.yaml", "/etc/sap_system_exporter", "/etc/sap_host_exporter"}
  UserUrls <- MCUserUrls
  Unset = Unset
  Garbage = Garbage
\* New returns.
CHECK_DEADLOCK FALSE
INVARIANTS UrlAgrees UserUrlKept FileNotIgnored
