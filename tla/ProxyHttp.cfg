SPECIFICATION Spec
CONSTANTS
  Servers = {"s1", "s2", "s3"}
  Proxies = {"p1"}
  Unknown = {"u"}
  Target = "s1"
  NoName = ""
  MaxRoute = 5
CHECK_DEADLOCK FALSE
INVARIANT DocumentedProxiesFound
