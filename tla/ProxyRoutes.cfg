SPECIFICATION FairSpec
CONSTANTS
  Servers = {"s1", "s2", "b"}
  Proxies = {"b"}
  Unknown = {"u"}
  Target = "s1"
  NoName = ""
  MaxRoute = 5
CHECK_DEADLOCK FALSE
INVARIANTS TypeOK RouteIsChain AuthReady TunnelIsRoute SshProxiesFound
PROPERTY RouteEnds
