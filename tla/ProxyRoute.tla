----------------------------- MODULE ProxyRoute -----------------------------
(***************************************************************************)
(* How bssh reaches a server behind proxies (ssh/connect.go, ssh/auth.go,  *)
(* ssh/run.go).  getProxyRoute follows the proxies from the target to the  *)
(* outermost one; createAuthMethodMapForServer collects the ways to log in *)
(* to every ssh server on the way, before anything is dialled; then        *)
(* CreateSSHConnect dials from the outermost hop inwards, each hop through *)
(* the ones before it.                                                     *)
(*                                                                         *)
(* The type "http" stands for http, https, socks and socks5, which the     *)
(* code treats alike.  A server and a proxy may have the same name.        *)
(***************************************************************************)
EXTENDS Integers, Sequences, FiniteSets, SequencesExt

CONSTANTS
  Servers,   \* names under [server.x]
  Proxies,   \* names under [proxy.x]
  Unknown,   \* names that are configured nowhere
  Target,    \* the server the user selected
  NoName,    \* no proxy
  MaxRoute   \* bound on the length of a route

Names == Servers \cup Proxies \cup Unknown

ASSUME RouteAssumption ==
  /\ Unknown \cap (Servers \cup Proxies) = {}
  /\ NoName \notin Names
  /\ Target \in Servers
  /\ MaxRoute \in Nat

VARIABLES
  server,      \* [server.x]: proxy, proxy_type and whether there is a proxy_cmd
  proxy,       \* [proxy.x]: proxy and proxy_type
  phase,       \* "route", "auth", "dial", or how it ended
  con,         \* conName and conType of getProxyRoute
  route,       \* proxyRoute
  todo,        \* hops whose auth methods are still to be collected, if they are ssh hops
  stack,       \* the calls of createAuthMethodMapForServer under way, innermost first
  returned,    \* whether the innermost call's own call has returned
  registered,  \* servers whose auth methods were collected
  hop,         \* how many hops of the route were dialled
  path         \* the hops dialer goes through

config == <<server, proxy>>
vars == <<config, phase, con, route, todo, stack, returned, registered, hop, path>>

Types == {"ssh", "http"}
Hop == [name : Names, type : Types \cup {"command"}]
Via == [proxy : Names, type : Types] \cup {[proxy |-> NoName, type |-> "ssh"]}
ServerConfig == {[proxy |-> v.proxy, type |-> v.type, command |-> c] : v \in Via, c \in BOOLEAN}
TargetHop == [name |-> Target, type |-> "ssh"]
EnvHop == [name |-> NoName, type |-> "env"]

-----------------------------------------------------------------------------
(* What getProxyRoute reads for the proxy of a connection: a name that is  *)
(* not configured has the zero value, which has no proxy.  A ProxyCommand  *)
(* is given priority.                                                      *)

None == [name |-> NoName, type |-> "ssh"]

ProxyOf(c) ==
  IF c.type = "http"
  THEN IF c.name \in Proxies THEN [name |-> proxy[c.name].proxy, type |-> proxy[c.name].type] ELSE None
  ELSE IF c.name \notin Servers THEN None
       ELSE IF server[c.name].command
            THEN [name |-> c.name, type |-> "command"]
            ELSE [name |-> server[c.name].proxy, type |-> server[c.name].type]

CommandOnly(c) == c.type = "command"  \* deviation: an empty name is a proxy
HopLimit(c) ==  \* deviation: a long route is cut off
  c.type = "command" \/ ProxyOf(c).name = NoName \/ Len(route) = MaxRoute
Outermost(c) == c.type = "command" \/ ProxyOf(c).name = NoName

Init ==
  /\ server \in [Servers -> ServerConfig]
  /\ proxy \in [Proxies -> Via]
  /\ phase = "route"
  /\ con = TargetHop
  /\ route = <<>>
  /\ todo = <<>>
  /\ stack = <<>>
  /\ returned = FALSE
  /\ registered = {}
  /\ hop = 0
  /\ path = <<>>

(* One turn of proxyLoop: one more hop, further out.  The route is built   *)
(* outwards and reversed at the end.                                       *)
AddInside(h) == route' = Append(route, h)  \* deviation: it is not reversed
AddHop(h) == route' = <<h>> \o route

StayThere(h) == con' = con  \* deviation: the same connection is looked up again
GoOn(h) == con' = h

RouteHop ==
  /\ phase = "route"
  /\ ~Outermost(con)
  /\ Len(route) < MaxRoute
  /\ AddHop(ProxyOf(con))
  /\ GoOn(ProxyOf(con))
  /\ UNCHANGED <<config, phase, todo, stack, returned, registered, hop, path>>

(* The turn that leaves it.  getSSHServers then lists the target and the   *)
(* ssh hops; GetUniqueSlice finds none of them twice (NoHopTwice).         *)
RouteDone ==
  /\ phase = "route"
  /\ Outermost(con)
  /\ phase' = "auth"
  /\ todo' = <<TargetHop>> \o route
  /\ UNCHANGED <<config, con, route, stack, returned, registered, hop, path>>

-----------------------------------------------------------------------------
(* createAuthMethodMapForServer: the proxy's methods, then the server's. *)

AuthStart ==
  /\ phase = "auth"
  /\ stack = <<>>
  /\ todo # <<>>
  /\ stack' = IF Head(todo).type = "ssh" THEN <<Head(todo).name>> ELSE <<>>
  /\ todo' = Tail(todo)
  /\ returned' = FALSE
  /\ UNCHANGED <<config, phase, con, route, registered, hop, path>>

(* The proxy whose methods come first.  A name of the route that is not    *)
(* configured has the zero value.                                          *)
AuthProxy(s) == IF s \in Servers THEN server[s].proxy ELSE NoName

(* Where findServer looks a name up. *)
KnownProxies == Proxies  \* deviation: among the proxies
Known == Servers

(* findServer ends the program for a name that is not a server. *)
FindServerFails ==
  /\ phase = "auth"
  /\ stack # <<>>
  /\ ~returned
  /\ AuthProxy(Head(stack)) \notin Known \cup {NoName}
  /\ phase' = "fatal"
  /\ UNCHANGED <<config, con, route, todo, stack, returned, registered, hop, path>>

(* The recursive call; it never ends when a server is its own proxy. *)
AuthRecurse ==
  /\ phase = "auth"
  /\ stack # <<>>
  /\ ~returned
  /\ AuthProxy(Head(stack)) \in Known
  /\ IF AuthProxy(Head(stack)) \in ToSet(stack)
     THEN phase' = "overflow" /\ UNCHANGED stack
     ELSE stack' = <<AuthProxy(Head(stack))>> \o stack /\ UNCHANGED phase
  /\ UNCHANGED <<config, con, route, todo, returned, registered, hop, path>>

AuthRegister ==
  /\ phase = "auth"
  /\ stack # <<>>
  /\ returned \/ AuthProxy(Head(stack)) = NoName
  /\ registered' = registered \cup {Head(stack)}
  /\ stack' = Tail(stack)
  /\ returned' = TRUE
  /\ UNCHANGED <<config, phase, con, route, todo, hop, path>>

Always == stack = <<>>  \* deviation: the servers that are left are not waited for
AllRegistered == stack = <<>> /\ todo = <<>>

(* The dialer that the first hop, or the target, is reached with: direct,  *)
(* or for an empty route one from PROXY, https_proxy or http_proxy.  The   *)
(* variable may be unset, name a proxy, or not be a URL.                   *)
AuthDone(env) ==
  /\ phase = "auth"
  /\ AllRegistered
  /\ phase' = IF route = <<>> /\ env = "bad" THEN "failed" ELSE "dial"
  /\ path' = IF route = <<>> /\ env = "proxy" THEN <<EnvHop>> ELSE <<>>
  /\ UNCHANGED <<config, con, route, todo, stack, returned, registered, hop>>

-----------------------------------------------------------------------------
(* CreateSSHConnect: the hops of the route in turn, then the target. *)

NextHop == route[hop + 1]

(* A dialer over an http or a socks proxy, or over a command: only the     *)
(* latter does not go through the hops before it.                          *)
Replace(h) == <<h>>  \* deviation: no dialer goes through the hops before it
Over(h) == IF h.type = "command" THEN <<h>> ELSE Append(path, h)

DialProxy ==
  /\ phase = "dial"
  /\ hop < Len(route)
  /\ NextHop.type # "ssh"
  /\ path' = Over(NextHop)
  /\ hop' = hop + 1
  /\ UNCHANGED <<config, phase, con, route, todo, stack, returned, registered>>

(* A client on an ssh hop, if it is a server and lets us in. *)
DialServer(ok) ==
  /\ phase = "dial"
  /\ hop < Len(route)
  /\ NextHop.type = "ssh"
  /\ IF NextHop.name \notin Servers
     THEN phase' = "fatal" /\ UNCHANGED <<hop, path>>
     ELSE IF ok
          THEN path' = Append(path, NextHop) /\ hop' = hop + 1 /\ UNCHANGED phase
          ELSE phase' = "failed" /\ UNCHANGED <<hop, path>>
  /\ UNCHANGED <<config, con, route, todo, stack, returned, registered>>

DialTarget(ok) ==
  /\ phase = "dial"
  /\ hop = Len(route)
  /\ phase' = IF ok THEN "connected" ELSE "failed"
  /\ UNCHANGED <<config, con, route, todo, stack, returned, registered, hop, path>>

Next ==
  \/ RouteHop
  \/ RouteDone
  \/ AuthStart
  \/ FindServerFails
  \/ AuthRecurse
  \/ AuthRegister
  \/ \E env \in {"unset", "proxy", "bad"} : AuthDone(env)
  \/ DialProxy
  \/ \E ok \in BOOLEAN : DialServer(ok) \/ DialTarget(ok)

(* The program runs on. *)
Spec == Init /\ [][Next]_vars
FairSpec == Spec /\ WF_vars(Next)

-----------------------------------------------------------------------------
(* Every variable holds a value of its kind. *)
TypeOK ==
  /\ server \in [Servers -> ServerConfig] /\ proxy \in [Proxies -> Via]
  /\ phase \in {"route", "auth", "dial", "fatal", "overflow", "failed", "connected"}
  /\ con \in Hop
  /\ route \in Seq(Hop) /\ Len(route) <= MaxRoute
  /\ todo \in Seq(Hop)
  /\ stack \in Seq(Names)
  /\ returned \in BOOLEAN
  /\ registered \subseteq Names
  /\ hop \in 0..Len(route)
  /\ path \in Seq(Hop \cup {EnvHop})

(* No set of servers and proxies has its proxies among themselves. *)
Configured == [name : Servers, type : {"ssh"}] \cup [name : Proxies, type : {"http"}]
Acyclic == \A S \in SUBSET Configured \ {{}} : \E c \in S : ProxyOf(c) \notin S

(* The route goes from a hop that needs no proxy to the target, each hop   *)
(* the configured proxy (or the proxy command) of the next one.            *)
RouteIsChain ==
  phase # "route" =>
    LET hops == Append(route, TargetHop)
    IN  /\ Outermost(hops[1])
        /\ \A i \in 1..Len(route) : ProxyOf(hops[i + 1]) = hops[i]

(* A route that getProxyRoute returns goes through no hop twice, and not   *)
(* through the target: a cycle in the configuration is never cut somewhere.*)
NoHopTwice ==
  phase # "route" =>
    LET hops == Append(route, TargetHop)
    IN  \A i, j \in DOMAIN hops : i # j => hops[i] # hops[j]

(* Nothing is dialled before the auth methods of the target and of every   *)
(* ssh hop were collected: the recursion of createAuthMethodMapForServer   *)
(* knows no ProxyCommand and no proxy type, the route does.                *)
AuthReady ==
  phase = "dial" =>
    /\ Target \in registered
    /\ \A i \in DOMAIN route : route[i].type = "ssh" => route[i].name \in registered

(* A connection goes through every hop of the route, in order: a dialer    *)
(* over a command, which drops the hops before it, is never an inner one.  *)
TunnelIsRoute == phase = "connected" /\ route # <<>> => path = route

(* With ssh proxies that are all configured, the program does not end in   *)
(* findServer.                                                             *)
SshProxiesFound ==
  (\A s \in Servers : server[s].type = "ssh" /\ server[s].proxy \in Servers \cup {NoName})
    => phase # "fatal"

(* Without a cycle in the configuration getProxyRoute returns. *)
RouteEnds == (phase = "route" /\ Acyclic) ~> (phase # "route")

(* A configuration like the ones of README.md and doc/Config.md (ssh       *)
(* proxies are servers; http and socks5 ones are proxies, and the first    *)
(* hop) does not end in findServer.                                        *)
DocumentedProxiesFound ==
  (/\ \A s \in Servers : server[s].proxy \in {NoName} \cup (IF server[s].type = "ssh" THEN Servers ELSE Proxies)
   /\ \A p \in Proxies : proxy[p].proxy = NoName)
    => phase # "fatal"
=============================================================================
