----------------------------- MODULE ProxyProofs -----------------------------
(***************************************************************************)
(* Proofs about ProxyRoute, for every configuration of every set of        *)
(* servers and proxies.                                                    *)
(***************************************************************************)
EXTENDS ProxyRoute, SequenceTheorems, WellFoundedInduction, TLAPS

Hops == Append(route, TargetHop)

(* The route so far is a chain from con to the target, and no hop but the  *)
(* outermost ends it.                                                      *)
ChainInv ==
  /\ con = Hops[1]
  /\ \A i \in 1..Len(route) : ProxyOf(Hops[i + 1]) = Hops[i] /\ ~Outermost(Hops[i + 1])
  /\ phase # "route" => Outermost(con)

(* What getProxyRoute reads is a hop, unless it has no name. *)
LEMMA ProxyIsHop ==
  ASSUME TypeOK, NEW c \in Hop
  PROVE  ProxyOf(c).name # NoName => ProxyOf(c) \in Hop
  BY DEF TypeOK, ProxyOf, Hop, None, ServerConfig, Via, Names, Types

(* A hop in front of a sequence. *)
LEMMA Front1 ==
  ASSUME NEW S, NEW h \in S, NEW r \in Seq(S), NEW t \in S
  PROVE  /\ <<h>> \o r \in Seq(S)
         /\ Len(<<h>> \o r) = Len(r) + 1
         /\ Append(<<h>> \o r, t)[1] = h
         /\ \A i \in 1..(Len(r) + 1) : Append(<<h>> \o r, t)[i + 1] = Append(r, t)[i]
  OBVIOUS

LEMMA HeadTail ==
  ASSUME NEW S, NEW s \in Seq(S), s # <<>>
  PROVE  Head(s) \in S /\ Tail(s) \in Seq(S)
  OBVIOUS

LEMMA AppendWider ==
  ASSUME NEW S, NEW T, NEW s \in Seq(S \cup T), NEW x \in S
  PROVE  Append(s, x) \in Seq(S \cup T) /\ <<x>> \in Seq(S \cup T)
  OBVIOUS

LEMMA TargetIsHop == TargetHop \in Hop
  BY RouteAssumption DEF TargetHop, Hop, Names, Types

(* Every step keeps the types. *)
LEMMA TypeStep ==
  ASSUME TypeOK, [Next]_vars
  PROVE  TypeOK'
<1>1. CASE RouteHop
  <2>1. ProxyOf(con) \in Hop
    BY <1>1, ProxyIsHop DEF RouteHop, Outermost, TypeOK
  <2>2. route' \in Seq(Hop) /\ Len(route') = Len(route) + 1
    BY <1>1, <2>1, Front1, TargetIsHop DEF RouteHop, AddHop, TypeOK
  <2>3. hop' \in 0..Len(route')
    BY <1>1, <2>2 DEF RouteHop, TypeOK
  <2> QED
    BY <1>1, <2>1, <2>2, <2>3, RouteAssumption DEF RouteHop, GoOn, TypeOK, config
<1>2. CASE RouteDone
  <2>1. <<TargetHop>> \o route \in Seq(Hop)
    BY Front1, TargetIsHop DEF TypeOK
  <2> QED
    BY <1>2, <2>1 DEF RouteDone, TypeOK, config
<1>3. CASE AuthStart
  <2>1. Head(todo) \in Hop /\ Tail(todo) \in Seq(Hop)
    BY <1>3, HeadTail DEF AuthStart, TypeOK
  <2>2. Head(todo).name \in Names
    BY <2>1 DEF Hop
  <2>3. stack' \in Seq(Names)
    BY <1>3, <2>2 DEF AuthStart
  <2> QED
    BY <1>3, <2>1, <2>3 DEF AuthStart, TypeOK, config
<1>4. CASE FindServerFails
  BY <1>4 DEF FindServerFails, TypeOK, config
<1>5. CASE AuthRecurse
  <2>1. AuthProxy(Head(stack)) \in Names
    BY <1>5 DEF AuthRecurse, Known, Names
  <2>2. <<AuthProxy(Head(stack))>> \o stack \in Seq(Names)
    BY <2>1 DEF TypeOK
  <2> QED
    BY <1>5, <2>2 DEF AuthRecurse, TypeOK, config
<1>6. CASE AuthRegister
  BY <1>6 DEF AuthRegister, TypeOK, config
<1>7. CASE \E env \in {"unset", "proxy", "bad"} : AuthDone(env)
  <2>1. path' \in Seq(Hop \cup {EnvHop})
    <3>1. path' \in {<<>>, <<EnvHop>>}
      BY <1>7 DEF AuthDone
    <3>2. <<EnvHop>> \in Seq(Hop \cup {EnvHop})
      OBVIOUS
    <3>3. <<>> \in Seq(Hop \cup {EnvHop})
      OBVIOUS
    <3> QED
      BY <3>1, <3>2, <3>3
  <2>2. phase' \in {"failed", "dial"}
    BY <1>7 DEF AuthDone
  <2> QED
    BY <1>7, <2>1, <2>2 DEF AuthDone, TypeOK, config
<1>8. CASE DialProxy
  <2>1. NextHop \in Hop
    BY <1>8 DEF DialProxy, NextHop, TypeOK
  <2>2. Over(NextHop) \in Seq(Hop \cup {EnvHop})
    BY <2>1, AppendWider DEF Over, TypeOK
  <2> QED
    BY <1>8, <2>2 DEF DialProxy, TypeOK, config
<1>9. CASE \E ok \in BOOLEAN : DialServer(ok)
  <2>1. NextHop \in Hop
    BY <1>9 DEF DialServer, NextHop, TypeOK
  <2>2. Append(path, NextHop) \in Seq(Hop \cup {EnvHop})
    BY <2>1, AppendWider DEF TypeOK
  <2>3. hop + 1 \in 0..Len(route) /\ hop \in 0..Len(route)
    BY <1>9 DEF DialServer, TypeOK
  <2>4. hop' \in 0..Len(route) /\ path' \in Seq(Hop \cup {EnvHop})
    BY <1>9, <2>2, <2>3 DEF DialServer, TypeOK
  <2>5. phase' \in {"fatal", "failed", "dial"}
    BY <1>9 DEF DialServer
  <2> QED
    BY <1>9, <2>4, <2>5 DEF DialServer, TypeOK, config
<1>10. CASE \E ok \in BOOLEAN : DialTarget(ok)
  BY <1>10 DEF DialTarget, TypeOK, config
<1>11. CASE UNCHANGED vars
  BY <1>11 DEF vars, TypeOK, config
<1> QED
  BY <1>1, <1>2, <1>3, <1>4, <1>5, <1>6, <1>7, <1>8, <1>9, <1>10, <1>11 DEF Next

LEMMA TypeInit == Init => TypeOK
<1> SUFFICES ASSUME Init PROVE TypeOK
  OBVIOUS
<1>1. con \in Hop
  BY TargetIsHop DEF Init
<1>2. route = <<>> /\ todo = <<>> /\ stack = <<>> /\ path = <<>> /\ hop = 0 /\ Len(route) = 0
  BY DEF Init
<1>3. route \in Seq(Hop) /\ todo \in Seq(Hop) /\ stack \in Seq(Names) /\ path \in Seq(Hop \cup {EnvHop})
  BY <1>2
<1>4. hop \in 0..Len(route) /\ Len(route) <= MaxRoute
  BY <1>2, RouteAssumption
<1>5. returned \in BOOLEAN /\ registered \subseteq Names
  BY DEF Init
<1>6. server \in [Servers -> ServerConfig] /\ proxy \in [Proxies -> Via] /\ phase = "route"
  BY DEF Init
<1> QED
  BY <1>1, <1>3, <1>4, <1>5, <1>6 DEF TypeOK

(* The type invariant of the connection set-up (getProxyRoute,             *)
(* createAuthMethodMapForServer, CreateSSHConnect).                        *)
THEOREM TypeCorrect == Spec => []TypeOK
  BY TypeInit, TypeStep, PTL DEF Spec

-----------------------------------------------------------------------------
(* The steps after getProxyRoute returned, and the ones that do nothing,   *)
(* leave the configuration, the route and con alone.                       *)
LEMMA RouteKept ==
  ASSUME [Next]_vars, ~RouteHop
  PROVE  /\ server' = server /\ proxy' = proxy /\ route' = route /\ con' = con
         /\ RouteDone \/ ((phase = "route") = (phase' = "route"))
<1>1. CASE RouteDone
  BY <1>1 DEF RouteDone, config
<1>2. CASE AuthStart \/ FindServerFails \/ AuthRecurse \/ AuthRegister
  BY <1>2 DEF AuthStart, FindServerFails, AuthRecurse, AuthRegister, config
<1>3. CASE \E env \in {"unset", "proxy", "bad"} : AuthDone(env)
  BY <1>3 DEF AuthDone, config
<1>4. CASE DialProxy
  BY <1>4 DEF DialProxy, config
<1>5. CASE \E ok \in BOOLEAN : DialServer(ok)
  BY <1>5 DEF DialServer, config
<1>6. CASE \E ok \in BOOLEAN : DialTarget(ok)
  BY <1>6 DEF DialTarget, config
<1>7. CASE UNCHANGED vars
  BY <1>7 DEF vars, config
<1> QED
  BY <1>1, <1>2, <1>3, <1>4, <1>5, <1>6, <1>7 DEF Next

LEMMA ChainInit == Init => ChainInv
  BY DEF Init, ChainInv, Hops

LEMMA ChainStep ==
  ASSUME TypeOK, ChainInv, [Next]_vars
  PROVE  ChainInv'
<1>1. CASE RouteHop
  <2> DEFINE h == ProxyOf(con)
  <2>1. h \in Hop /\ ~Outermost(con) /\ phase = "route" /\ phase' = phase
    BY <1>1, ProxyIsHop DEF RouteHop, Outermost, TypeOK
  <2>2. server' = server /\ proxy' = proxy /\ route' = <<h>> \o route /\ con' = h
    BY <1>1 DEF RouteHop, AddHop, GoOn, config
  <2>3. /\ Len(route') = Len(route) + 1
        /\ Hops'[1] = h
        /\ \A i \in 1..(Len(route) + 1) : Hops'[i + 1] = Hops[i]
    BY <2>1, <2>2, Front1, TargetIsHop DEF Hops, TypeOK, TargetHop
  <2>4. \A c : ProxyOf(c)' = ProxyOf(c) /\ Outermost(c)' = Outermost(c)
    BY <2>2 DEF ProxyOf, Outermost
  <2>5. ASSUME NEW i \in 1..Len(route')
        PROVE  ProxyOf(Hops'[i + 1]) = Hops'[i] /\ ~Outermost(Hops'[i + 1])
    <3>1. CASE i = 1
      BY <3>1, <2>1, <2>3, <2>5 DEF ChainInv, TypeOK
    <3>2. CASE i # 1
      <4>1. i - 1 \in 1..Len(route) /\ i \in 1..(Len(route) + 1) /\ (i - 1) + 1 = i
        BY <3>2, <2>3 DEF TypeOK
      <4>2. Hops'[i + 1] = Hops[i] /\ Hops'[i] = Hops[i - 1]
        BY <4>1, <2>3
      <4>3. ProxyOf(Hops[i]) = Hops[i - 1] /\ ~Outermost(Hops[i])
        BY <4>1 DEF ChainInv
      <4> QED
        BY <4>2, <4>3
    <3> QED
      BY <3>1, <3>2
  <2> QED
    BY <2>1, <2>2, <2>3, <2>5 DEF ChainInv, ProxyOf, Outermost
<1>2. CASE ~RouteHop
  <2>1. RouteDone => Outermost(con)
    BY DEF RouteDone
  <2> QED
    BY <1>2, <2>1, RouteKept DEF ChainInv, Hops, ProxyOf, Outermost
<1> QED
  BY <1>1, <1>2

(* The route that getProxyRoute returns is the chain of proxies from the   *)
(* target to one that needs no proxy, whatever the configuration.          *)
THEOREM RouteCorrect == Spec => []RouteIsChain
<1>1. TypeOK /\ ChainInv => RouteIsChain
  BY DEF ChainInv, RouteIsChain, Hops
<1> QED
  BY <1>1, TypeInit, TypeStep, ChainInit, ChainStep, PTL DEF Spec

(* A set of numbers has a least one. *)
LEMMA LeastElement ==
  ASSUME NEW T, T \subseteq Nat, T # {}
  PROVE  \E x \in T : \A y \in T : x <= y
<1> DEFINE R == OpToRel(<, Nat)
<1>1. IsWellFoundedOn(R, Nat)
  BY NatLessThanWellFounded, Zenon
<1>2. \A a, b \in Nat : a < b => <<a, b>> \in R
  BY DEF OpToRel
<1> HIDE DEF R
<1>3. PICK x \in T : \A y \in T : ~(<<y, x>> \in R)
  BY <1>1, WFMin
<1>4. \A y \in T : ~(y < x)
  BY <1>2, <1>3, Zenon
<1>5. \A y \in T : x <= y
  BY <1>4
<1> QED
  BY <1>5

(* A chain that ends only at its front has no hop twice: the proxies of    *)
(* two equal hops are equal, back to the front, which has none.            *)
LEMMA ChainIsSimple ==
  ASSUME TypeOK, ChainInv, phase # "route"
  PROVE  \A i, j \in DOMAIN Hops : i # j => Hops[i] # Hops[j]
<1> DEFINE Again(i) == \E j \in DOMAIN Hops : i < j /\ Hops[i] = Hops[j]
           T == {i \in DOMAIN Hops : Again(i)}
<1>1. DOMAIN Hops = 1..(Len(route) + 1) /\ Len(route) \in Nat
  BY TargetIsHop DEF TypeOK, Hops
<1>2. \A k \in DOMAIN Hops : k # 1 => ProxyOf(Hops[k]) = Hops[k - 1] /\ ~Outermost(Hops[k])
  <2> SUFFICES ASSUME NEW k \in DOMAIN Hops, k # 1
               PROVE  ProxyOf(Hops[k]) = Hops[k - 1] /\ ~Outermost(Hops[k])
    OBVIOUS
  <2>1. k - 1 \in 1..Len(route) /\ (k - 1) + 1 = k
    BY <1>1
  <2> QED
    BY <2>1 DEF ChainInv
<1>3. Outermost(Hops[1])
  BY DEF ChainInv
<1>4. T = {}
  <2> SUFFICES ASSUME T # {}
               PROVE  FALSE
    OBVIOUS
  <2>1. T \subseteq Nat
    BY <1>1
  <2>2. PICK i \in T : \A y \in T : i <= y
    BY <2>1, LeastElement
  <2>3. PICK j \in DOMAIN Hops : i < j /\ Hops[i] = Hops[j]
    BY <2>2
  <2>4. i # 1
    BY <1>1, <1>2, <1>3, <2>2, <2>3
  <2>5. Hops[i - 1] = Hops[j - 1]
    BY <1>1, <1>2, <2>2, <2>3, <2>4
  <2>6. i - 1 \in T
    BY <1>1, <2>2, <2>3, <2>4, <2>5
  <2> QED
    BY <1>1, <2>2, <2>6
<1>5. ASSUME NEW i \in DOMAIN Hops, NEW j \in DOMAIN Hops, i # j, Hops[i] = Hops[j]
      PROVE  FALSE
  <2>1. CASE i < j
    BY <1>4, <1>5, <2>1
  <2>2. CASE j < i
    BY <1>4, <1>5, <2>2
  <2> QED
    BY <1>1, <1>5, <2>1, <2>2
<1> QED
  BY <1>5

(* The route goes through no hop twice: getSSHServers need not look for    *)
(* servers that are listed twice, and a cycle is never cut off.            *)
THEOREM NoHopRepeated == Spec => []NoHopTwice
<1>1. TypeOK /\ TypeOK' /\ ChainInv /\ [Next]_vars => ChainInv'
  BY ChainStep
<1>2. TypeOK /\ ChainInv => NoHopTwice
  BY ChainIsSimple DEF NoHopTwice, Hops
<1> QED
  BY <1>1, <1>2, ChainInit, TypeCorrect, PTL DEF Spec

-----------------------------------------------------------------------------
(* The dialer goes through the hops that were dialled so far. *)
Dialled(p, n) == Len(p) = n /\ \A i \in 1..n : p[i] = route[i]

PathInv ==
  /\ phase \in {"route", "auth"} => hop = 0
  /\ phase \in {"dial", "connected"} /\ route # <<>> => Dialled(path, hop)
  /\ phase = "connected" => hop = Len(route)

LEMMA Longer ==
  ASSUME NEW S, NEW p \in Seq(S), NEW n \in Nat, Dialled(p, n)
  PROVE  Dialled(Append(p, route[n + 1]), n + 1)
  BY DEF Dialled

(* Only the outermost hop is a command: the others are no Outermost. *)
LEMMA CommandIsFirst ==
  ASSUME TypeOK, ChainInv, NEW i \in 1..Len(route), route[i].type = "command"
  PROVE  i = 1
<1>1. SUFFICES ASSUME i # 1 PROVE FALSE
  OBVIOUS
<1>2. i - 1 \in 1..Len(route) /\ (i - 1) + 1 = i
  BY <1>1 DEF TypeOK
<1>3. ~Outermost(Hops[i])
  BY <1>2 DEF ChainInv
<1>4. Hops[i] = route[i]
  BY DEF Hops, TypeOK
<1> QED
  BY <1>3, <1>4 DEF Outermost

LEMMA PathStep ==
  ASSUME TypeOK, ChainInv, PathInv, [Next]_vars
  PROVE  PathInv'
<1>1. CASE RouteHop
  BY <1>1 DEF RouteHop, PathInv
<1>2. CASE RouteDone \/ AuthStart \/ FindServerFails \/ AuthRecurse \/ AuthRegister
  BY <1>2 DEF RouteDone, AuthStart, FindServerFails, AuthRecurse, AuthRegister, PathInv
<1>3. CASE \E env \in {"unset", "proxy", "bad"} : AuthDone(env)
  <2>1. hop' = 0 /\ phase' \in {"failed", "dial"} /\ route' = route
    BY <1>3 DEF AuthDone, PathInv
  <2>2. route # <<>> => path' = <<>>
    BY <1>3 DEF AuthDone
  <2>3. Dialled(<<>>, 0)
    BY DEF Dialled
  <2> QED
    BY <2>1, <2>2, <2>3 DEF PathInv, Dialled
<1>4. CASE DialProxy
  <2>1. hop \in 0..Len(route) /\ hop < Len(route) /\ route \in Seq(Hop) /\ route # <<>>
    BY <1>4 DEF DialProxy, TypeOK
  <2>2. Dialled(path, hop) /\ hop' = hop + 1 /\ route' = route /\ phase' = "dial"
    BY <1>4, <2>1 DEF DialProxy, PathInv
  <2>3. Dialled(path', hop + 1)
    <3>1. CASE NextHop.type = "command"
      <4>1. hop + 1 = 1
        BY <3>1, <2>1, CommandIsFirst DEF NextHop
      <4> QED
        BY <1>4, <3>1, <4>1 DEF DialProxy, Over, NextHop, Dialled
    <3>2. CASE NextHop.type # "command"
      <4>1. path' = Append(path, route[hop + 1])
        BY <1>4, <3>2 DEF DialProxy, Over, NextHop
      <4> QED
        BY <4>1, <2>1, <2>2, Longer DEF TypeOK
    <3> QED
      BY <3>1, <3>2
  <2> QED
    BY <2>2, <2>3 DEF PathInv, Dialled
<1>5. CASE \E ok \in BOOLEAN : DialServer(ok)
  <2>1. hop \in 0..Len(route) /\ hop < Len(route) /\ route \in Seq(Hop) /\ route # <<>>
    BY <1>5 DEF DialServer, TypeOK
  <2>2. Dialled(path, hop) /\ route' = route /\ phase' \in {"dial", "failed", "fatal"}
    BY <1>5, <2>1 DEF DialServer, PathInv
  <2>3. phase' = "dial" => hop' = hop + 1 /\ path' = Append(path, route[hop + 1])
    BY <1>5 DEF DialServer, NextHop
  <2>4. phase' = "dial" => Dialled(path', hop')
    <3>1. Dialled(Append(path, route[hop + 1]), hop + 1)
      BY <2>1, <2>2, Longer DEF TypeOK
    <3> QED
      BY <3>1, <2>3
  <2> QED
    BY <2>2, <2>4 DEF PathInv, Dialled
<1>6. CASE \E ok \in BOOLEAN : DialTarget(ok)
  BY <1>6 DEF DialTarget, PathInv, Dialled
<1>7. CASE UNCHANGED vars
  BY <1>7 DEF vars, PathInv, Dialled
<1> QED
  BY <1>1, <1>2, <1>3, <1>4, <1>5, <1>6, <1>7 DEF Next

LEMMA PathInit == Init => PathInv
  BY DEF Init, PathInv

(* A connection goes through every hop of the route, in order, whatever    *)
(* the mixture of ssh, http and command hops: CreateSSHConnect builds the  *)
(* dialer of a command without the one before it, which is safe because a  *)
(* command is always the outermost hop.                                    *)
THEOREM TunnelCorrect == Spec => []TunnelIsRoute
<1>1. TypeOK /\ PathInv => TunnelIsRoute
  <2> SUFFICES ASSUME TypeOK, PathInv, phase = "connected", route # <<>>
               PROVE  path = route
    BY DEF TunnelIsRoute
  <2>1. Len(path) = Len(route) /\ \A i \in 1..Len(path) : path[i] = route[i]
    BY DEF PathInv, Dialled
  <2>2. path \in Seq(Hop \cup {EnvHop}) /\ route \in Seq(Hop \cup {EnvHop})
    BY DEF TypeOK
  <2> QED
    BY <2>1, <2>2, SeqEqual
<1> QED
  BY <1>1, TypeInit, TypeStep, ChainInit, ChainStep, PathInit, PathStep, PTL DEF Spec

-----------------------------------------------------------------------------
(* The auth methods of the target and of every ssh hop were collected, are *)
(* being collected, or will be.                                            *)
Waiting(n) ==
  \/ n \in registered
  \/ \E i \in DOMAIN stack : stack[i] = n
  \/ \E i \in DOMAIN todo : todo[i] = [name |-> n, type |-> "ssh"]

AuthInv ==
  /\ phase = "auth" =>
       /\ Waiting(Target)
       /\ \A i \in DOMAIN route : route[i].type = "ssh" => Waiting(route[i].name)
  /\ AuthReady

(* A step of createAuthMethodMapForServer loses no name. *)
LEMMA WaitingKept ==
  ASSUME TypeOK, NEW n, Waiting(n), AuthStart \/ AuthRecurse \/ AuthRegister
  PROVE  Waiting(n)'
<1>1. CASE n \in registered
  BY <1>1 DEF AuthStart, AuthRecurse, AuthRegister, Waiting
<1>2. ASSUME NEW i \in DOMAIN stack, stack[i] = n
      PROVE  Waiting(n)'
  <2>1. CASE AuthStart
    BY <2>1, <1>2 DEF AuthStart
  <2>2. CASE AuthRecurse
    <3>1. stack' = stack \/ stack' = <<AuthProxy(Head(stack))>> \o stack
      BY <2>2 DEF AuthRecurse
    <3>2. stack \in Seq(Names)
      BY DEF TypeOK
    <3>3. \/ i \in DOMAIN stack' /\ stack'[i] = n
          \/ i + 1 \in DOMAIN stack' /\ stack'[i + 1] = n
      BY <3>1, <3>2, <1>2
    <3> QED
      BY <3>3 DEF Waiting
  <2>3. CASE AuthRegister
    <3>1. stack \in Seq(Names) /\ i \in 1..Len(stack)
      BY DEF TypeOK
    <3>2. CASE i = 1
      BY <3>2, <1>2, <2>3, <3>1 DEF AuthRegister, Waiting
    <3>3. CASE i # 1
      <4>1. i - 1 \in DOMAIN Tail(stack) /\ Tail(stack)[i - 1] = n
        BY <3>1, <3>3, <1>2
      <4> QED
        BY <4>1, <2>3 DEF AuthRegister, Waiting
    <3> QED
      BY <3>2, <3>3
  <2> QED
    BY <2>1, <2>2, <2>3
<1>3. ASSUME NEW i \in DOMAIN todo, todo[i] = [name |-> n, type |-> "ssh"]
      PROVE  Waiting(n)'
  <2>1. CASE AuthStart
    <3>1. todo \in Seq(Hop) /\ i \in 1..Len(todo)
      BY DEF TypeOK
    <3>2. CASE i = 1
      <4>1. stack' = <<n>>
        BY <3>1, <3>2, <1>3, <2>1 DEF AuthStart
      <4> QED
        BY <4>1 DEF Waiting
    <3>3. CASE i # 1
      <4>1. i - 1 \in DOMAIN Tail(todo) /\ Tail(todo)[i - 1] = todo[i]
        BY <3>1, <3>3
      <4> QED
        BY <4>1, <1>3, <2>1 DEF AuthStart, Waiting
    <3> QED
      BY <3>2, <3>3
  <2>2. CASE AuthRecurse \/ AuthRegister
    BY <2>2, <1>3 DEF AuthRecurse, AuthRegister, Waiting
  <2> QED
    BY <2>1, <2>2
<1> QED
  BY <1>1, <1>2, <1>3 DEF Waiting

LEMMA AuthStep ==
  ASSUME TypeOK, AuthInv, [Next]_vars
  PROVE  AuthInv'
<1>1. CASE RouteHop
  BY <1>1 DEF RouteHop, AuthInv, AuthReady
<1>2. CASE RouteDone
  <2>1. route \in Seq(Hop) /\ TargetHop \in Hop
    BY TargetIsHop DEF TypeOK
  <2>2. todo' = <<TargetHop>> \o route /\ route' = route /\ phase' = "auth"
    BY <1>2 DEF RouteDone
  <2>3. 1 \in DOMAIN todo' /\ todo'[1] = TargetHop
    BY <2>1, <2>2
  <2>4. \A i \in DOMAIN route : i + 1 \in DOMAIN todo' /\ todo'[i + 1] = route[i]
    BY <2>1, <2>2
  <2>5. Waiting(Target)'
    BY <2>3 DEF Waiting, TargetHop
  <2>6. \A i \in DOMAIN route : route[i].type = "ssh" => Waiting(route[i].name)'
    <3>1. \A i \in DOMAIN route : route[i].type = "ssh" => route[i] = [name |-> route[i].name, type |-> "ssh"]
      <4>1. \A h \in Hop : h.type = "ssh" => h = [name |-> h.name, type |-> "ssh"]
        BY DEF Hop
      <4> QED
        BY <2>1, <4>1
    <3> QED
      BY <3>1, <2>2, <2>4 DEF Waiting
  <2> QED
    BY <2>2, <2>5, <2>6 DEF AuthInv, AuthReady, Waiting
<1>3. CASE AuthStart \/ AuthRecurse \/ AuthRegister
  <2>1. phase = "auth" /\ phase' # "dial" /\ route' = route
    BY <1>3 DEF AuthStart, AuthRecurse, AuthRegister
  <2>2. Waiting(Target)'
    BY <2>1, <1>3, WaitingKept DEF AuthInv
  <2>3. \A n : Waiting(n) => Waiting(n)'
    BY <1>3, WaitingKept
  <2> QED
    BY <2>1, <2>2, <2>3 DEF AuthInv, AuthReady, Waiting
<1>4. CASE FindServerFails
  BY <1>4 DEF FindServerFails, AuthInv, AuthReady
<1>5. CASE \E env \in {"unset", "proxy", "bad"} : AuthDone(env)
  <2>1. phase = "auth" /\ stack = <<>> /\ todo = <<>> /\ route' = route /\ registered' = registered
    BY <1>5 DEF AuthDone, AllRegistered
  <2>2. \A n : Waiting(n) => n \in registered
    BY <2>1 DEF Waiting
  <2>3. phase' # "auth"
    BY <1>5 DEF AuthDone
  <2> QED
    BY <2>1, <2>2, <2>3 DEF AuthInv, AuthReady
<1>6. CASE DialProxy
  BY <1>6 DEF DialProxy, AuthInv, AuthReady
<1>7. CASE \E ok \in BOOLEAN : DialServer(ok)
  BY <1>7 DEF DialServer, AuthInv, AuthReady
<1>8. CASE \E ok \in BOOLEAN : DialTarget(ok)
  BY <1>8 DEF DialTarget, AuthInv, AuthReady
<1>9. CASE UNCHANGED vars
  BY <1>9 DEF vars, AuthInv, AuthReady, Waiting
<1> QED
  BY <1>1, <1>2, <1>3, <1>4, <1>5, <1>6, <1>7, <1>8, <1>9 DEF Next

LEMMA AuthInit == Init => AuthInv
  BY DEF Init, AuthInv, AuthReady

(* CreateSSHConnect dials nothing before the auth methods of the target    *)
(* and of every ssh hop of its route were collected.                       *)
THEOREM AuthCorrect == Spec => []AuthReady
<1>1. AuthInv => AuthReady
  BY DEF AuthInv
<1> QED
  BY <1>1, TypeInit, TypeStep, AuthInit, AuthStep, PTL DEF Spec

-----------------------------------------------------------------------------
(* With ssh proxies that are all configured, so is every ssh hop. *)
SshOnly == \A s \in Servers : server[s].type = "ssh" /\ server[s].proxy \in Servers \cup {NoName}
GoodHop(h) == h.type = "command" \/ (h.type = "ssh" /\ h.name \in Servers)
FoundInv ==
  SshOnly => GoodHop(con) /\ (\A i \in DOMAIN route : GoodHop(route[i])) /\ phase # "fatal"

LEMMA FoundStep ==
  ASSUME TypeOK, FoundInv, [Next]_vars
  PROVE  FoundInv'
<1> SUFFICES ASSUME SshOnly' PROVE (GoodHop(con) /\ (\A i \in DOMAIN route : GoodHop(route[i])) /\ phase # "fatal")'
  BY DEF FoundInv
<1>1. CASE RouteHop
  <2>1. SshOnly
    BY <1>1 DEF RouteHop, SshOnly, config
  <2>2. GoodHop(con) /\ ~Outermost(con) /\ phase' # "fatal"
    BY <1>1, <2>1 DEF RouteHop, FoundInv
  <2>3. GoodHop(ProxyOf(con)) /\ ProxyOf(con) \in Hop
    <3>1. con.type = "ssh" /\ con.name \in Servers
      BY <2>2 DEF GoodHop, Outermost
    <3>2. ProxyOf(con) \in Hop /\ ProxyOf(con).name # NoName
      BY <2>2, ProxyIsHop DEF Outermost, TypeOK
    <3> QED
      BY <2>1, <3>1, <3>2 DEF ProxyOf, GoodHop, SshOnly
  <2>4. route' = <<ProxyOf(con)>> \o route /\ con' = ProxyOf(con)
    BY <1>1 DEF RouteHop, AddHop, GoOn
  <2>5. \A i \in DOMAIN route' : route'[i] = ProxyOf(con) \/ \E j \in DOMAIN route : route'[i] = route[j]
    <3>1. route \in Seq(Hop)
      BY DEF TypeOK
    <3> QED
      BY <3>1, <2>3, <2>4
  <2> QED
    BY <2>1, <2>2, <2>3, <2>4, <2>5 DEF FoundInv, GoodHop
<1>2. CASE ~RouteHop
  <2>1. SshOnly /\ route' = route /\ con' = con
    BY <1>2, RouteKept DEF SshOnly
  <2>2. GoodHop(con) /\ (\A i \in DOMAIN route : GoodHop(route[i])) /\ phase # "fatal"
    BY <2>1 DEF FoundInv
  <2>3. ~FindServerFails
    BY <2>1 DEF FindServerFails, AuthProxy, Known, SshOnly
  <2>4. \A ok \in BOOLEAN : DialServer(ok) => phase' # "fatal"
    <3>1. SUFFICES ASSUME NEW ok \in BOOLEAN, DialServer(ok) PROVE phase' # "fatal"
      OBVIOUS
    <3>2. hop + 1 \in DOMAIN route
      BY <3>1 DEF DialServer, TypeOK
    <3>3. NextHop.type = "ssh" => NextHop.name \in Servers
      BY <3>2, <2>2 DEF NextHop, GoodHop
    <3> QED
      BY <3>1, <3>3, <2>2 DEF DialServer
  <2>5. CASE RouteDone \/ AuthStart \/ AuthRecurse \/ AuthRegister \/ DialProxy
    BY <2>1, <2>2, <2>5 DEF RouteDone, AuthStart, AuthRecurse, AuthRegister, DialProxy, GoodHop
  <2>6. CASE \E env \in {"unset", "proxy", "bad"} : AuthDone(env)
    BY <2>1, <2>2, <2>6 DEF AuthDone, GoodHop
  <2>7. CASE \E ok \in BOOLEAN : DialServer(ok)
    BY <2>1, <2>2, <2>4, <2>7 DEF GoodHop
  <2>8. CASE \E ok \in BOOLEAN : DialTarget(ok)
    BY <2>1, <2>2, <2>8 DEF DialTarget, GoodHop
  <2>9. CASE UNCHANGED vars
    BY <2>1, <2>2, <2>9 DEF vars, GoodHop
  <2> QED
    BY <1>2, <2>3, <2>5, <2>6, <2>7, <2>8, <2>9 DEF Next
<1> QED
  BY <1>1, <1>2

LEMMA FoundInit == Init => FoundInv
  BY RouteAssumption DEF Init, FoundInv, GoodHop, TargetHop

(* With ssh proxies that are all configured, findServer never ends the     *)
(* program, neither from createAuthMethodMapForServer nor from             *)
(* CreateSSHConnect.                                                       *)
THEOREM SshRoutesFound == Spec => []SshProxiesFound
<1>1. FoundInv => SshProxiesFound
  BY DEF FoundInv, SshOnly, SshProxiesFound
<1> QED
  BY <1>1, TypeInit, TypeStep, FoundInit, FoundStep, PTL DEF Spec
=============================================================================
