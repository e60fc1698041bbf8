---------------------------- MODULE CmdModeProofs ----------------------------
(***************************************************************************)
(* Proofs about CmdMode, for any selection of servers, amount of input and *)
(* window.                                                                 *)
(***************************************************************************)
EXTENDS CmdMode, FiniteSetTheorems, SequenceTheorems, TLAPS

Distinct(s) == \A i, j \in DOMAIN s : i # j => s[i] # s[j]
Before == {"connect", "create"}
After == {"run", "feed", "runs", "wait", "sleep", "over"}
Ended == {id \in IDs : session[id] = "done"}

TypeInv ==
  /\ mode \in Modes
  /\ pc \in Before \cup After \cup {"panic"}
  /\ connMap \in SUBSET IDs /\ IsFiniteSet(connMap)
  /\ pc = "connect" => todo \in Seq(DOMAIN ID)
  /\ pc # "connect" => todo \in Seq(connMap)
  /\ writers \in Seq(connMap)
  /\ session \in [IDs -> {"none", "ready", "nil", "running", "done"}]
  /\ push \in [doing : {"off", "read", "write", "close"}, piece : Nat, left : Seq(connMap)]
  /\ next \in Nat
  /\ copier \in [IDs -> [on : BOOLEAN, piece : Nat]]
  /\ inbox \in [IDs -> Seq(Nat)] /\ got \in [IDs -> Seq(Nat)]
  /\ closed \in [IDs -> BOOLEAN]
  /\ signals \in SUBSET IDs
  /\ received \in Nat
  /\ ran \in [IDs -> Nat]

(* What the main goroutine still has to do is what it has not done yet,    *)
(* and no ID twice.                                                        *)
OrderInv ==
  /\ pc # "connect" => Distinct(todo)
  /\ pc = "connect" => \A id \in IDs : session[id] = "none"
  /\ pc = "create" => \A id \in IDs : session[id] \in {"none", "ready", "nil"}
  /\ pc = "create" => \A id \in connMap : session[id] = "none" <=> id \in ToSet(todo)
  /\ pc \in After => \A id \in connMap : /\ session[id] # "none"
                                         /\ id \in ToSet(todo) <=> session[id] \in {"ready", "nil"}
  /\ pc \in {"wait", "sleep", "over"} => todo = <<>>
  /\ pc \in {"feed", "runs"} => at \in IDs /\ session[at] \in {"running", "done"}
  /\ pc = "feed" => Given

(* A command was started once if its session runs or is over, and every    *)
(* goroutine that is over has signalled, or is about to.                   *)
RunInv ==
  /\ \A id \in IDs : session[id] # "none" => id \in connMap
  /\ \A id \in IDs : ran[id] = IF session[id] \in {"running", "done"} THEN 1 ELSE 0
  /\ signals \subseteq Ended
  /\ received + Cardinality(signals) = Cardinality(Ended)
  /\ pc \in {"sleep", "over"} => connMap \subseteq Ended

Sent(id) == got[id] \o inbox[id]
Unbroken(s) == \A i \in DOMAIN s : s[i] = i
Rising(s) == \A i, j \in DOMAIN s : i < j => s[i] < s[j]

(* Nothing is sent before the sessions exist.                              *)
QuietInv ==
  pc \in Before =>
    /\ push.doing = "off" /\ next = 1
    /\ \A id \in IDs : copier[id] = Off /\ inbox[id] = <<>> /\ got[id] = <<>> /\ ~closed[id]

(* Each session has a writer, and all that live have been pushed the       *)
(* pieces that were read, but for the one that is being written.           *)
PushInv ==
  /\ ~Pushed => push.doing = "off"
  /\ Pushed =>
       /\ 0 < next /\ next <= Chunks + 1
       /\ pc = "connect" => writers = <<>>
       /\ pc = "create" => \A id \in connMap : id \in ToSet(todo) <=> id \notin ToSet(writers)
       /\ pc \in After => connMap \subseteq ToSet(writers)
       /\ pc # "panic" => Distinct(writers) /\ \A id \in IDs : session[id] # "nil"
       /\ push.doing # "off" => \A id \in IDs : ~closed[id]
       /\ push.doing = "read" => \A id \in connMap : Live(id) => Len(Sent(id)) = next - 1
       /\ push.doing = "write" =>
            /\ push.piece = next - 1 /\ push.piece > 0
            /\ Distinct(push.left)
            /\ \A id \in connMap : Live(id) =>
                 Len(Sent(id)) = IF id \in ToSet(push.left) THEN push.piece - 1 ELSE push.piece
       /\ push.doing = "close" => \A id \in connMap : Live(id) => Len(Sent(id)) = Chunks

(* A copier holds a later piece than all it has written.                   *)
SentInv ==
  /\ Pushed \/ Given => \A id \in IDs : /\ Unbroken(Sent(id))
                                        /\ copier[id] = Off
                                        /\ closed[id] /\ Live(id) => Len(Sent(id)) = Chunks
  /\ Given => \A id \in IDs : closed[id] => ran[id] = 1
  /\ ~(Pushed \/ Given) =>
       \A id \in IDs : /\ Rising(Sent(id))
                       /\ copier[id].piece # 0 => copier[id].piece < next
                       /\ \A i \in DOMAIN Sent(id) :
                            Sent(id)[i] < IF copier[id].piece # 0 THEN copier[id].piece ELSE next

-----------------------------------------------------------------------------
(* Sequences without repetition. *)

(* What is left without the first. *)
LEMMA TailFacts ==
  ASSUME NEW S, NEW s \in Seq(S), s # <<>>, Distinct(s)
  PROVE  /\ Head(s) \in S /\ Head(s) \in ToSet(s)
         /\ Tail(s) \in Seq(S) /\ Distinct(Tail(s))
         /\ ToSet(Tail(s)) = ToSet(s) \ {Head(s)}
<1>1. /\ Len(s) \in Nat \ {0} /\ DOMAIN s = 1..Len(s) /\ Head(s) = s[1] /\ Head(s) \in S
      /\ Tail(s) \in Seq(S) /\ DOMAIN Tail(s) = 1..(Len(s) - 1)
      /\ \A i \in 1..(Len(s) - 1) : Tail(s)[i] = s[i + 1]
  BY EmptySeq, HeadTailProperties, LenProperties
<1> DEFINE t == Tail(s)
           n == Len(s)
<1>2. n \in Nat \ {0} /\ DOMAIN s = 1..n /\ DOMAIN t = 1..(n - 1) /\ \A i \in 1..(n - 1) : t[i] = s[i + 1]
  BY <1>1
<1> HIDE DEF t, n
<1>3. Distinct(t)
  BY <1>2 DEF Distinct
<1>4. ASSUME NEW x
      PROVE  x \in ToSet(t) <=> x \in ToSet(s) /\ x # s[1]
  <2>1. x \in ToSet(t) => x \in ToSet(s) /\ x # s[1]
    <3> SUFFICES ASSUME NEW i \in 1..(n - 1), x = t[i]
                 PROVE  x \in ToSet(s) /\ x # s[1]
      BY <1>2 DEF ToSet
    <3>1. i + 1 \in 1..n /\ 1 \in 1..n /\ i + 1 # 1 /\ x = s[i + 1]
      BY <1>2
    <3> QED
      BY <1>2, <3>1 DEF ToSet, Distinct
  <2>2. x \in ToSet(s) /\ x # s[1] => x \in ToSet(t)
    <3> SUFFICES ASSUME NEW i \in 1..n, x = s[i], x # s[1]
                 PROVE  x \in ToSet(t)
      BY <1>2 DEF ToSet
    <3>1. i - 1 \in 1..(n - 1) /\ t[i - 1] = s[i]
      BY <1>2
    <3> QED
      BY <1>2, <3>1 DEF ToSet
  <2> QED
    BY <2>1, <2>2
<1>5. 1 \in 1..n
  BY <1>2
<1> QED
  BY <1>1, <1>2, <1>3, <1>4, <1>5 DEF t, ToSet

(* One more at the end. *)
LEMMA AppendFacts ==
  ASSUME NEW S, NEW s \in Seq(S), NEW e \in S
  PROVE  /\ Append(s, e) \in Seq(S)
         /\ ToSet(Append(s, e)) = ToSet(s) \cup {e}
         /\ Distinct(s) /\ e \notin ToSet(s) => Distinct(Append(s, e))
<1> DEFINE t == Append(s, e)
           n == Len(s)
<1>1. /\ n \in Nat /\ DOMAIN s = 1..n /\ DOMAIN t = 1..(n + 1) /\ t \in Seq(S)
      /\ \A i \in 1..n : t[i] = s[i]
      /\ t[n + 1] = e
  BY AppendProperties, LenProperties
<1> HIDE DEF t, n
<1>2. \A i \in 1..(n + 1) : i \in 1..n \/ i = n + 1
  BY <1>1
<1>3. 1..n \subseteq 1..(n + 1) /\ n + 1 \in 1..(n + 1)
  BY <1>1
<1>4. ToSet(t) = ToSet(s) \cup {e}
  BY <1>1, <1>2, <1>3, Zenon DEF ToSet
<1>5. Distinct(s) /\ e \notin ToSet(s) => Distinct(t)
  BY <1>1, <1>2 DEF ToSet, Distinct
<1> QED
  BY <1>1, <1>4, <1>5 DEF t

(* An order in which a map is walked. *)
LEMMA OrderFacts ==
  ASSUME NEW S, IsFiniteSet(S), NEW s \in SetToSeqs(S)
  PROVE  s \in Seq(S) /\ Distinct(s) /\ ToSet(s) = S
<1> DEFINE n == Cardinality(S)
<1>1. n \in Nat
  BY FS_CardinalityType
<1>2. s \in [1..n -> S] /\ \A i, j \in 1..n : i # j => s[i] # s[j]
  BY DEF SetToSeqs
<1>3. s \in Injection(1..n, S)
  BY <1>2 DEF Injection, IsInjective
<1>4. Cardinality(1..n) = n
  BY <1>1, FS_Interval
<1>5. s \in Surjection(1..n, S)
  BY <1>3, <1>4, FS_Injection
<1> HIDE DEF n
<1>6. s \in Seq(S) /\ DOMAIN s = 1..n
  BY <1>1, <1>2, SeqDef
<1>7. ToSet(s) = S
  BY <1>2, <1>5 DEF Surjection, ToSet
<1> QED
  BY <1>2, <1>6, <1>7 DEF Distinct

-----------------------------------------------------------------------------
(* What was sent to a session. *)

(* A piece that is sent comes after all others. *)
LEMMA SentAppend ==
  ASSUME NEW g \in Seq(Nat), NEW b \in Seq(Nat), NEW x \in Nat
  PROVE  /\ g \o Append(b, x) \in Seq(Nat)
         /\ Len(g \o Append(b, x)) = Len(g \o b) + 1
         /\ \A i \in 1..Len(g \o b) : (g \o Append(b, x))[i] = (g \o b)[i]
         /\ (g \o Append(b, x))[Len(g \o b) + 1] = x
         /\ g \o b \in Seq(Nat) /\ Len(g \o b) = Len(g) + Len(b)
<1>1. Append(b, x) \in Seq(Nat) /\ Len(Append(b, x)) = Len(b) + 1
      /\ (\A i \in 1..Len(b) : Append(b, x)[i] = b[i]) /\ Append(b, x)[Len(b) + 1] = x
  BY AppendProperties
<1>2. Len(g) \in Nat /\ Len(b) \in Nat
  BY LenProperties
<1> DEFINE m == Len(g)
           n == Len(b)
           t == Append(b, x)
           u == g \o b
           v == g \o t
<1>3. u \in Seq(Nat) /\ Len(u) = m + n /\ \A i \in 1..(m + n) : u[i] = IF i <= m THEN g[i] ELSE b[i - m]
  BY ConcatProperties
<1>4. v \in Seq(Nat) /\ Len(v) = m + (n + 1) /\ \A i \in 1..(m + (n + 1)) : v[i] = IF i <= m THEN g[i] ELSE t[i - m]
  BY <1>1, ConcatProperties
<1>5. m \in Nat /\ n \in Nat /\ (\A i \in 1..n : t[i] = b[i]) /\ t[n + 1] = x
  BY <1>1, <1>2
<1> HIDE DEF m, n, t, u, v
<1>6. Len(v) = Len(u) + 1 /\ v[Len(u) + 1] = x
  <2>1. m + n + 1 \in 1..(m + (n + 1)) /\ ~(m + n + 1 <= m) /\ m + n + 1 - m = n + 1 /\ m + (n + 1) = m + n + 1
    BY <1>5
  <2> QED
    BY <1>3, <1>4, <1>5, <2>1
<1>7. ASSUME NEW i \in 1..Len(u)
      PROVE  v[i] = u[i]
  <2>1. i \in 1..(m + n) /\ i \in 1..(m + (n + 1)) /\ (~(i <= m) => i - m \in 1..n)
    BY <1>3, <1>5
  <2> QED
    BY <1>3, <1>4, <1>5, <2>1
<1> QED
  BY <1>3, <1>4, <1>6, <1>7 DEF m, n, t, u, v

(* A piece that is read is no longer on its way.                           *)
LEMMA SentRead ==
  ASSUME NEW g \in Seq(Nat), NEW b \in Seq(Nat), b # <<>>
  PROVE  Append(g, Head(b)) \o Tail(b) = g \o b
<1>1. Head(b) \in Nat /\ Tail(b) \in Seq(Nat) /\ Head(b) = b[1] /\ Len(b) \in Nat \ {0} /\ Len(g) \in Nat
      /\ Len(Tail(b)) = Len(b) - 1 /\ \A i \in 1..(Len(b) - 1) : Tail(b)[i] = b[i + 1]
  BY HeadTailProperties, EmptySeq, LenProperties
<1> DEFINE h == Append(g, Head(b))
           t == Tail(b)
           m == Len(g)
           n == Len(b)
<1>2. h \in Seq(Nat) /\ Len(h) = m + 1 /\ (\A i \in 1..m : h[i] = g[i]) /\ h[m + 1] = b[1]
  BY <1>1, AppendProperties
<1>3. /\ g \o b \in Seq(Nat) /\ Len(g \o b) = m + n
      /\ \A i \in 1..(m + n) : (g \o b)[i] = IF i <= m THEN g[i] ELSE b[i - m]
  BY ConcatProperties
<1>4. /\ h \o t \in Seq(Nat) /\ Len(h \o t) = Len(h) + Len(t)
      /\ \A i \in 1..(Len(h) + Len(t)) : (h \o t)[i] = IF i <= Len(h) THEN h[i] ELSE t[i - Len(h)]
  BY <1>1, <1>2, ConcatProperties
<1>5. m \in Nat /\ n \in Nat \ {0} /\ Len(t) = n - 1 /\ \A i \in 1..(n - 1) : t[i] = b[i + 1]
  BY <1>1
<1> HIDE DEF h, t, m, n
<1>6. Len(h \o t) = Len(g \o b)
  BY <1>2, <1>3, <1>4, <1>5
<1>7. ASSUME NEW i \in 1..Len(g \o b)
      PROVE  (h \o t)[i] = (g \o b)[i]
  <2>1. i \in 1..(m + n) /\ i \in 1..(Len(h) + Len(t))
    BY <1>2, <1>3, <1>5
  <2>2. CASE i <= m
    <3>1. i \in 1..m /\ i <= Len(h)
      BY <1>2, <1>5, <2>1, <2>2
    <3>2. (h \o t)[i] = h[i] /\ (g \o b)[i] = g[i]
      BY <1>3, <1>4, <2>1, <2>2, <3>1
    <3> QED
      BY <1>2, <3>1, <3>2
  <2>3. CASE i = m + 1
    <3>1. ~(i <= m) /\ i - m = 1 /\ i <= Len(h)
      BY <1>2, <1>5, <2>3
    <3>2. (h \o t)[i] = h[i] /\ (g \o b)[i] = b[i - m]
      BY <1>3, <1>4, <2>1, <3>1
    <3> QED
      BY <1>2, <2>3, <3>1, <3>2
  <2>4. CASE i > m + 1
    <3>1. ~(i <= m) /\ ~(i <= Len(h)) /\ i - Len(h) \in 1..(n - 1) /\ (i - Len(h)) + 1 = i - m
      BY <1>2, <1>5, <2>1, <2>4
    <3>2. (h \o t)[i] = t[i - Len(h)] /\ (g \o b)[i] = b[i - m]
      BY <1>3, <1>4, <2>1, <3>1
    <3> QED
      BY <1>5, <3>1, <3>2
  <2>5. i <= m \/ i = m + 1 \/ i > m + 1
    BY <1>5, <2>1
  <2> QED
    BY <2>2, <2>3, <2>4, <2>5
<1> QED
  BY <1>3, <1>4, <1>6, <1>7, SeqEqual DEF h, t

-----------------------------------------------------------------------------
(* Types. *)

LEMMA TypeInit == Init => TypeInv
<1> SUFFICES ASSUME Init
             PROVE  TypeInv
  OBVIOUS
<1>1. mode.list \in Seq(DOMAIN ID)
  BY BoundsAssumption DEF Init, Modes
<1>2. IsFiniteSet({})
  BY FS_EmptySet
<1>3. \A S : <<>> \in Seq(S)
  BY EmptySeq
<1> QED
  BY <1>1, <1>2, <1>3 DEF Init, TypeInv, Before, Off

(* The steps of the main goroutine. *)
LEMMA TypeMain ==
  ASSUME TypeInv, OrderInv, MainStep
  PROVE  TypeInv'
<1> USE BoundsAssumption DEF Before, After
<1>1. CASE createConnMap
  <2>1. /\ mode' = mode /\ session' = session /\ writers' = writers /\ push' = push /\ next' = next
        /\ copier' = copier /\ inbox' = inbox /\ got' = got /\ closed' = closed
        /\ signals' = signals /\ received' = received /\ ran' = ran
    BY <1>1 DEF createConnMap, input
  <2>2. CASE todo = <<>>
    <3>1. pc' = "create" /\ connMap' = connMap /\ \E order \in SetToSeqs(connMap) : todo' = order
      BY <1>1, <2>2 DEF createConnMap
    <3>2. todo' \in Seq(connMap)
      BY <3>1, OrderFacts DEF TypeInv
    <3> QED
      BY <2>1, <3>1, <3>2 DEF TypeInv
  <2>3. CASE todo # <<>>
    <3>1. /\ pc' = "connect" /\ todo' = Tail(todo) /\ todo \in Seq(DOMAIN ID)
          /\ connMap' = connMap \/ connMap' = connMap \cup {ID[Head(todo)]}
      BY <1>1, <2>3 DEF createConnMap, TypeInv
    <3>2. Head(todo) \in DOMAIN ID /\ todo' \in Seq(DOMAIN ID)
      BY <2>3, <3>1, HeadTailProperties
    <3>3. connMap' \in SUBSET IDs /\ connMap \subseteq connMap'
      BY <3>1, <3>2 DEF TypeInv, IDs
    <3>4. IsFiniteSet(connMap')
      <4>1. IsFiniteSet(connMap)
        BY DEF TypeInv
      <4>2. IsFiniteSet(connMap \cup {ID[Head(todo)]})
        BY <4>1, FS_AddElement
      <4> QED
        BY <3>1, <4>1, <4>2
    <3>5. writers' \in Seq(connMap') /\ push.left \in Seq(connMap')
      BY <2>1, <3>3, SeqMonotonic DEF TypeInv
    <3>6. push' \in [doing : {"off", "read", "write", "close"}, piece : Nat, left : Seq(connMap')]
      BY <2>1, <3>5 DEF TypeInv
    <3> QED
      BY <2>1, <3>1, <3>2, <3>3, <3>4, <3>5, <3>6 DEF TypeInv
  <2> QED
    BY <2>2, <2>3
<1>2. CASE createWriter
  <2>1. pc = "create" /\ todo \in Seq(connMap) /\ todo # <<>> /\ todo' = Tail(todo)
    BY <1>2 DEF createWriter, TypeInv
  <2>2. Head(todo) \in connMap /\ todo' \in Seq(connMap)
    BY <2>1, HeadTailProperties
  <2>3. writers' \in Seq(connMap)
    BY <1>2, <2>2, AppendProperties DEF createWriter, TypeInv
  <2>4. pc' \in {"create", "panic"}
    BY <1>2 DEF createWriter
  <2>5. session' \in [IDs -> {"none", "ready", "nil", "running", "done"}]
    BY <1>2 DEF createWriter, TypeInv
  <2> QED
    BY <1>2, <2>2, <2>3, <2>4, <2>5 DEF createWriter, TypeInv, input
<1>3. CASE startInput
  <2>1. todo' \in Seq(connMap)
    BY <1>3, OrderFacts DEF startInput, TypeInv
  <2>2. push' \in [doing : {"off", "read", "write", "close"}, piece : Nat, left : Seq(connMap)]
    BY <1>3 DEF startInput, TypeInv
  <2>3. next' \in Nat
    BY <1>3 DEF startInput, TypeInv
  <2> QED
    BY <1>3, <2>1, <2>2, <2>3 DEF startInput, TypeInv
<1>4. CASE runCommand
  <2> DEFINE id == Head(todo)
  <2>1. pc = "run" /\ todo \in Seq(connMap) /\ todo # <<>> /\ todo' = Tail(todo)
    BY <1>4 DEF runCommand, TypeInv
  <2>2. id \in connMap /\ id \in IDs /\ todo' \in Seq(connMap)
    BY <2>1, HeadTailProperties DEF TypeInv
  <2>3. /\ UNCHANGED <<mode, connMap, writers, received, push, next, inbox, closed, got>>
        /\ pc' \in {"run", "feed", "runs", "panic"}
        /\ signals' = signals \/ signals' = signals \cup {id}
        /\ ran' = ran \/ ran' = [ran EXCEPT ![id] = @ + 1]
        /\ session' = session \/ (\E v \in {"running", "done"} : session' = [session EXCEPT ![id] = v])
        /\ copier' = copier \/ copier' = [copier EXCEPT ![id].on = TRUE]
    BY <1>4 DEF runCommand, Started, NotStarted
  <2> HIDE DEF id
  <2>4. ran' \in [IDs -> Nat]
    <3>1. ran \in [IDs -> Nat] /\ ran[id] + 1 \in Nat
      BY <2>2 DEF TypeInv
    <3> QED
      BY <2>3, <3>1
  <2>5. session' \in [IDs -> {"none", "ready", "nil", "running", "done"}]
    BY <2>2, <2>3 DEF TypeInv
  <2>6. copier' \in [IDs -> [on : BOOLEAN, piece : Nat]]
    <3>1. copier \in [IDs -> [on : BOOLEAN, piece : Nat]] /\ [copier[id] EXCEPT !.on = TRUE] \in [on : BOOLEAN, piece : Nat]
      BY <2>2 DEF TypeInv
    <3> QED
      BY <2>3, <3>1
  <2>7. signals' \in SUBSET IDs
    BY <2>2, <2>3 DEF TypeInv
  <2> QED
    BY <2>2, <2>3, <2>4, <2>5, <2>6, <2>7 DEF TypeInv
<1>5. CASE feed
  <2>1. at \in IDs
    BY <1>5 DEF feed, OrderInv
  <2>2. Len(got[at]) + Len(inbox[at]) + 1 \in Nat /\ inbox[at] \in Seq(Nat)
    BY <2>1, LenProperties DEF TypeInv
  <2>3. Append(inbox[at], Len(got[at]) + Len(inbox[at]) + 1) \in Seq(Nat)
    BY <2>2, AppendProperties
  <2>4. inbox' \in [IDs -> Seq(Nat)]
    BY <1>5, <2>3 DEF feed, TypeInv
  <2>5. closed' \in [IDs -> BOOLEAN]
    BY <1>5 DEF feed, Close, TypeInv
  <2> QED
    BY <1>5, <2>4, <2>5 DEF feed, TypeInv
<1>6. CASE waitFinished
  BY <1>6 DEF waitFinished, TypeInv, input
<1>7. CASE exit
  BY <1>7 DEF exit, TypeInv, input
<1> QED
  BY <1>1, <1>2, <1>3, <1>4, <1>5, <1>6, <1>7 DEF MainStep

(* The steps of the others. *)
LEMMA TypeRest ==
  ASSUME TypeInv, PushStep \/ \E id \in IDs : CopyStep(id) \/ Read(id) \/ End(id) \/ Lost(id) \/ Printer(id)
  PROVE  TypeInv'
<1> USE BoundsAssumption DEF Before, After
<1>1. CASE PushRead
  BY <1>1 DEF PushRead, TypeInv, main
<1>2. CASE PushWrite
  <2>1. push.left \in Seq(connMap) /\ push.left # <<>> /\ push.piece \in Nat
    BY <1>2 DEF PushWrite, TypeInv
  <2>2. Head(push.left) \in IDs /\ Tail(push.left) \in Seq(connMap)
    BY <2>1, HeadTailProperties DEF TypeInv
  <2>3. Append(inbox[Head(push.left)], push.piece) \in Seq(Nat)
    BY <2>1, <2>2, AppendProperties DEF TypeInv
  <2>4. inbox' \in [IDs -> Seq(Nat)]
    BY <1>2, <2>3 DEF PushWrite, TypeInv
  <2>5. push' \in [doing : {"off", "read", "write", "close"}, piece : Nat, left : Seq(connMap)]
    BY <1>2, <2>2 DEF PushWrite, TypeInv
  <2> QED
    BY <1>2, <2>4, <2>5 DEF PushWrite, TypeInv, main
<1>3. CASE PushWritten
  BY <1>3 DEF PushWritten, TypeInv, main
<1>4. CASE PushEnd
  BY <1>4 DEF PushEnd, TypeInv, main
<1>5. CASE PushClose
  <2>1. closed' \in [IDs -> BOOLEAN]
    BY <1>5 DEF PushClose, TypeInv
  <2> QED
    BY <1>5, <2>1 DEF PushClose, TypeInv, main
<1>6. ASSUME NEW id \in IDs, CopyStep(id)
      PROVE  TypeInv'
  <2>1. CASE CopyRead(id)
    <3>1. next \in Nat /\ copier \in [IDs -> [on : BOOLEAN, piece : Nat]]
      BY DEF TypeInv
    <3>2. [copier[id] EXCEPT !.piece = next] \in [on : BOOLEAN, piece : Nat]
      BY <3>1
    <3>3. copier' = [copier EXCEPT ![id] = [copier[id] EXCEPT !.piece = next]] /\ next' = next + 1
      BY <2>1 DEF CopyRead
    <3>4. copier' \in [IDs -> [on : BOOLEAN, piece : Nat]] /\ next' \in Nat
      BY <3>1, <3>2, <3>3
    <3> QED
      BY <2>1, <3>4 DEF CopyRead, TypeInv, main
  <2>2. CASE CopyWrite(id)
    <3>1. Append(inbox[id], copier[id].piece) \in Seq(Nat)
      BY AppendProperties DEF TypeInv
    <3>2. inbox' \in [IDs -> Seq(Nat)]
      BY <2>2, <3>1 DEF CopyWrite, TypeInv
    <3>3. copier' \in [IDs -> [on : BOOLEAN, piece : Nat]]
      <4>1. /\ copier \in [IDs -> [on : BOOLEAN, piece : Nat]] /\ Off \in [on : BOOLEAN, piece : Nat]
            /\ [copier[id] EXCEPT !.piece = 0] \in [on : BOOLEAN, piece : Nat]
        BY DEF TypeInv, Off
      <4>2. copier' = [copier EXCEPT ![id] = [copier[id] EXCEPT !.piece = 0]] \/ copier' = [copier EXCEPT ![id] = Off]
        BY <2>2 DEF CopyWrite
      <4> QED
        BY <4>1, <4>2
    <3> QED
      BY <2>2, <3>2, <3>3 DEF CopyWrite, TypeInv, main
  <2>3. CASE CopyEnd(id)
    <3>1. closed' \in [IDs -> BOOLEAN]
      BY <2>3 DEF CopyEnd, TypeInv
    <3>2. copier' \in [IDs -> [on : BOOLEAN, piece : Nat]]
      BY <2>3 DEF CopyEnd, TypeInv, Off
    <3> QED
      BY <2>3, <3>1, <3>2 DEF CopyEnd, TypeInv, main
  <2> QED
    BY <1>6, <2>1, <2>2, <2>3 DEF CopyStep
<1>7. ASSUME NEW id \in IDs, Read(id)
      PROVE  TypeInv'
  <2>1. Head(inbox[id]) \in Nat /\ Tail(inbox[id]) \in Seq(Nat)
    BY <1>7, HeadTailProperties DEF Read, TypeInv
  <2>2. Append(got[id], Head(inbox[id])) \in Seq(Nat)
    BY <2>1, AppendProperties DEF TypeInv
  <2>3. inbox' \in [IDs -> Seq(Nat)] /\ got' \in [IDs -> Seq(Nat)]
    BY <1>7, <2>1, <2>2 DEF Read, TypeInv
  <2> QED
    BY <1>7, <2>3 DEF Read, TypeInv, main
<1>8. ASSUME NEW id \in IDs, End(id) \/ Lost(id)
      PROVE  TypeInv'
  <2>1. Returned(id)
    BY <1>8 DEF End, Lost
  <2>2. pc' \in {pc, "run"} /\ (pc = "connect" => pc' = "connect") /\ (pc' = "connect" => pc = "connect")
    BY <2>1 DEF Returned
  <2>3. session' \in [IDs -> {"none", "ready", "nil", "running", "done"}] /\ signals' \in SUBSET IDs
    BY <2>1 DEF Returned, TypeInv
  <2> QED
    BY <2>1, <2>2, <2>3 DEF Returned, TypeInv, input
<1>9. ASSUME NEW id \in IDs, Printer(id)
      PROVE  TypeInv'
  BY <1>9 DEF Printer, TypeInv, main, input
<1> QED
  BY <1>1, <1>2, <1>3, <1>4, <1>5, <1>6, <1>7, <1>8, <1>9 DEF PushStep

-----------------------------------------------------------------------------
(* The order of the main goroutine. *)

LEMMA OrderMain ==
  ASSUME TypeInv, OrderInv, MainStep
  PROVE  OrderInv'
<1> USE DEF Before, After
<1>1. CASE createConnMap
  <2>1. session' = session /\ pc = "connect" /\ \A id \in IDs : session[id] = "none"
    BY <1>1 DEF createConnMap, OrderInv
  <2>2. CASE todo = <<>>
    <3>1. pc' = "create" /\ connMap' = connMap /\ \E order \in SetToSeqs(connMap) : todo' = order
      BY <1>1, <2>2 DEF createConnMap
    <3>2. Distinct(todo') /\ ToSet(todo') = connMap
      BY <3>1, OrderFacts DEF TypeInv
    <3> QED
      BY <2>1, <3>1, <3>2 DEF OrderInv, TypeInv
  <2>3. CASE todo # <<>>
    <3>1. pc' = "connect"
      BY <1>1, <2>3 DEF createConnMap
    <3> QED
      BY <2>1, <3>1 DEF OrderInv
  <2> QED
    BY <2>2, <2>3
<1>2. CASE createWriter
  <2> DEFINE h == Head(todo)
  <2>1. pc = "create" /\ todo \in Seq(connMap) /\ todo # <<>> /\ todo' = Tail(todo) /\ Distinct(todo)
    BY <1>2 DEF createWriter, TypeInv, OrderInv
  <2>2. h \in connMap /\ h \in ToSet(todo) /\ Distinct(todo') /\ ToSet(todo') = ToSet(todo) \ {h}
    BY <2>1, TailFacts
  <2>3. /\ pc' \in {"create", "panic"} /\ connMap' = connMap
        /\ \E v \in {"ready", "nil"} : session' = [session EXCEPT ![h] = v]
    BY <1>2, <2>1 DEF createWriter
  <2> HIDE DEF h
  <2>4. \A id \in IDs : session'[id] \in {"none", "ready", "nil"}
    BY <2>1, <2>3 DEF OrderInv, TypeInv
  <2>5. \A id \in connMap : session'[id] = "none" <=> id \in ToSet(todo')
    BY <2>1, <2>2, <2>3 DEF OrderInv, TypeInv
  <2> QED
    BY <2>2, <2>3, <2>4, <2>5 DEF OrderInv
<1>3. CASE startInput
  <2>1. pc = "create" /\ pc' = "run" /\ session' = session /\ connMap' = connMap /\ todo = <<>>
    BY <1>3 DEF startInput
  <2>2. Distinct(todo') /\ ToSet(todo') = connMap
    BY <1>3, OrderFacts DEF startInput, TypeInv
  <2>3. ToSet(todo) = {}
    BY <2>1 DEF ToSet
  <2>4. \A id \in connMap : session[id] \in {"ready", "nil"}
    BY <2>1, <2>3 DEF OrderInv, TypeInv
  <2> QED
    BY <2>1, <2>2, <2>4 DEF OrderInv
<1>4. CASE runCommand
  <2> DEFINE h == Head(todo)
  <2>1. pc = "run" /\ todo \in Seq(connMap) /\ todo # <<>> /\ todo' = Tail(todo) /\ Distinct(todo)
    BY <1>4 DEF runCommand, TypeInv, OrderInv
  <2>2. h \in connMap /\ h \in ToSet(todo) /\ Distinct(todo') /\ ToSet(todo') = ToSet(todo) \ {h}
    BY <2>1, TailFacts
  <2>3. connMap' = connMap /\ at' = h /\ mode' = mode
    BY <1>4 DEF runCommand
  <2>4. \/ pc' = "panic"
        \/ /\ pc' \in {"run", "feed", "runs"} /\ (pc' = "feed" => Given)
           /\ session' = [session EXCEPT ![h] = "running"]
        \/ /\ pc' = "run"
           /\ session' = [session EXCEPT ![h] = "done"]
    BY <1>4, <2>1 DEF runCommand, Started, NotStarted
  <2>5. Given' = Given
    BY <2>3 DEF Given, Multi
  <2> HIDE DEF h
  <2>6. h \in IDs /\ session \in [IDs -> {"none", "ready", "nil", "running", "done"}]
    BY <2>2 DEF TypeInv
  <2>7. CASE pc' = "panic"
    BY <2>2, <2>7 DEF OrderInv
  <2>8. ASSUME NEW v \in {"running", "done"}, session' = [session EXCEPT ![h] = v]
        PROVE  \A id \in connMap : session'[id] # "none" /\ (id \in ToSet(todo') <=> session'[id] \in {"ready", "nil"})
    BY <2>1, <2>2, <2>6, <2>8 DEF OrderInv, TypeInv
  <2>9. CASE pc' # "panic"
    <3>1. session'[h] \in {"running", "done"}
      BY <2>4, <2>6, <2>9
    <3>2. \A id \in connMap : session'[id] # "none" /\ (id \in ToSet(todo') <=> session'[id] \in {"ready", "nil"})
      BY <2>4, <2>8, <2>9
    <3> QED
      BY <2>2, <2>3, <2>4, <2>5, <2>6, <2>9, <3>1, <3>2 DEF OrderInv
  <2> QED
    BY <2>7, <2>9
<1>5. CASE feed
  <2>1. UNCHANGED <<todo, at, session, connMap, mode>> /\ pc' \in {pc, "run"} /\ pc = "feed"
    BY <1>5 DEF feed
  <2>2. Given' = Given
    BY <2>1 DEF Given, Multi
  <2> QED
    BY <2>1, <2>2 DEF OrderInv
<1>6. CASE waitFinished
  <2>1. UNCHANGED <<todo, at, session, connMap, mode>> /\ pc' \in {"sleep", "wait"} /\ pc \in {"run", "wait"} /\ todo = <<>>
    BY <1>6 DEF waitFinished
  <2> QED
    BY <2>1 DEF OrderInv
<1>7. CASE exit
  <2>1. UNCHANGED <<todo, at, session, connMap, mode>> /\ pc = "sleep" /\ pc' = "over"
    BY <1>7 DEF exit
  <2> QED
    BY <2>1 DEF OrderInv
<1> QED
  BY <1>1, <1>2, <1>3, <1>4, <1>5, <1>6, <1>7 DEF MainStep

LEMMA OrderReturned ==
  ASSUME TypeInv, OrderInv, NEW id \in IDs, session[id] = "running", Returned(id)
  PROVE  OrderInv'
<1> USE DEF Before, After
<1>1. UNCHANGED <<todo, at, connMap, mode>> /\ pc' = (IF pc = "runs" /\ at = id THEN "run" ELSE pc)
  BY DEF Returned
<1>2. \A e \in IDs : session'[e] = IF e = id THEN "done" ELSE session[e]
  BY DEF Returned, TypeInv
<1>3. Given' = Given
  BY <1>1 DEF Given, Multi
<1>4. \A e \in IDs : /\ session'[e] = "none" <=> session[e] = "none"
                     /\ session'[e] \in {"ready", "nil"} <=> session[e] \in {"ready", "nil"}
                     /\ session'[e] \in {"running", "done"} <=> session[e] \in {"running", "done"}
  BY <1>2
<1>5. pc # "connect" /\ pc # "create" /\ pc' # "connect" /\ pc' # "create" /\ (pc' \in After => pc \in After)
  BY <1>1, <1>2 DEF OrderInv, TypeInv
<1>6. pc' \in {"wait", "sleep", "over", "feed", "runs"} => pc' = pc
  BY <1>1
<1>7. connMap \subseteq IDs
  BY DEF TypeInv
<1> QED
  BY <1>1, <1>3, <1>4, <1>5, <1>6, <1>7 DEF OrderInv

(* The other processes leave the order alone. *)
LEMMA OrderRest ==
  ASSUME TypeInv, OrderInv, PushStep \/ \E id \in IDs : CopyStep(id) \/ Read(id) \/ End(id) \/ Lost(id) \/ Printer(id)
  PROVE  OrderInv'
<1>1. ASSUME NEW id \in IDs, End(id) \/ Lost(id)
      PROVE  OrderInv'
  BY <1>1, OrderReturned DEF End, Lost
<1>2. ASSUME UNCHANGED <<mode, main>>
      PROVE  OrderInv'
  BY <1>2 DEF OrderInv, main, Given, Multi
<1>3. ASSUME NEW id \in IDs, CopyStep(id) \/ Read(id) \/ Printer(id)
      PROVE  UNCHANGED <<mode, main>>
  BY <1>3 DEF CopyStep, CopyRead, CopyWrite, CopyEnd, Read, Printer
<1>4. PushStep => UNCHANGED <<mode, main>>
  BY DEF PushStep, PushRead, PushWrite, PushWritten, PushEnd, PushClose
<1> QED
  BY <1>1, <1>2, <1>3, <1>4

-----------------------------------------------------------------------------
(* Sessions that are over, and the signals of their goroutines. *)

LEMMA EndedFacts ==
  ASSUME TypeInv, RunInv
  PROVE  Ended \subseteq connMap /\ IsFiniteSet(Ended) /\ IsFiniteSet(signals)
<1>1. Ended \subseteq connMap
  BY DEF Ended, RunInv
<1>2. IsFiniteSet(Ended)
  BY <1>1, FS_Subset DEF TypeInv
<1> QED
  BY <1>1, <1>2, FS_Subset DEF RunInv

(* One session more is over, and its goroutine signals.                    *)
LEMMA SignalCounted ==
  ASSUME TypeInv, RunInv, NEW id \in IDs, session[id] # "done", received' = received,
         session' = [session EXCEPT ![id] = "done"], signals' = signals \cup {id}
  PROVE  signals' \subseteq Ended' /\ received' + Cardinality(signals') = Cardinality(Ended')
<1>1. Ended' = Ended \cup {id} /\ id \notin Ended /\ id \notin signals
  BY DEF Ended, TypeInv, RunInv
<1>2. IsFiniteSet(Ended) /\ IsFiniteSet(signals)
  BY EndedFacts
<1>3. Cardinality(Ended \cup {id}) = Cardinality(Ended) + 1
  BY <1>1, <1>2, FS_AddElement
<1>4. Cardinality(signals \cup {id}) = Cardinality(signals) + 1
  BY <1>1, <1>2, FS_AddElement
<1>5. Cardinality(signals) \in Nat /\ Cardinality(Ended) \in Nat /\ received \in Nat
  BY <1>2, FS_CardinalityType DEF TypeInv
<1>6. signals \subseteq Ended /\ received + Cardinality(signals) = Cardinality(Ended)
  BY DEF RunInv
<1>7. signals \cup {id} \subseteq Ended \cup {id}
  BY <1>6
<1>8. received + (Cardinality(signals) + 1) = Cardinality(Ended) + 1
  BY <1>5, <1>6
<1> QED
  BY <1>1, <1>3, <1>4, <1>7, <1>8

LEMMA RunMain ==
  ASSUME TypeInv, OrderInv, RunInv, MainStep
  PROVE  RunInv'
<1> USE DEF Before, After
<1>1. CASE createConnMap
  <2>1. UNCHANGED <<session, ran, signals, received>> /\ pc = "connect" /\ pc' \in {"connect", "create"}
    BY <1>1 DEF createConnMap
  <2>2. connMap \subseteq connMap'
    BY <1>1 DEF createConnMap
  <2> QED
    BY <2>1, <2>2 DEF RunInv, Ended
<1>2. CASE createWriter
  <2> DEFINE h == Head(todo)
  <2>1. pc = "create" /\ todo \in Seq(connMap) /\ todo # <<>>
    BY <1>2 DEF createWriter, TypeInv
  <2>2. h \in connMap
    BY <2>1, HeadTailProperties
  <2>3. /\ pc' \in {"create", "panic"} /\ UNCHANGED <<connMap, ran, signals, received>>
        /\ \E v \in {"ready", "nil"} : session' = [session EXCEPT ![h] = v]
    BY <1>2, <2>1 DEF createWriter
  <2> HIDE DEF h
  <2>4. session[h] \in {"none", "ready", "nil"} /\ h \in IDs
    BY <2>1, <2>2 DEF OrderInv, TypeInv
  <2>5. \A id \in IDs : session'[id] \in {"running", "done"} => session[id] = session'[id]
    BY <2>3, <2>4 DEF TypeInv
  <2>6. \A id \in IDs : session[id] \in {"running", "done"} => session[id] = session'[id]
    BY <2>3, <2>4 DEF TypeInv
  <2>7. \A id \in IDs : session'[id] # "none" => session[id] # "none" \/ id = h
    BY <2>3 DEF TypeInv
  <2>8. Ended' = Ended
    BY <2>5, <2>6 DEF Ended
  <2> QED
    BY <2>2, <2>3, <2>5, <2>6, <2>7, <2>8 DEF RunInv
<1>3. CASE startInput
  BY <1>3 DEF startInput, RunInv, Ended
<1>4. CASE runCommand
  <2> DEFINE h == Head(todo)
  <2>1. pc = "run" /\ todo \in Seq(connMap) /\ todo # <<>>
    BY <1>4 DEF runCommand, TypeInv
  <2>2. h \in connMap /\ h \in ToSet(todo)
    BY <2>1, TailFacts DEF OrderInv
  <2>3. UNCHANGED <<connMap, received>> /\ pc' \notin {"sleep", "over"}
    BY <1>4, <2>1 DEF runCommand
  <2>4. \/ UNCHANGED <<session, ran, signals>>
        \/ /\ session' = [session EXCEPT ![h] = "running"]
           /\ ran' = [ran EXCEPT ![h] = @ + 1]
           /\ signals' = signals
        \/ /\ session' = [session EXCEPT ![h] = "done"]
           /\ ran' = [ran EXCEPT ![h] = @ + 1]
           /\ signals' = signals \cup {h}
    BY <1>4 DEF runCommand, Started, NotStarted
  <2> HIDE DEF h
  <2>5. h \in IDs /\ session[h] \in {"ready", "nil"}
    BY <2>1, <2>2 DEF OrderInv, TypeInv
  <2>6. ran[h] = 0
    BY <2>5 DEF RunInv
  <2>7. CASE UNCHANGED <<session, ran, signals>>
    BY <2>3, <2>7 DEF RunInv, Ended
  <2>8. ASSUME NEW v \in {"running", "done"},
               session' = [session EXCEPT ![h] = v], ran' = [ran EXCEPT ![h] = @ + 1]
        PROVE  /\ \A id \in IDs : session'[id] # "none" => id \in connMap'
               /\ \A id \in IDs : ran'[id] = IF session'[id] \in {"running", "done"} THEN 1 ELSE 0
    <3>1. session'[h] = v /\ ran'[h] = 1 /\ \A id \in IDs : id # h => session'[id] = session[id] /\ ran'[id] = ran[id]
      BY <2>5, <2>6, <2>8 DEF TypeInv
    <3> QED
      BY <2>2, <2>3, <3>1 DEF RunInv
  <2>9. CASE session' = [session EXCEPT ![h] = "running"] /\ ran' = [ran EXCEPT ![h] = @ + 1] /\ signals' = signals
    <3>1. Ended' = Ended
      BY <2>5, <2>9 DEF Ended, TypeInv
    <3>2. signals' \subseteq Ended' /\ received' + Cardinality(signals') = Cardinality(Ended')
      BY <2>3, <2>9, <3>1 DEF RunInv
    <3> QED
      BY <2>3, <2>8, <2>9, <3>2 DEF RunInv
  <2>10. CASE session' = [session EXCEPT ![h] = "done"] /\ ran' = [ran EXCEPT ![h] = @ + 1] /\ signals' = signals \cup {h}
    <3>1. signals' \subseteq Ended' /\ received' + Cardinality(signals') = Cardinality(Ended')
      BY <2>3, <2>5, <2>10, SignalCounted
    <3> QED
      BY <2>3, <2>8, <2>10, <3>1 DEF RunInv
  <2> QED
    BY <2>4, <2>7, <2>9, <2>10
<1>5. CASE feed
  <2>1. UNCHANGED <<connMap, session, ran, signals, received>> /\ pc' \in {"feed", "run"}
    BY <1>5 DEF feed
  <2> QED
    BY <2>1 DEF RunInv, Ended
<1>6. CASE waitFinished
  <2>1. UNCHANGED <<connMap, session, ran>> /\ Ended' = Ended
    BY <1>6 DEF waitFinished, Ended
  <2>2. IsFiniteSet(Ended) /\ Ended \subseteq connMap /\ IsFiniteSet(signals)
    BY EndedFacts
  <2>3. Cardinality(signals) \in Nat /\ Cardinality(Ended) \in Nat /\ received \in Nat
        /\ received + Cardinality(signals) = Cardinality(Ended) /\ signals \subseteq Ended
    BY <2>2, FS_CardinalityType DEF TypeInv, RunInv
  <2>4. CASE received = Awaited
    <3>1. UNCHANGED <<signals, received>>
      BY <1>6, <2>4 DEF waitFinished
    <3>2. IsFiniteSet(connMap) /\ Cardinality(connMap) \in Nat
      BY FS_CardinalityType DEF TypeInv
    <3>3. Cardinality(Ended) <= Cardinality(connMap) /\ (Cardinality(connMap) = Cardinality(Ended) => connMap = Ended)
      BY <2>2, <3>2, FS_Subset
    <3>4. connMap = Ended
      BY <2>3, <2>4, <3>2, <3>3 DEF Awaited
    <3> QED
      BY <2>1, <3>1, <3>4 DEF RunInv
  <2>5. CASE received # Awaited
    <3>1. PICK id \in signals : signals' = signals \ {id}
      BY <1>6, <2>5 DEF waitFinished
    <3>2. received' = received + 1 /\ pc' = "wait"
      BY <1>6, <2>5 DEF waitFinished
    <3>3. Cardinality(signals') = Cardinality(signals) - 1
      BY <2>2, <3>1, FS_RemoveElement
    <3>4. signals' \subseteq Ended' /\ received' + Cardinality(signals') = Cardinality(Ended')
      BY <2>1, <2>3, <3>1, <3>2, <3>3
    <3> QED
      BY <2>1, <3>2, <3>4 DEF RunInv
  <2> QED
    BY <2>4, <2>5
<1>7. CASE exit
  BY <1>7 DEF exit, RunInv, Ended
<1> QED
  BY <1>1, <1>2, <1>3, <1>4, <1>5, <1>6, <1>7 DEF MainStep

LEMMA RunRest ==
  ASSUME TypeInv, RunInv, PushStep \/ \E id \in IDs : CopyStep(id) \/ Read(id) \/ End(id) \/ Lost(id) \/ Printer(id)
  PROVE  RunInv'
<1>1. ASSUME NEW id \in IDs, End(id) \/ Lost(id)
      PROVE  RunInv'
  <2>1. session[id] = "running" /\ Returned(id)
    BY <1>1 DEF End, Lost
  <2>2. /\ UNCHANGED <<connMap, ran, received>> /\ (pc' \in {"sleep", "over"} => pc' = pc)
        /\ session' = [session EXCEPT ![id] = "done"] /\ signals' = signals \cup {id}
    BY <2>1 DEF Returned
  <2>3. \A e \in IDs : session'[e] = IF e = id THEN "done" ELSE session[e]
    BY <2>2 DEF TypeInv
  <2>4. signals' \subseteq Ended' /\ received' + Cardinality(signals') = Cardinality(Ended')
    BY <2>1, <2>2, SignalCounted
  <2>5. Ended \subseteq Ended'
    BY <2>3 DEF Ended
  <2>6. \A e \in IDs : ran'[e] = IF session'[e] \in {"running", "done"} THEN 1 ELSE 0
    BY <2>1, <2>2, <2>3 DEF RunInv
  <2>7. \A e \in IDs : session'[e] # "none" => e \in connMap'
    BY <2>1, <2>2, <2>3 DEF RunInv
  <2> QED
    BY <2>2, <2>4, <2>5, <2>6, <2>7 DEF RunInv
<1>2. ASSUME UNCHANGED <<mode, main>>
      PROVE  RunInv'
  BY <1>2 DEF RunInv, Ended, main
<1>3. ASSUME NEW id \in IDs, CopyStep(id) \/ Read(id) \/ Printer(id)
      PROVE  UNCHANGED <<mode, main>>
  BY <1>3 DEF CopyStep, CopyRead, CopyWrite, CopyEnd, Read, Printer
<1>4. PushStep => UNCHANGED <<mode, main>>
  BY DEF PushStep, PushRead, PushWrite, PushWritten, PushEnd, PushClose
<1> QED
  BY <1>1, <1>2, <1>3, <1>4

-----------------------------------------------------------------------------
(* Standard input. *)

InputInv == QuietInv /\ PushInv /\ SentInv

LEMMA SentType ==
  ASSUME TypeInv, NEW id \in IDs
  PROVE  Sent(id) \in Seq(Nat) /\ Len(Sent(id)) \in Nat /\ DOMAIN Sent(id) = 1..Len(Sent(id))
<1>1. Sent(id) \in Seq(Nat)
  BY ConcatProperties DEF TypeInv, Sent
<1> QED
  BY <1>1, LenProperties

(* A piece goes to one session.                                            *)
LEMMA SentOne ==
  ASSUME TypeInv, NEW id \in IDs, NEW x \in Nat, got' = got, inbox' = [inbox EXCEPT ![id] = Append(@, x)]
  PROVE  /\ Len(Sent(id)') = Len(Sent(id)) + 1
         /\ \A i \in DOMAIN Sent(id) : Sent(id)'[i] = Sent(id)[i]
         /\ Sent(id)'[Len(Sent(id)) + 1] = x
         /\ DOMAIN Sent(id)' = 1..(Len(Sent(id)) + 1)
         /\ Unbroken(Sent(id)) /\ x = Len(Sent(id)) + 1 => Unbroken(Sent(id)')
         /\ Rising(Sent(id)) /\ (\A i \in DOMAIN Sent(id) : Sent(id)[i] < x) => Rising(Sent(id)')
         /\ \A e \in IDs : e # id => Sent(e)' = Sent(e)
<1> DEFINE s == Sent(id)
           t == Sent(id)'
           n == Len(s)
<1>1. t = got[id] \o Append(inbox[id], x) /\ s = got[id] \o inbox[id]
  BY DEF Sent, TypeInv
<1>2. got[id] \in Seq(Nat) /\ inbox[id] \in Seq(Nat)
  BY DEF TypeInv
<1>3. t \in Seq(Nat) /\ Len(t) = n + 1 /\ (\A i \in 1..n : t[i] = s[i]) /\ t[n + 1] = x
  <2> DEFINE g == got[id]
             b == inbox[id]
  <2>1. g \in Seq(Nat) /\ b \in Seq(Nat) /\ t = g \o Append(b, x) /\ s = g \o b
    BY <1>1, <1>2
  <2> HIDE DEF g, b, s, t
  <2>2. /\ g \o Append(b, x) \in Seq(Nat)
        /\ Len(g \o Append(b, x)) = Len(g \o b) + 1
        /\ \A i \in 1..Len(g \o b) : (g \o Append(b, x))[i] = (g \o b)[i]
        /\ (g \o Append(b, x))[Len(g \o b) + 1] = x
    BY <2>1, SentAppend
  <2> QED
    BY <2>1, <2>2
<1>4. n \in Nat /\ DOMAIN s = 1..n /\ DOMAIN t = 1..(n + 1) /\ s \in Seq(Nat)
  <2>1. Len(t) \in Nat /\ DOMAIN t = 1..Len(t)
    BY <1>3, LenProperties
  <2> QED
    BY <1>3, <2>1, SentType
<1>5. \A e \in IDs : e # id => Sent(e)' = Sent(e)
  BY DEF Sent, TypeInv
<1>6. \A i \in 1..n : s[i] \in Nat
  BY <1>4, ElementOfSeq
<1> HIDE DEF s, t, n
<1>7. \A i \in 1..(n + 1) : i \in 1..n \/ i = n + 1
  BY <1>4
<1>8. Unbroken(s) /\ x = n + 1 => Unbroken(t)
  BY <1>3, <1>4, <1>7 DEF Unbroken
<1>9. ASSUME Rising(s), \A i \in 1..n : s[i] < x, NEW i \in 1..(n + 1), NEW j \in 1..(n + 1), i < j
      PROVE  t[i] < t[j]
  <2>1. i \in 1..n
    BY <1>4, <1>9
  <2>2. CASE j \in 1..n
    <3>1. s[i] < s[j]
      BY <1>4, <1>9, <2>1, <2>2 DEF Rising
    <3> QED
      BY <1>3, <2>1, <2>2, <3>1
  <2>3. CASE j = n + 1
    <3>1. s[i] < x
      BY <1>9, <2>1
    <3> QED
      BY <1>3, <2>1, <2>3, <3>1
  <2> QED
    BY <1>7, <2>2, <2>3
<1>10. Rising(s) /\ (\A i \in DOMAIN s : s[i] < x) => Rising(t)
  BY <1>4, <1>9 DEF Rising
<1> QED
  BY <1>3, <1>4, <1>5, <1>8, <1>10 DEF s, t, n

(* The steps that leave standard input, or the sessions that live, alone.  *)
LEMMA InputMain ==
  ASSUME TypeInv, OrderInv, RunInv, InputInv, MainStep
  PROVE  InputInv'
<1> USE BoundsAssumption DEF Before, After
<1>1. mode' = mode /\ Pushed' = Pushed /\ Given' = Given /\ (Given => ~Pushed) /\ push' \in [doing : {"off", "read", "write", "close"}, piece : Nat, left : Seq(IDs)] /\ got' = got
  <2>1. mode' = mode /\ got' = got
    BY DEF MainStep, createConnMap, createWriter, startInput, runCommand, feed, waitFinished, exit
  <2>2. push \in [doing : {"off", "read", "write", "close"}, piece : Nat, left : Seq(IDs)]
    <3>1. push.left \in Seq(IDs)
      BY SeqMonotonic DEF TypeInv
    <3> QED
      BY <3>1 DEF TypeInv
  <2>3. push' = push \/ push' = [push EXCEPT !.doing = "read"]
    BY DEF MainStep, createConnMap, createWriter, startInput, runCommand, feed, waitFinished, exit, input
  <2> QED
    BY <2>1, <2>2, <2>3 DEF Pushed, Given, Multi
<1>2. CASE createConnMap
  <2>1. UNCHANGED <<session, writers, ran, input, got>> /\ pc = "connect" /\ pc' \in {"connect", "create"}
    BY <1>2 DEF createConnMap
  <2>2. pc' = "create" => connMap' = connMap /\ ToSet(todo') = connMap
    BY <1>2, OrderFacts DEF createConnMap, TypeInv
  <2>3. push.doing = "off" /\ next = 1
        /\ \A id \in IDs : copier[id] = Off /\ inbox[id] = <<>> /\ got[id] = <<>> /\ ~closed[id]
    BY <2>1 DEF InputInv, QuietInv
  <2>4. \A id \in IDs : Sent(id)' = Sent(id)
    BY <2>1 DEF Sent, input
  <2>5. QuietInv'
    BY <2>1, <2>3 DEF QuietInv, input, Off
  <2>6. Pushed => writers = <<>>
    BY <2>1 DEF InputInv, PushInv
  <2>7. ToSet(<<>>) = {} /\ Distinct(<<>>)
    BY DEF ToSet, Distinct
  <2>8. \A id \in IDs : session[id] = "none"
    BY <2>1 DEF OrderInv
  <2>9. PushInv'
    BY <1>1, <2>1, <2>2, <2>3, <2>6, <2>7, <2>8 DEF PushInv, InputInv, input
  <2>10. SentInv'
    BY <1>1, <2>1, <2>3, <2>4 DEF SentInv, InputInv, input, Off
  <2> QED
    BY <2>5, <2>9, <2>10 DEF InputInv
<1>3. CASE createWriter
  <2> DEFINE h == Head(todo)
  <2>1. pc = "create" /\ todo \in Seq(connMap) /\ todo # <<>> /\ todo' = Tail(todo) /\ Distinct(todo)
    BY <1>3 DEF createWriter, TypeInv, OrderInv
  <2>2. h \in connMap /\ h \in ToSet(todo) /\ ToSet(todo') = ToSet(todo) \ {h}
    BY <2>1, TailFacts
  <2>3. /\ UNCHANGED <<connMap, ran, input, got>> /\ pc' \in {"create", "panic"}
        /\ \E v \in {"ready", "nil"} : session' = [session EXCEPT ![h] = v] /\ (Pushed /\ v = "nil" => pc' = "panic")
        /\ Pushed => writers' = Append(writers, h)
    BY <1>3, <2>1 DEF createWriter
  <2>4. push.doing = "off" /\ next = 1
        /\ \A id \in IDs : copier[id] = Off /\ inbox[id] = <<>> /\ got[id] = <<>> /\ ~closed[id]
    BY <2>1 DEF InputInv, QuietInv
  <2>5. \A id \in IDs : Sent(id)' = Sent(id)
    BY <2>3 DEF Sent, input
  <2>6. QuietInv'
    BY <2>3, <2>4 DEF QuietInv, input, Off
  <2> HIDE DEF h
  <2>7. Pushed => h \notin ToSet(writers)
    BY <2>1, <2>2 DEF InputInv, PushInv
  <2>8. ToSet(Append(writers, h)) = ToSet(writers) \cup {h} /\ (Distinct(writers) /\ h \notin ToSet(writers) => Distinct(Append(writers, h)))
    BY <2>2, AppendFacts DEF TypeInv
  <2>9. Pushed /\ pc' # "panic" => Distinct(writers)' /\ \A id \in IDs : session'[id] # "nil"
    BY <2>1, <2>3, <2>7, <2>8 DEF InputInv, PushInv, TypeInv
  <2>10. Pushed => \A id \in connMap : id \in ToSet(todo') <=> id \notin ToSet(writers')
    BY <2>1, <2>2, <2>3, <2>8 DEF InputInv, PushInv
  <2>11. PushInv'
    BY <1>1, <2>3, <2>4, <2>9, <2>10 DEF PushInv, input
  <2>12. SentInv'
    BY <1>1, <2>3, <2>4, <2>5 DEF SentInv, InputInv, input, Off
  <2> QED
    BY <2>6, <2>11, <2>12 DEF InputInv
<1>4. CASE startInput
  <2>1. /\ pc = "create" /\ pc' = "run" /\ todo = <<>>
        /\ UNCHANGED <<connMap, session, writers, ran, copier, inbox, closed, got>>
        /\ push' = (IF Pushed THEN [push EXCEPT !.doing = "read"] ELSE push)
        /\ next' = (IF Given THEN Chunks + 1 ELSE next)
    BY <1>4 DEF startInput
  <2>2. push.doing = "off" /\ next = 1
        /\ \A id \in IDs : copier[id] = Off /\ inbox[id] = <<>> /\ got[id] = <<>> /\ ~closed[id]
    BY <2>1 DEF InputInv, QuietInv
  <2>3. \A id \in IDs : Sent(id)' = Sent(id) /\ Sent(id) = <<>>
    BY <2>1, <2>2, ConcatEmptySeq, EmptySeq DEF Sent
  <2>4. ToSet(todo) = {}
    BY <2>1 DEF ToSet
  <2>5. Pushed => connMap \subseteq ToSet(writers) /\ Distinct(writers) /\ \A id \in IDs : session[id] # "nil"
    BY <2>1, <2>4 DEF InputInv, PushInv
  <2>6. push'.doing = IF Pushed THEN "read" ELSE "off"
    BY <2>1, <2>2 DEF TypeInv
  <2>7. Len(<<>>) = 0 /\ DOMAIN <<>> = {}
    BY EmptySeq
  <2>8. Pushed => next' = 1
    BY <1>1, <2>1, <2>2
  <2>9. connMap \subseteq IDs
    BY DEF TypeInv
  <2>10. PushInv'
    BY <1>1, <2>1, <2>2, <2>3, <2>5, <2>6, <2>7, <2>8, <2>9 DEF PushInv
  <2>11. SentInv'
    BY <1>1, <2>1, <2>2, <2>3, <2>7 DEF SentInv, Unbroken, Rising, Off
  <2> QED
    BY <2>1, <2>10, <2>11 DEF InputInv, QuietInv
<1>5. CASE runCommand
  <2> DEFINE h == Head(todo)
  <2>1. pc = "run" /\ todo \in Seq(connMap) /\ todo # <<>>
    BY <1>5 DEF runCommand, TypeInv
  <2>2. h \in connMap /\ h \in ToSet(todo)
    BY <2>1, TailFacts DEF OrderInv
  <2>3. UNCHANGED <<connMap, writers, push, next, inbox, closed>> /\ pc' \in {"run", "feed", "runs", "panic"} /\ (Pushed => pc' # "panic")
    BY <1>1, <1>5, <2>1 DEF runCommand
  <2>4. \/ UNCHANGED <<session, ran, copier>>
        \/ /\ session' = [session EXCEPT ![h] = "running"]
           /\ ran' = [ran EXCEPT ![h] = @ + 1]
           /\ copier' = IF Pushed \/ Given THEN copier ELSE [copier EXCEPT ![h].on = TRUE]
        \/ /\ session[h] = "nil"
           /\ session' = [session EXCEPT ![h] = "done"]
           /\ ran' = [ran EXCEPT ![h] = @ + 1]
           /\ copier' = copier
    BY <1>5 DEF runCommand, Started, NotStarted
  <2> HIDE DEF h
  <2>5. h \in IDs /\ session[h] \in {"ready", "nil"} /\ ran[h] = 0
    BY <2>1, <2>2 DEF OrderInv, TypeInv, RunInv
  <2>6. \A id \in IDs : Sent(id)' = Sent(id)
    BY <1>1, <2>3 DEF Sent
  <2>7. \A id \in IDs : id # h => session'[id] = session[id] /\ ran'[id] = ran[id]
    BY <2>4, <2>5 DEF TypeInv
  <2>8. \A id \in IDs : ran'[id] = ran[id] \/ ran'[id] = 1
    BY <2>4, <2>5, <2>7 DEF TypeInv
  <2>9. ASSUME Pushed
        PROVE  \A id \in IDs : session'[id] # "nil" /\ Live(id)' = Live(id)
    <3>1. session[h] = "ready"
      BY <2>1, <2>5, <2>9 DEF InputInv, PushInv
    <3>2. session'[h] \in {"ready", "running"}
      BY <2>4, <2>5, <3>1 DEF TypeInv
    <3> QED
      BY <2>1, <2>5, <2>7, <2>9, <3>1, <3>2 DEF InputInv, PushInv, Live
  <2>10. Given => ~closed[h]
    BY <2>5 DEF InputInv, SentInv
  <2>11. \A id \in IDs : copier'[id].piece = copier[id].piece /\ (Pushed \/ Given => copier'[id] = copier[id])
    <3>1. CASE copier' = copier
      BY <3>1
    <3>2. CASE ~(Pushed \/ Given) /\ copier' = [copier EXCEPT ![h].on = TRUE]
      BY <2>5, <3>2 DEF TypeInv
    <3> QED
      BY <2>4, <3>1, <3>2
  <2>12. PushInv'
    <3>1. connMap \subseteq IDs
      BY DEF TypeInv
    <3>2. CASE Pushed
      BY <1>1, <2>1, <2>3, <2>6, <2>9, <3>1, <3>2 DEF InputInv, PushInv
    <3>3. CASE ~Pushed
      BY <1>1, <2>3, <3>3 DEF InputInv, PushInv
    <3> QED
      BY <3>2, <3>3
  <2>13. SentInv'
    <3>1. CASE Pushed
      BY <1>1, <2>3, <2>6, <2>9, <2>11, <3>1 DEF InputInv, SentInv, Off
    <3>2. CASE Given
      <4>1. \A id \in IDs : closed'[id] => id # h /\ session'[id] = session[id] /\ ran'[id] = ran[id]
        BY <2>3, <2>7, <2>10, <3>2
      <4> QED
        BY <1>1, <2>3, <2>6, <2>11, <3>2, <4>1 DEF InputInv, SentInv, Off, Live
    <3>3. CASE ~(Pushed \/ Given)
      BY <1>1, <2>3, <2>6, <2>11, <3>3 DEF InputInv, SentInv
    <3> QED
      BY <3>1, <3>2, <3>3
  <2> QED
    BY <2>3, <2>12, <2>13 DEF InputInv, QuietInv
<1>6. CASE feed
  <2> DEFINE n == Len(got[at]) + Len(inbox[at])
  <2>1. Given /\ at \in IDs /\ ran[at] = 1 /\ ~Pushed /\ pc = "feed" /\ pc' \in {"feed", "run"}
    BY <1>1, <1>6 DEF feed, OrderInv, RunInv
  <2>2. UNCHANGED <<push, next, session, ran, copier>>
    BY <1>6 DEF feed
  <2>3. PushInv' /\ QuietInv'
    BY <1>1, <2>1, <2>2 DEF InputInv, PushInv, QuietInv
  <2> PICK a \in IDs : a = at
    BY <2>1
  <2>4. n = Len(Sent(a)) /\ n \in Nat
    BY <2>1, ConcatProperties, SentType DEF Sent, TypeInv
  <2>5. CASE Live(a) /\ n < Chunks /\ inbox' = [inbox EXCEPT ![a] = Append(@, n + 1)] /\ closed' = closed
    <3>1. n + 1 \in Nat
      <4> HIDE DEF n
      <4> QED
        BY <2>4
    <3>2. /\ Len(Sent(a)') = n + 1
          /\ Unbroken(Sent(a)) => Unbroken(Sent(a)')
          /\ \A e \in IDs : e # a => Sent(e)' = Sent(e)
      <4> HIDE DEF n
      <4> QED
        BY <1>1, <2>1, <2>4, <2>5, <3>1, SentOne
    <3> HIDE DEF n
    <3>3. ~closed[a]
      BY <2>1, <2>4, <2>5 DEF InputInv, SentInv
    <3>4. ASSUME NEW e \in IDs
          PROVE  Unbroken(Sent(e)') /\ copier'[e] = Off /\ (closed'[e] /\ Live(e)' => Len(Sent(e)') = Chunks)
      <4>1. CASE e = a
        BY <2>1, <2>2, <2>5, <3>2, <3>3, <4>1 DEF InputInv, SentInv
      <4>2. CASE e # a
        BY <2>1, <2>2, <2>5, <3>2, <4>2 DEF InputInv, SentInv, Live
      <4> QED
        BY <4>1, <4>2
    <3>5. \A e \in IDs : closed'[e] => ran'[e] = 1
      BY <2>1, <2>2, <2>5 DEF InputInv, SentInv
    <3>6. SentInv'
      BY <1>1, <2>1, <3>4, <3>5 DEF SentInv, Off
    <3> QED
      BY <2>3, <3>6 DEF InputInv
  <2>6. CASE (n = Chunks \/ ~Live(a)) /\ inbox' = inbox /\ closed' = [closed EXCEPT ![a] = TRUE]
    <3> HIDE DEF n
    <3>1. \A e \in IDs : Sent(e)' = Sent(e)
      BY <1>1, <2>6 DEF Sent
    <3>2. \A e \in IDs : e # a => closed'[e] = closed[e]
      BY <2>6 DEF TypeInv
    <3>3. ASSUME NEW e \in IDs
          PROVE  Unbroken(Sent(e)') /\ copier'[e] = Off /\ (closed'[e] /\ Live(e)' => Len(Sent(e)') = Chunks)
      <4>1. CASE e = a
        BY <2>1, <2>2, <2>4, <2>6, <3>1, <4>1 DEF InputInv, SentInv, Live
      <4>2. CASE e # a
        BY <2>1, <2>2, <3>1, <3>2, <4>2 DEF InputInv, SentInv, Live
      <4> QED
        BY <4>1, <4>2
    <3>4. \A e \in IDs : closed'[e] => ran'[e] = 1
      BY <2>1, <2>2, <3>2 DEF InputInv, SentInv
    <3>5. SentInv'
      BY <1>1, <2>1, <3>3, <3>4 DEF SentInv, Off
    <3> QED
      BY <2>3, <3>5 DEF InputInv
  <2> QED
    BY <1>6, <2>5, <2>6 DEF feed, Close
<1>7. CASE waitFinished \/ exit
  <2>1. UNCHANGED <<connMap, session, writers, ran, input, got>> /\ pc \in {"run", "wait", "sleep"} /\ pc' \in {"wait", "sleep", "over"}
    BY <1>7 DEF waitFinished, exit
  <2>2. \A id \in IDs : Sent(id)' = Sent(id) /\ Live(id)' = Live(id)
    BY <2>1 DEF Sent, Live, input
  <2>3. connMap \subseteq IDs
    BY DEF TypeInv
  <2>4. PushInv'
    BY <1>1, <2>1, <2>2, <2>3 DEF InputInv, PushInv, input
  <2>5. SentInv'
    BY <1>1, <2>1, <2>2 DEF InputInv, SentInv, input, Off
  <2> QED
    BY <2>1, <2>4, <2>5 DEF InputInv, QuietInv
<1> QED
  BY <1>2, <1>3, <1>4, <1>5, <1>6, <1>7 DEF MainStep

(* The pushing goroutine: it is there only when input is pushed.           *)
LEMMA InputPush ==
  ASSUME TypeInv, OrderInv, RunInv, InputInv, pc # "panic", PushStep
  PROVE  InputInv'
<1> USE BoundsAssumption DEF Before, After
<1>1. UNCHANGED <<mode, main, copier, got>> /\ Pushed' = Pushed /\ Given' = Given
  <2>1. UNCHANGED <<mode, main, copier, got>>
    BY DEF PushStep, PushRead, PushWrite, PushWritten, PushEnd, PushClose
  <2> QED
    BY <2>1 DEF Pushed, Given, Multi
<1>2. push.doing # "off"
  BY DEF PushStep, PushRead, PushWrite, PushWritten, PushEnd, PushClose
<1>3. Pushed /\ pc \in After /\ ~Given
  BY <1>2 DEF InputInv, PushInv, QuietInv, TypeInv, Pushed, Given
<1>4. /\ push \in [doing : {"off", "read", "write", "close"}, piece : Nat, left : Seq(connMap)]
      /\ next \in Nat /\ 0 < next /\ next <= Chunks + 1 /\ connMap \subseteq IDs
      /\ connMap \subseteq ToSet(writers) /\ Distinct(writers) /\ (\A id \in IDs : session[id] # "nil")
      /\ \A id \in IDs : ~closed[id]
  BY <1>2, <1>3 DEF InputInv, PushInv, TypeInv
<1>5. /\ connMap' = connMap /\ writers' = writers /\ session' = session /\ pc' = pc /\ ran' = ran
      /\ \A id \in IDs : Live(id)' = Live(id)
  BY <1>1 DEF main, Live
<1>6. /\ push.doing = "read" => \A id \in connMap : Live(id) => Len(Sent(id)) = next - 1
      /\ push.doing = "write" =>
            /\ push.piece = next - 1 /\ push.piece > 0
            /\ Distinct(push.left)
            /\ \A id \in connMap : Live(id) =>
                 Len(Sent(id)) = IF id \in ToSet(push.left) THEN push.piece - 1 ELSE push.piece
      /\ push.doing = "close" => \A id \in connMap : Live(id) => Len(Sent(id)) = Chunks
  BY <1>3 DEF InputInv, PushInv
<1>7. \A id \in IDs : Unbroken(Sent(id)) /\ copier[id] = Off
  BY <1>3 DEF InputInv, SentInv
<1>8. QuietInv'
  BY <1>3, <1>5 DEF QuietInv
(* What a step of it has to show. *)
<1>9. ASSUME 0 < next', next' <= Chunks + 1,
             push'.doing # "off" => \A id \in IDs : ~closed'[id],
             \A id \in IDs : Unbroken(Sent(id)') /\ (closed'[id] /\ Live(id) => Len(Sent(id)') = Chunks),
             push'.doing = "read" => \A id \in connMap : Live(id) => Len(Sent(id)') = next' - 1,
             push'.doing = "write" =>
                  /\ push'.piece = next' - 1 /\ push'.piece > 0
                  /\ Distinct(push'.left)
                  /\ \A id \in connMap : Live(id) =>
                       Len(Sent(id)') = IF id \in ToSet(push'.left) THEN push'.piece - 1 ELSE push'.piece,
             push'.doing = "close" => \A id \in connMap : Live(id) => Len(Sent(id)') = Chunks
      PROVE  InputInv'
  <2>1. PushInv'
    BY <1>1, <1>3, <1>4, <1>5, <1>9 DEF PushInv
  <2>2. SentInv'
    BY <1>1, <1>3, <1>5, <1>7, <1>9 DEF SentInv, Off
  <2> QED
    BY <1>8, <2>1, <2>2 DEF InputInv
<1>10. ASSUME inbox' = inbox
       PROVE  \A id \in IDs : Sent(id)' = Sent(id)
  BY <1>1, <1>10 DEF Sent
<1>11. CASE PushRead
  <2>1. /\ push.doing = "read" /\ next <= Chunks /\ next' = next + 1 /\ inbox' = inbox /\ closed' = closed
        /\ push' = [doing |-> "write", piece |-> next, left |-> writers]
    BY <1>11 DEF PushRead
  <2>2. push'.doing = "write" /\ push'.piece = next /\ push'.left = writers
    BY <2>1
  <2>3. \A id \in IDs : Sent(id)' = Sent(id)
    BY <1>10, <2>1
  <2>4. \A id \in connMap : Live(id) => Len(Sent(id)') = next - 1 /\ id \in ToSet(writers)
    BY <1>4, <1>6, <2>1, <2>3
  <2> QED
    BY <1>4, <1>7, <1>9, <2>1, <2>2, <2>3, <2>4
<1>12. CASE PushWrite
  <2>1. /\ push.doing = "write" /\ push.left # <<>> /\ push.left \in Seq(connMap) /\ push.piece \in Nat
        /\ push' = [push EXCEPT !.left = Tail(@)] /\ next' = next /\ closed' = closed
    BY <1>4, <1>12 DEF PushWrite
  <2>2. push.piece = next - 1 /\ push.piece > 0 /\ Distinct(push.left)
    BY <1>6, <2>1
  <2>3. /\ Head(push.left) \in connMap /\ Head(push.left) \in ToSet(push.left) /\ Distinct(Tail(push.left))
        /\ ToSet(Tail(push.left)) = ToSet(push.left) \ {Head(push.left)}
    BY <2>1, <2>2, TailFacts
  <2>4. push'.doing = "write" /\ push'.piece = push.piece /\ push'.left = Tail(push.left)
    BY <1>4, <2>1
  <2> PICK h \in connMap : h = Head(push.left)
    BY <2>3
  <2> PICK x \in Nat : x = push.piece
    BY <2>1
  <2>5. inbox' = IF Live(h) THEN [inbox EXCEPT ![h] = Append(@, x)] ELSE inbox
    BY <1>12 DEF PushWrite
  <2>6. h \in IDs /\ got' = got
    BY <1>1, <1>4
  <2>7. Live(h) => /\ Len(Sent(h)') = x
                   /\ Unbroken(Sent(h)')
                   /\ \A e \in IDs : e # h => Sent(e)' = Sent(e)
    <3> SUFFICES ASSUME Live(h)
                 PROVE  /\ Len(Sent(h)') = x
                        /\ Unbroken(Sent(h)')
                        /\ \A e \in IDs : e # h => Sent(e)' = Sent(e)
      OBVIOUS
    <3>1. Len(Sent(h)) = x - 1
      BY <1>6, <2>1, <2>3
    <3>2. x = Len(Sent(h)) + 1
      BY <2>6, <3>1, SentType
    <3>3. inbox' = [inbox EXCEPT ![h] = Append(@, x)]
      BY <2>5
    <3>4. Unbroken(Sent(h))
      BY <1>7, <2>6
    <3> QED
      BY <2>6, <3>2, <3>3, <3>4, SentOne
  <2>8. ~Live(h) => \A e \in IDs : Sent(e)' = Sent(e)
    BY <1>10, <2>5
  <2>9. \A e \in IDs : Unbroken(Sent(e)')
    BY <1>7, <2>7, <2>8
  <2>10. \A e \in connMap : Live(e) => Len(Sent(e)') = IF e \in ToSet(push'.left) THEN x - 1 ELSE x
    BY <1>4, <1>6, <2>1, <2>3, <2>4, <2>7, <2>8
  <2> QED
    BY <1>4, <1>9, <2>1, <2>2, <2>3, <2>4, <2>9, <2>10
<1>13. CASE PushWritten
  <2>1. /\ push.doing = "write" /\ push.left = <<>> /\ next' = next /\ inbox' = inbox /\ closed' = closed
        /\ push' = [push EXCEPT !.doing = IF ~mode.piped /\ ExitInput THEN "close" ELSE "read"]
    BY <1>13 DEF PushWritten
  <2>2. \A id \in IDs : Sent(id)' = Sent(id)
    BY <1>10, <2>1
  <2>3. ToSet(push.left) = {}
    BY <2>1 DEF ToSet
  <2>4. \A id \in connMap : Live(id) => Len(Sent(id)) = next - 1
    BY <1>6, <2>1, <2>3
  <2>5. CASE ~mode.piped /\ ExitInput
    <3>1. \A id \in connMap : ~Live(id)
      BY <2>5 DEF ExitInput, RunInv, Ended, Live
    <3>2. push'.doing = "close"
      BY <1>4, <2>1, <2>5
    <3> QED
      BY <1>4, <1>7, <1>9, <2>1, <2>2, <3>1, <3>2
  <2>6. CASE ~(~mode.piped /\ ExitInput)
    <3>1. push'.doing = "read"
      BY <1>4, <2>1, <2>6
    <3> QED
      BY <1>4, <1>7, <1>9, <2>1, <2>2, <2>4, <3>1
  <2> QED
    BY <2>5, <2>6
<1>14. CASE PushEnd
  <2>1. /\ push.doing = "read" /\ next > Chunks /\ next' = next /\ inbox' = inbox /\ closed' = closed
        /\ push' = [push EXCEPT !.doing = "close"]
    BY <1>14 DEF PushEnd
  <2>2. \A id \in IDs : Sent(id)' = Sent(id)
    BY <1>10, <2>1
  <2>3. push'.doing = "close" /\ next - 1 = Chunks
    BY <1>4, <2>1
  <2> QED
    BY <1>4, <1>6, <1>7, <1>9, <2>1, <2>2, <2>3
<1>15. CASE PushClose
  <2>1. /\ push.doing = "close" /\ next' = next /\ inbox' = inbox
        /\ push' = [push EXCEPT !.doing = "off"]
    BY <1>15 DEF PushClose
  <2>2. \A id \in IDs : Sent(id)' = Sent(id)
    BY <1>10, <2>1
  <2>3. push'.doing = "off"
    BY <1>4, <2>1
  <2>4. \A id \in IDs : Live(id) => id \in connMap
    BY DEF RunInv, Live
  <2> QED
    BY <1>4, <1>6, <1>7, <1>9, <2>1, <2>2, <2>3, <2>4
<1> QED
  BY <1>11, <1>12, <1>13, <1>14, <1>15 DEF PushStep

(* A copier of the ssh library's is there only when input is neither       *)
(* pushed nor given.                                                       *)
LEMMA InputCopy ==
  ASSUME TypeInv, InputInv, NEW id \in IDs, CopyStep(id)
  PROVE  InputInv'
<1> USE BoundsAssumption DEF Before, After
<1>1. UNCHANGED <<mode, main, push, got>> /\ Pushed' = Pushed /\ Given' = Given
  <2>1. UNCHANGED <<mode, main, push, got>>
    BY DEF CopyStep, CopyRead, CopyWrite, CopyEnd
  <2> QED
    BY <2>1 DEF Pushed, Given, Multi
<1>2. copier[id].on
  BY DEF CopyStep, CopyRead, CopyWrite, CopyEnd
<1>3. ~(Pushed \/ Given) /\ pc \notin Before
  BY <1>2 DEF InputInv, SentInv, QuietInv, Off
<1>4. QuietInv' /\ PushInv'
  BY <1>1, <1>3 DEF QuietInv, PushInv, InputInv, main
<1>5. /\ copier \in [IDs -> [on : BOOLEAN, piece : Nat]] /\ next \in Nat
      /\ \A e \in IDs : /\ Rising(Sent(e))
                        /\ copier[e].piece # 0 => copier[e].piece < next
                        /\ \A i \in DOMAIN Sent(e) : Sent(e)[i] < IF copier[e].piece # 0 THEN copier[e].piece ELSE next
  BY <1>3 DEF TypeInv, InputInv, SentInv
<1>6. \A e \in IDs : Sent(e) \in Seq(Nat) /\ \A i \in DOMAIN Sent(e) : Sent(e)[i] \in Nat
  BY SentType, ElementOfSeq
<1>7. ASSUME \A e \in IDs : /\ Rising(Sent(e)')
                            /\ copier'[e].piece # 0 => copier'[e].piece < next'
                            /\ \A i \in DOMAIN Sent(e)' : Sent(e)'[i] < IF copier'[e].piece # 0 THEN copier'[e].piece ELSE next'
      PROVE  InputInv'
  BY <1>1, <1>3, <1>4, <1>7 DEF InputInv, SentInv
<1>8. ASSUME inbox' = inbox
      PROVE  \A e \in IDs : Sent(e)' = Sent(e)
  BY <1>1, <1>8 DEF Sent
<1>9. CASE CopyRead(id)
  <2>1. /\ copier[id].piece = 0 /\ next' = next + 1 /\ inbox' = inbox
        /\ copier' = [copier EXCEPT ![id].piece = next]
    BY <1>9 DEF CopyRead
  <2>2. \A e \in IDs : Sent(e)' = Sent(e)
    BY <1>8, <2>1
  <2>3. copier'[id].piece = next /\ \A e \in IDs : e # id => copier'[e].piece = copier[e].piece
    BY <1>5, <2>1
  <2>4. ASSUME NEW e \in IDs
        PROVE  /\ Rising(Sent(e)')
               /\ copier'[e].piece # 0 => copier'[e].piece < next'
               /\ \A i \in DOMAIN Sent(e)' : Sent(e)'[i] < IF copier'[e].piece # 0 THEN copier'[e].piece ELSE next'
    <3>1. CASE e = id
      <4>1. \A i \in DOMAIN Sent(e) : Sent(e)[i] < next /\ Sent(e)[i] < next + 1
        BY <1>5, <1>6, <2>1, <3>1
      <4>2. next < next + 1
        BY <1>5
      <4> QED
        BY <1>5, <2>1, <2>2, <2>3, <3>1, <4>1, <4>2
    <3>2. CASE e # id
      <4>1. copier'[e].piece = copier[e].piece /\ copier[e].piece \in Nat
        BY <1>5, <2>3, <3>2
      <4>2. copier[e].piece # 0 => copier[e].piece < next + 1
        BY <1>5, <4>1
      <4>3. \A i \in DOMAIN Sent(e) : Sent(e)[i] < IF copier[e].piece # 0 THEN copier[e].piece ELSE next + 1
        BY <1>5, <1>6, <4>1
      <4> QED
        BY <1>5, <2>1, <2>2, <4>1, <4>2, <4>3
    <3> QED
      BY <3>1, <3>2
  <2> QED
    BY <1>7, <2>4
<1>10. CASE CopyWrite(id)
  <2> PICK x \in Nat : x = copier[id].piece
    BY <1>5
  <2>1. x # 0 /\ next' = next /\ x < next /\ \A i \in DOMAIN Sent(id) : Sent(id)[i] < x
    BY <1>5, <1>10 DEF CopyWrite
  <2>2. \/ inbox' = [inbox EXCEPT ![id] = Append(@, x)] /\ copier' = [copier EXCEPT ![id].piece = 0]
        \/ inbox' = inbox /\ copier' = [copier EXCEPT ![id] = Off]
    BY <1>10 DEF CopyWrite
  <2>3. copier'[id].piece = 0 /\ \A e \in IDs : e # id => copier'[e].piece = copier[e].piece
    <3>1. copier' = [copier EXCEPT ![id].piece = 0] => copier'[id].piece = 0 /\ \A e \in IDs : e # id => copier'[e].piece = copier[e].piece
      BY <1>5
    <3>2. copier' = [copier EXCEPT ![id] = Off] => copier'[id].piece = 0 /\ \A e \in IDs : e # id => copier'[e].piece = copier[e].piece
      BY <1>5 DEF Off
    <3> QED
      BY <2>2, <3>1, <3>2
  <2>4. \A e \in IDs : e # id => Sent(e)' = Sent(e)
    <3>1. CASE inbox' = [inbox EXCEPT ![id] = Append(@, x)]
      BY <1>1, <3>1, SentOne
    <3>2. CASE inbox' = inbox
      BY <1>8, <3>2
    <3> QED
      BY <2>2, <3>1, <3>2
  <2>5. Rising(Sent(id)') /\ \A i \in DOMAIN Sent(id)' : Sent(id)'[i] < next
    <3>1. CASE inbox' = [inbox EXCEPT ![id] = Append(@, x)]
      <4>1. /\ Rising(Sent(id)')
            /\ \A i \in DOMAIN Sent(id) : Sent(id)'[i] = Sent(id)[i]
            /\ Sent(id)'[Len(Sent(id)) + 1] = x
            /\ DOMAIN Sent(id)' = 1..(Len(Sent(id)) + 1)
        BY <1>1, <1>5, <2>1, <3>1, SentOne
      <4>2. Len(Sent(id)) \in Nat /\ DOMAIN Sent(id) = 1..Len(Sent(id))
        BY SentType
      <4>3. \A i \in DOMAIN Sent(id)' : i \in DOMAIN Sent(id) \/ i = Len(Sent(id)) + 1
        BY <4>1, <4>2
      <4>4. \A i \in DOMAIN Sent(id) : Sent(id)[i] < next
        BY <1>5, <1>6, <2>1
      <4> QED
        BY <2>1, <4>1, <4>3, <4>4
    <3>2. CASE inbox' = inbox
      <4>1. \A i \in DOMAIN Sent(id) : Sent(id)[i] < next
        BY <1>5, <1>6, <2>1
      <4> QED
        BY <1>5, <1>8, <3>2, <4>1
    <3> QED
      BY <2>2, <3>1, <3>2
  <2>6. ASSUME NEW e \in IDs
        PROVE  /\ Rising(Sent(e)')
               /\ copier'[e].piece # 0 => copier'[e].piece < next'
               /\ \A i \in DOMAIN Sent(e)' : Sent(e)'[i] < IF copier'[e].piece # 0 THEN copier'[e].piece ELSE next'
    <3>1. CASE e = id
      BY <2>1, <2>3, <2>5, <3>1
    <3>2. CASE e # id
      BY <1>5, <2>1, <2>3, <2>4, <3>2
    <3> QED
      BY <3>1, <3>2
  <2> QED
    BY <1>7, <2>6
<1>11. CASE CopyEnd(id)
  <2>1. copier[id].piece = 0 /\ next' = next /\ inbox' = inbox /\ copier' = [copier EXCEPT ![id] = Off]
    BY <1>11 DEF CopyEnd
  <2>2. \A e \in IDs : copier'[e].piece = copier[e].piece
    BY <1>5, <2>1 DEF Off
  <2>3. \A e \in IDs : Sent(e)' = Sent(e)
    BY <1>8, <2>1
  <2> QED
    BY <1>5, <1>7, <2>1, <2>2, <2>3
<1> QED
  BY <1>9, <1>10, <1>11 DEF CopyStep

(* The commands and the printers. *)
LEMMA InputRest ==
  ASSUME TypeInv, OrderInv, RunInv, InputInv, NEW id \in IDs, Read(id) \/ End(id) \/ Lost(id) \/ Printer(id)
  PROVE  InputInv'
<1> USE DEF Before, After
<1>1. UNCHANGED <<mode, todo, connMap, writers, ran, push, next, copier, closed>> /\ Pushed' = Pushed /\ Given' = Given
  <2>1. UNCHANGED <<mode, todo, connMap, writers, ran, push, next, copier, closed>>
    BY DEF Read, End, Lost, Returned, Printer, main, input
  <2> QED
    BY <2>1 DEF Pushed, Given, Multi
<1>2. \A e \in IDs : Sent(e)' = Sent(e)
  <2>1. CASE Read(id)
    <3>1. got[id] \in Seq(Nat) /\ inbox[id] \in Seq(Nat) /\ inbox[id] # <<>>
      BY <2>1 DEF Read, TypeInv
    <3>2. Append(got[id], Head(inbox[id])) \o Tail(inbox[id]) = got[id] \o inbox[id]
      BY <3>1, SentRead
    <3>3. /\ got'[id] = Append(got[id], Head(inbox[id])) /\ inbox'[id] = Tail(inbox[id])
          /\ \A e \in IDs : e # id => got'[e] = got[e] /\ inbox'[e] = inbox[e]
      BY <2>1 DEF Read, TypeInv
    <3> QED
      BY <3>2, <3>3 DEF Sent
  <2>2. CASE ~Read(id)
    BY <2>2 DEF End, Lost, Returned, Printer, input, Sent
  <2> QED
    BY <2>1, <2>2
<1>3. /\ \A e \in IDs : Live(e)' => Live(e)
      /\ \A e \in IDs : session'[e] = "nil" => session[e] = "nil"
  <2>1. session' = session \/ session' = [session EXCEPT ![id] = "done"]
    BY DEF Read, End, Lost, Returned, Printer, main
  <2> QED
    BY <2>1 DEF Live, TypeInv
<1>4. pc' = pc \/ (pc = "runs" /\ pc' = "run")
  BY DEF Read, End, Lost, Returned, Printer, main
<1>5. pc \in Before => pc' = pc /\ UNCHANGED <<inbox, got>>
  <2>1. CASE Read(id)
    BY <1>4, <2>1 DEF Read, InputInv, QuietInv
  <2>2. CASE ~Read(id)
    BY <1>4, <2>2 DEF End, Lost, Returned, Printer, input
  <2> QED
    BY <2>1, <2>2
<1>6. pc' \in Before => pc \in Before
  BY <1>4
<1>7. QuietInv'
  BY <1>1, <1>5, <1>6 DEF InputInv, QuietInv, Off
<1>8. connMap \subseteq IDs
  BY DEF TypeInv
<1>9. PushInv'
  BY <1>1, <1>2, <1>3, <1>4, <1>8 DEF InputInv, PushInv
<1>10. SentInv'
  BY <1>1, <1>2, <1>3 DEF InputInv, SentInv, Off
<1> QED
  BY <1>7, <1>9, <1>10 DEF InputInv

-----------------------------------------------------------------------------
CmdInv == TypeInv /\ OrderInv /\ RunInv /\ InputInv

LEMMA CmdInit == Init => CmdInv
<1> SUFFICES ASSUME Init
             PROVE  CmdInv
  OBVIOUS
<1> USE BoundsAssumption DEF Before, After
<1>1. TypeInv
  BY TypeInit
<1>2. OrderInv
  BY DEF Init, OrderInv, Distinct
<1>3. Ended = {} /\ signals = {} /\ received = 0
  BY DEF Init, Ended
<1>4. RunInv
  BY <1>1, <1>3, FS_EmptySet DEF Init, RunInv, TypeInv
<1>5. QuietInv
  BY DEF Init, QuietInv, Off
<1>6. \A id \in IDs : Sent(id) = <<>>
  BY ConcatEmptySeq, EmptySeq DEF Init, Sent
<1>7. DOMAIN <<>> = {} /\ Distinct(<<>>)
  BY EmptySeq DEF Distinct
<1>8. PushInv
  BY <1>7 DEF Init, PushInv
<1>9. SentInv
  BY <1>6, <1>7 DEF Init, SentInv, Unbroken, Rising, Off
<1> QED
  BY <1>1, <1>2, <1>4, <1>5, <1>8, <1>9 DEF CmdInv, InputInv

LEMMA CmdStep ==
  ASSUME CmdInv, [Next]_vars
  PROVE  CmdInv'
<1>1. CASE pc \notin {"over", "panic"} /\ MainStep
  BY <1>1, TypeMain, OrderMain, RunMain, InputMain DEF CmdInv
<1>2. CASE pc \notin {"over", "panic"} /\ PushStep
  BY <1>2, TypeRest, OrderRest, RunRest, InputPush DEF CmdInv
<1>3. ASSUME NEW id \in IDs, CopyStep(id)
      PROVE  CmdInv'
  BY <1>3, TypeRest, OrderRest, RunRest, InputCopy DEF CmdInv
<1>4. ASSUME NEW id \in IDs, Read(id) \/ End(id) \/ Lost(id) \/ Printer(id)
      PROVE  CmdInv'
  BY <1>4, TypeRest, OrderRest, RunRest, InputRest DEF CmdInv
<1>5. CASE UNCHANGED vars
  <2>1. TypeInv' /\ OrderInv' /\ RunInv'
    BY <1>5 DEF CmdInv, vars, main, input, TypeInv, OrderInv, RunInv, Ended, Given, Multi
  <2>2. InputInv'
    BY <1>5 DEF CmdInv, vars, main, input, InputInv, QuietInv, PushInv, SentInv, Sent, Live, Pushed, Given, Multi, Off
  <2> QED
    BY <2>1, <2>2 DEF CmdInv
<1> QED
  BY <1>1, <1>2, <1>3, <1>4, <1>5 DEF Next

LEMMA CmdCorrect == Spec => []CmdInv
  BY CmdInit, CmdStep, PTL DEF Spec

(* For every selection, however servers answer, fail and end: a command is *)
(* started once on each connection, and bssh leaves when the goroutines of *)
(* all have signalled.                                                     *)
THEOREM RunsOnce == Spec => []RunOnce
<1>1. CmdInv => RunOnce
  <2> SUFFICES ASSUME CmdInv
               PROVE  RunOnce
    OBVIOUS
  <2>1. connMap \subseteq IDs /\ \A id \in IDs : session[id] \in {"none", "ready", "nil", "running", "done"}
    BY DEF CmdInv, TypeInv
  <2>2. \A id \in IDs : ran[id] <= 1 /\ (ran[id] = 1 => id \in connMap)
    BY DEF CmdInv, RunInv
  <2>3. ASSUME pc \in {"wait", "sleep", "over"}
        PROVE  \A id \in connMap : ran[id] = 1
    <3>1. ToSet(todo) = {}
      BY <2>3 DEF CmdInv, OrderInv, ToSet
    <3> QED
      BY <2>1, <2>3, <3>1 DEF CmdInv, OrderInv, RunInv, After
  <2>4. pc \in {"sleep", "over"} => \A id \in connMap : session[id] = "done"
    BY DEF CmdInv, RunInv, Ended
  <2> QED
    BY <2>2, <2>3, <2>4 DEF RunOnce
<1> QED
  BY <1>1, CmdCorrect, PTL

(* For every amount of input and every window, each session is sent the    *)
(* input from the beginning and without a gap when it is pushed or given,  *)
(* in order when it is copied, and sees its end after all of it.           *)
THEOREM InputCorrect == Spec => []InputInOrder
<1>1. CmdInv => InputInOrder
  <2> SUFFICES ASSUME CmdInv, NEW id \in IDs
               PROVE  LET sent == got[id] \o inbox[id]
                      IN /\ Pushed \/ Given => sent = [i \in 1..Len(sent) |-> i]
                         /\ \A i, j \in DOMAIN sent : i < j => sent[i] < sent[j]
                         /\ (Pushed \/ Given) /\ closed[id] /\ Live(id) => Len(sent) = Chunks
    BY DEF InputInOrder
  <2> DEFINE s == Sent(id)
  <2>1. s \in Seq(Nat) /\ Len(s) \in Nat /\ DOMAIN s = 1..Len(s) /\ s \in [1..Len(s) -> Nat]
    BY SentType, LenProperties DEF CmdInv
  <2>2. Pushed \/ Given => s = [i \in 1..Len(s) |-> i]
    <3>1. Pushed \/ Given => \A i \in 1..Len(s) : s[i] = i
      BY <2>1 DEF CmdInv, InputInv, SentInv, Unbroken
    <3> HIDE DEF s
    <3> QED
      BY <2>1, <3>1
  <2>3. \A i, j \in DOMAIN s : i < j => s[i] < s[j]
    <3>1. CASE Pushed \/ Given
      <4>1. \A i \in DOMAIN s : s[i] = i
        BY <3>1 DEF CmdInv, InputInv, SentInv, Unbroken
      <4> HIDE DEF s
      <4> QED
        BY <2>1, <4>1
    <3>2. CASE ~(Pushed \/ Given)
      BY <3>2 DEF CmdInv, InputInv, SentInv, Rising
    <3> QED
      BY <3>1, <3>2
  <2>4. (Pushed \/ Given) /\ closed[id] /\ Live(id) => Len(s) = Chunks
    BY DEF CmdInv, InputInv, SentInv
  <2> QED
    BY <2>2, <2>3, <2>4 DEF Sent
<1> QED
  BY <1>1, CmdCorrect, PTL
=============================================================================
