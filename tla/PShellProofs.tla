---------------------------- MODULE PShellProofs ----------------------------
(***************************************************************************)
(* What the parallel shell of PShell does with a line of pipelines, for    *)
(* every line, every set of servers and any number of signals:             *)
(*   StatementsOrdered  a statement begins after all commands of the one   *)
(*                      before it                                          *)
(*   PipesWhole         the end of a pipe comes after all its lines        *)
(***************************************************************************)
EXTENDS PShell, FiniteSetTheorems, SequenceTheorems, TLAPS

States == {"running", "worked", "enter", "signal", "close", "gone"}
Ends == [pending : BOOLEAN, closed : BOOLEAN]
Fill == [written : Nat, read : Nat]

(* The statements of the line, and the state of each command of the one    *)
(* that runs.                                                              *)
Listed(s) == Len(s) \in Nat /\ DOMAIN s = 1..Len(s)
LineInv ==
  /\ Listed(line) /\ k \in 1..Len(line)
  /\ \A s \in 1..Len(line) : Listed(line[s])
TypeInv ==
  /\ st \in [1..N -> States]
  /\ DOMAIN left = 1..N /\ \A i \in 1..N : left[i] \in [Workers(Current[i]) -> Nat]
  /\ DOMAIN out = 1..N
  /\ eof \in [1..N -> BOOLEAN]
  /\ pipe \in [1..N -> Ends]
  /\ fed \in [1..N -> Fill]
  /\ received \in Nat

(* wait has taken a signal of each command that it has counted.            *)
Past == {i \in 1..N : st[i] \in {"close", "gone"}}
CountInv == received <= Cardinality(Past)

(* What has been written to a pipe and not been read is the write that is  *)
(* pending.                                                                *)
FedInv ==
  \A i \in 1..N : FromPipe(i) =>
    fed[i].written = fed[i].read + (IF pipe[i - 1].pending THEN 1 ELSE 0)

(* A command that has ended has no write pending, and closes its pipe      *)
(* after that.  One that just returns does not close it, and exit ends all. *)
Ended(i) == st[i] # "running" /\ Current[i].kind # "silent"
CloseInv ==
  \A i \in 1..N :
    /\ st[i] = "close" => Remote(Current[i])
    /\ Current[i].kind = "exit" => st[i] = "running"
    /\ Ended(i) /\ Piped(i) => ~pipe[i].pending
    /\ pipe[i].closed => Ended(i)

(* Who has returned has printed all its lines, unless it was killed.       *)
LeftInv ==
  \A i \in 1..N :
    /\ ~BuiltIn(Current[i]) /\ st[i] # "running" => out[i] = {}
    /\ ~BuiltIn(Current[i]) /\ i \notin killed =>
         \A w \in Workers(Current[i]) \ out[i] : left[i][w] = 0
    /\ Current[i].kind = "show" /\ st[i] # "running" => left[i]["localhost"] = 0

RunInv == LineInv /\ TypeInv /\ CountInv /\ FedInv /\ CloseInv /\ LeftInv
PShellInv == pc = "run" => RunInv
-----------------------------------------------------------------------------
(* Statements.                                                             *)

LEMMA ListedFacts ==
  ASSUME NEW n \in Nat, NEW f, f = [i \in 1..n |-> f[i]]
  PROVE  Listed(f) /\ Len(f) = n
<1>1. f \in [1..n -> {f[i] : i \in 1..n}]
  OBVIOUS
<1>2. f \in Seq({f[i] : i \in 1..n})
  BY <1>1, SeqDef
<1> QED BY <1>1, <1>2, LenProperties DEF Listed

(* joinPipeLine makes a statement of a statement.                          *)
LEMMA JoinFacts ==
  ASSUME NEW s \in Seq(Command)
  PROVE  Listed(joinPipeLine(s))
<1> DEFINE joined == {i \in DOMAIN s : i > 1 /\ Remote(s[i - 1]) /\ Remote(s[i])}
           kept == DOMAIN s \ joined
           n == Cardinality(kept)
<1>1. IsFiniteSet(DOMAIN s)
  <2>1. DOMAIN s = 1..Len(s) /\ Len(s) \in Nat
    OBVIOUS
  <2> QED BY <2>1, FS_Interval
<1>2. IsFiniteSet(kept)
  BY <1>1, FS_Subset
<1>3. n \in Nat
  BY <1>2, FS_CardinalityType
<1>4. DOMAIN InOrder(kept) = 1..n
  BY DEF InOrder
<1>5. joinPipeLine(s) = [i \in 1..n |-> joinPipeLine(s)[i]]
  BY <1>4 DEF joinPipeLine
<1> QED BY <1>3, <1>5, ListedFacts

(* A step that stays in the statement.                                     *)
LEMMA SameStatement ==
  ASSUME UNCHANGED <<line, k>>
  PROVE  /\ Current' = Current /\ N' = N
         /\ \A i : Piped(i)' = Piped(i)
         /\ \A i : FromPipe(i)' = FromPipe(i)
BY DEF Current, N, Piped, FromPipe

(* What a line and the statement that runs are.                            *)
LEMMA StatementFacts ==
  ASSUME LineInv
  PROVE  N \in Nat /\ DOMAIN Current = 1..N
BY DEF LineInv, Listed, Current, N

(* Every command begins as running.                                        *)
LEMMA StartedFacts ==
  ASSUME NEW s, Listed(s), Started(s), LineInv', Current' = s
  PROVE  RunInv'
<1>1. N' = Len(s) /\ N' \in Nat /\ DOMAIN s = 1..N'
  BY DEF N, Listed
<1>3. TypeInv'
  <2>1. \A i \in 1..N' : left'[i] \in [Workers(s[i]) -> Nat]
    <3>1. PICK lines \in [Servers \cup {"localhost"} -> Outputs] :
            left' = [i \in DOMAIN s |-> [w \in Workers(s[i]) |->
                       IF s[i].kind \in {"remote", "local", "show"} THEN lines[w] ELSE 0]]
      BY DEF Started
    <3>2. \A w \in Servers \cup {"localhost"} : lines[w] \in Nat
      BY <3>1, PShellAssumption
    <3>3. \A c : Workers(c) \subseteq Servers \cup {"localhost"}
      BY DEF Workers
    <3> QED
      BY <1>1, <3>1, <3>2, <3>3
  <2>2. DOMAIN left' = 1..N' /\ DOMAIN out' = 1..N' /\ received' \in Nat
    BY <1>1, Zenon DEF Started
  <2>3. st' \in [1..N' -> States] /\ eof' \in [1..N' -> BOOLEAN]
    BY <1>1 DEF Started, States
  <2>4. pipe' \in [1..N' -> Ends] /\ fed' \in [1..N' -> Fill]
    BY <1>1 DEF Started, Ends, Fill
  <2> QED BY <2>1, <2>2, <2>3, <2>4 DEF TypeInv
<1>4. CountInv'
  <2>1. Past' \subseteq 1..N' /\ IsFiniteSet(1..N')
    BY <1>1, FS_Interval DEF Past
  <2>2. Cardinality(Past') \in Nat
    BY <2>1, FS_Subset, FS_CardinalityType
  <2> QED BY <2>2 DEF CountInv, Started
<1>5. FedInv'
  <2>1. \A i \in 1..N' : fed'[i].written = 0 /\ fed'[i].read = 0 /\ ~pipe'[i].pending
    BY <1>1 DEF Started
  <2>2. \A i \in 1..N' : FromPipe(i)' => i - 1 \in 1..N'
    BY DEF FromPipe, Piped
  <2> QED BY <2>1, <2>2 DEF FedInv
<1>6. CloseInv'
  <2>1. \A i \in 1..N' : st'[i] = "running" /\ ~pipe'[i].pending /\ ~pipe'[i].closed
    BY <1>1 DEF Started
  <2> QED BY <2>1 DEF CloseInv, Ended
<1>7. LeftInv'
  <2>1. \A i \in 1..N' : st'[i] = "running" /\ out'[i] = Workers(s[i])
    BY <1>1 DEF Started
  <2> QED BY <2>1 DEF LeftInv
<1> QED BY <1>3, <1>4, <1>5, <1>6, <1>7 DEF RunInv

-----------------------------------------------------------------------------
(* Steps of the statement that runs.                                       *)

(* What a step that leaves some variables alone keeps.                     *)
LEMMA Untouched ==
  ASSUME RunInv, UNCHANGED <<line, k>>
  PROVE  /\ LineInv'
         /\ UNCHANGED <<st, received>> => CountInv'
         /\ UNCHANGED <<pipe, fed>> => FedInv'
         /\ UNCHANGED <<st, pipe>> => CloseInv'
         /\ UNCHANGED <<st, left, out>> /\ killed \subseteq killed' => LeftInv'
<1> USE SameStatement DEF RunInv
<1>1. LineInv'
  BY DEF LineInv
<1>2. UNCHANGED <<st, received>> => CountInv'
  <2>1. UNCHANGED st => Past' = Past
    BY DEF Past
  <2> QED BY <2>1 DEF CountInv
<1>3. UNCHANGED <<pipe, fed>> => FedInv'
  BY DEF FedInv
<1>4. UNCHANGED <<st, pipe>> => CloseInv'
  BY DEF CloseInv, Ended
<1>5. UNCHANGED <<st, left, out>> /\ killed \subseteq killed' => LeftInv'
  BY DEF LeftInv
<1> QED BY <1>1, <1>2, <1>3, <1>4, <1>5

(* A command that goes from a state before the signal to another one.      *)
LEMMA CountKept ==
  ASSUME RunInv, UNCHANGED <<line, k, received>>, NEW i \in 1..N, NEW v \in States,
         st' = [st EXCEPT ![i] = v], i \in Past => v \in {"close", "gone"}
  PROVE  CountInv'
<1>1. N \in Nat /\ N' = N
  BY StatementFacts, SameStatement DEF RunInv
<1>2. Past \subseteq Past'
  BY <1>1 DEF Past, RunInv, TypeInv
<1>3. IsFiniteSet(Past')
  <2>1. Past' \subseteq 1..N /\ IsFiniteSet(1..N)
    BY <1>1, FS_Interval DEF Past
  <2> QED BY <2>1, FS_Subset
<1>4. /\ Cardinality(Past) <= Cardinality(Past')
      /\ Cardinality(Past) \in Nat /\ Cardinality(Past') \in Nat
  <2>1. IsFiniteSet(Past) /\ Cardinality(Past) <= Cardinality(Past')
    BY <1>2, <1>3, FS_Subset
  <2> QED BY <1>3, <2>1, FS_CardinalityType
<1> QED BY <1>4 DEF CountInv, RunInv, TypeInv

LEMMA WaitKeeps ==
  ASSUME RunInv, NEW i \in 1..N, wait(i)
  PROVE  RunInv'
<1> USE DEF RunInv
<1>1. N \in Nat /\ N' = N /\ Current' = Current
  BY StatementFacts, SameStatement DEF wait
<1>2. LineInv' /\ FedInv'
  BY Untouched DEF wait
<1> DEFINE v == IF Remote(Current[i]) THEN "close" ELSE "gone"
<1>3. st[i] = "signal" /\ st' = [st EXCEPT ![i] = v] /\ v \in {"close", "gone"} /\ v \in States
  BY DEF wait, States
<1> HIDE DEF v
<1>4. TypeInv'
  BY <1>1, <1>3 DEF TypeInv, wait
<1>5. CountInv'
  <2>1. Past' = Past \cup {i} /\ i \notin Past
    BY <1>1, <1>3 DEF Past, TypeInv
  <2>2. IsFiniteSet(Past)
    <3>1. Past \subseteq 1..N /\ IsFiniteSet(1..N)
      BY <1>1, FS_Interval DEF Past
    <3> QED BY <3>1, FS_Subset
  <2>3. Cardinality(Past') = Cardinality(Past) + 1
    BY <2>1, <2>2, FS_AddElement
  <2>4. Cardinality(Past) \in Nat
    BY <2>2, FS_CardinalityType
  <2> QED BY <2>3, <2>4 DEF CountInv, TypeInv, wait
<1>6. CloseInv'
  <2>1. v = "close" => Remote(Current[i])
    BY DEF v
  <2> QED BY <1>1, <1>3, <2>1, SameStatement DEF CloseInv, Ended, TypeInv, wait
<1>7. LeftInv'
  BY <1>1, <1>3 DEF LeftInv, TypeInv, wait
<1> QED BY <1>2, <1>4, <1>5, <1>6, <1>7

(* One side of a pipe changes, and nothing else.                           *)
LEMMA PipeFacts ==
  ASSUME TypeInv, NEW i \in 1..N, NEW b \in BOOLEAN
  PROVE  LET p == [pipe EXCEPT ![i].pending = b]
             c == [pipe EXCEPT ![i].closed = b]
         IN /\ p \in [1..N -> Ends] /\ c \in [1..N -> Ends]
            /\ p[i].pending = b /\ c[i].closed = b
            /\ \A j \in 1..N : p[j].closed = pipe[j].closed /\ c[j].pending = pipe[j].pending
            /\ \A j \in 1..N : j # i => p[j] = pipe[j] /\ c[j] = pipe[j]
<1>1. pipe \in [1..N -> Ends] /\ pipe[i] \in Ends
  BY DEF TypeInv
<1> DEFINE pi == [pipe[i] EXCEPT !.pending = b]
           ci == [pipe[i] EXCEPT !.closed = b]
           p == [pipe EXCEPT ![i] = pi]
           c == [pipe EXCEPT ![i] = ci]
<1>2. /\ pi \in Ends /\ pi.pending = b /\ pi.closed = pipe[i].closed
      /\ ci \in Ends /\ ci.closed = b /\ ci.pending = pipe[i].pending
  BY <1>1 DEF Ends
<1>3. p = [pipe EXCEPT ![i].pending = b] /\ c = [pipe EXCEPT ![i].closed = b]
  OBVIOUS
<1> HIDE DEF pi, ci
<1>4. p \in [1..N -> Ends] /\ c \in [1..N -> Ends]
  BY <1>1, <1>2
<1>5. p[i] = pi /\ c[i] = ci /\ \A j \in 1..N : j # i => p[j] = pipe[j] /\ c[j] = pipe[j]
  BY <1>1
<1>6. \A j \in 1..N : p[j].closed = pipe[j].closed /\ c[j].pending = pipe[j].pending
  BY <1>2, <1>5
<1> HIDE DEF p, c
<1> QED BY <1>2, <1>3, <1>4, <1>5, <1>6

LEMMA SayKeeps ==
  ASSUME RunInv, NEW i \in 1..N, NEW w, Say(i, w)
  PROVE  RunInv'
<1> USE DEF RunInv
<1>1. N \in Nat /\ N' = N /\ Current' = Current /\ UNCHANGED <<line, k, st, out, eof, killed, received>>
  BY StatementFacts, SameStatement DEF Say
<1>2. LineInv' /\ CountInv'
  BY <1>1, Untouched
<1>3. w \in out[i] /\ st[i] = "running" /\ left[i][w] > 0 /\ left' = [left EXCEPT ![i][w] = @ - 1]
  BY DEF Say
<1>4. TypeInv'
  <2>1. \A j \in 1..N : left'[j] \in [Workers(Current[j]) -> Nat]
    <3> SUFFICES ASSUME NEW j \in 1..N
                 PROVE  left'[j] \in [Workers(Current[j]) -> Nat]
      OBVIOUS
    <3>1. left[j] \in [Workers(Current[j]) -> Nat] /\ j \in DOMAIN left
      BY DEF TypeInv
    <3>2. CASE j # i
      BY <1>3, <3>1, <3>2
    <3>3. CASE j = i
      <4>1. left'[j] = [left[j] EXCEPT ![w] = left[j][w] - 1]
        BY <1>3, <3>1, <3>3
      <4>2. w \in Workers(Current[j]) => left[j][w] - 1 \in Nat
        BY <1>3, <3>1, <3>3
      <4> QED BY <3>1, <4>1, <4>2
    <3> QED BY <3>2, <3>3
  <2>2. CASE Piped(i)
    <3>1. [pipe[i] EXCEPT !.pending = TRUE] \in Ends
      <4>1. pipe[i] \in Ends
        BY DEF TypeInv
      <4> QED BY <4>1 DEF Ends
    <3>2. pipe' \in [1..N -> Ends]
      BY <2>2, <3>1 DEF Say, TypeInv
    <3>3. i + 1 \in 1..N => [fed[i + 1] EXCEPT !.written = @ + 1] \in Fill
      BY DEF TypeInv, Fill
    <3>4. fed' \in [1..N -> Fill]
      BY <2>2, <3>3 DEF Say, TypeInv
    <3> QED BY <1>1, <1>3, <2>1, <3>2, <3>4 DEF TypeInv
  <2>3. CASE ~Piped(i)
    BY <1>1, <1>3, <2>1, <2>3 DEF TypeInv, Say
  <2> QED BY <2>2, <2>3
<1>5. FedInv'
  <2>1. CASE Piped(i)
    <3> SUFFICES ASSUME NEW j \in 1..N, FromPipe(j)
                 PROVE  fed'[j].written = fed'[j].read + (IF pipe'[j - 1].pending THEN 1 ELSE 0)
      BY <1>1, SameStatement DEF FedInv
    <3>1. j - 1 \in 1..N
      BY DEF FromPipe, Piped
    <3>2. CASE j = i + 1
      <4>1. ~pipe[j - 1].pending /\ pipe'[j - 1].pending
        <5>1. j - 1 = i
          BY <1>1, <3>2
        <5>2. pipe' = [pipe EXCEPT ![i] = [pipe[i] EXCEPT !.pending = TRUE]] /\ ~pipe[i].pending
          BY <2>1 DEF Say, CanWrite
        <5>3. pipe[i] \in Ends /\ i \in DOMAIN pipe
          BY DEF TypeInv
        <5> QED BY <5>1, <5>2, <5>3 DEF Ends
      <4>2. fed'[j].written = fed[j].written + 1 /\ fed'[j].read = fed[j].read /\ fed[j] \in Fill
        BY <2>1, <3>2 DEF Say, TypeInv, Fill
      <4> QED BY <4>1, <4>2 DEF FedInv, Fill
    <3>3. CASE j # i + 1
      <4>1. j - 1 # i
        BY <1>1, <3>3
      <4>2. fed'[j] = fed[j] /\ pipe'[j - 1] = pipe[j - 1]
        BY <2>1, <3>1, <3>3, <4>1 DEF Say, TypeInv
      <4> QED BY <4>2 DEF FedInv
    <3> QED BY <3>2, <3>3
  <2>2. CASE ~Piped(i)
    BY <1>1, <2>2, Untouched DEF Say
  <2> QED BY <2>1, <2>2
<1>6. CloseInv'
  <2>1. \A j \in 1..N : pipe'[j].closed = pipe[j].closed /\ (j # i => pipe'[j] = pipe[j])
    <3>1. CASE Piped(i)
      <4>1. pipe' = [pipe EXCEPT ![i] = [pipe[i] EXCEPT !.pending = TRUE]]
        BY <3>1 DEF Say
      <4>2. pipe[i] \in Ends /\ DOMAIN pipe = 1..N
        BY DEF TypeInv
      <4> QED BY <4>1, <4>2 DEF Ends
    <3>2. CASE ~Piped(i)
      BY <3>2 DEF Say
    <3> QED BY <3>1, <3>2
  <2> QED BY <1>1, <1>3, <2>1, SameStatement DEF CloseInv, Ended
<1>7. LeftInv'
  <2>1. \A j \in 1..N : j # i => left'[j] = left[j]
    BY <1>3 DEF TypeInv
  <2>2. \A x \in Workers(Current[i]) \ out[i] : left'[i][x] = left[i][x]
    BY <1>3 DEF TypeInv
  <2> QED BY <1>1, <1>3, <2>1, <2>2 DEF LeftInv
<1> QED BY <1>2, <1>4, <1>5, <1>6, <1>7

LEMMA ReadKeeps ==
  ASSUME RunInv, NEW i \in 1..N, Read(i)
  PROVE  RunInv'
<1> USE DEF RunInv
<1>1. /\ N \in Nat /\ N' = N /\ Current' = Current /\ ~BuiltIn(Current[i])
      /\ UNCHANGED <<line, k, st, out, killed, received>>
  BY StatementFacts, SameStatement DEF Read, Remote, Local, BuiltIn
<1>2. LineInv' /\ CountInv'
  BY <1>1, Untouched
<1>3. i - 1 \in 1..N /\ pipe[i - 1].pending /\ pipe' = [pipe EXCEPT ![i - 1].pending = FALSE]
  BY DEF Read, FromPipe, Piped
<1>4. /\ pipe' \in [1..N -> Ends] /\ ~pipe'[i - 1].pending
      /\ \A j \in 1..N : pipe'[j].closed = pipe[j].closed
      /\ \A j \in 1..N : j # i - 1 => pipe'[j] = pipe[j]
  BY <1>3, PipeFacts
<1>5. /\ fed' \in [1..N -> Fill] /\ \A j \in 1..N : j # i => fed'[j] = fed[j]
      /\ fed'[i].written = fed[i].written /\ fed'[i].read = fed[i].read + 1
  <2>1. fed \in [1..N -> Fill] /\ fed[i] \in Fill
    BY DEF TypeInv
  <2> DEFINE f == [fed[i] EXCEPT !.read = fed[i].read + 1]
  <2>2. f \in Fill /\ f.written = fed[i].written /\ f.read = fed[i].read + 1
    BY <2>1 DEF Fill
  <2>3. fed' = [fed EXCEPT ![i] = f]
    BY DEF Read
  <2> HIDE DEF f
  <2> QED BY <2>1, <2>2, <2>3
<1>6. /\ DOMAIN left' = 1..N
      /\ \A j \in 1..N : j # i => left'[j] = left[j]
      /\ left'[i] \in [Workers(Current[i]) -> Nat]
      /\ \A w \in Workers(Current[i]) \ out[i] : left'[i][w] = left[i][w]
  <2>1. left[i] \in [Workers(Current[i]) -> Nat] /\ DOMAIN left = 1..N
    BY DEF TypeInv
  <2>2. left' = [left EXCEPT ![i] = Echo(i, left[i])]
    BY DEF Read
  <2>3. /\ Echo(i, left[i]) \in [Workers(Current[i]) -> Nat]
        /\ \A w \in Workers(Current[i]) \ out[i] : Echo(i, left[i])[w] = left[i][w]
    BY <2>1 DEF Echo
  <2> QED BY <2>1, <2>2, <2>3
<1>7. TypeInv'
  <2>1. eof' \in [1..N -> BOOLEAN]
    <3>1. eof' = [eof EXCEPT ![i] = eof[i] \/ (Local(Current[i]) /\ st[i] = "worked")]
      BY DEF Read
    <3>2. (eof[i] \/ (Local(Current[i]) /\ st[i] = "worked")) \in BOOLEAN
      OBVIOUS
    <3> HIDE DEF RunInv
    <3>3. eof \in [1..N -> BOOLEAN]
      BY DEF RunInv, TypeInv
    <3> QED BY <3>1, <3>2, <3>3
  <2>2. \A j \in 1..N : left'[j] \in [Workers(Current[j]) -> Nat]
    BY <1>6 DEF TypeInv
  <2> QED BY <1>1, <1>4, <1>5, <1>6, <2>1, <2>2 DEF TypeInv
<1>8. FedInv'
  <2> SUFFICES ASSUME NEW j \in 1..N, FromPipe(j)
               PROVE  fed'[j].written = fed'[j].read + (IF pipe'[j - 1].pending THEN 1 ELSE 0)
    BY <1>1, SameStatement DEF FedInv
  <2>1. CASE j = i
    <3>1. fed[i].written = fed[i].read + 1 /\ fed[i].read \in Nat
      BY <1>3, <2>1 DEF FedInv, TypeInv, Fill
    <3> QED BY <1>4, <1>5, <2>1, <3>1
  <2>2. CASE j # i
    <3>1. j - 1 # i - 1 /\ j - 1 \in 1..N
      BY <1>1, <2>2 DEF FromPipe, Piped
    <3>2. fed'[j] = fed[j] /\ pipe'[j - 1] = pipe[j - 1]
      BY <1>4, <1>5, <2>2, <3>1
    <3> QED BY <3>2 DEF FedInv
  <2> QED BY <2>1, <2>2
<1>9. CloseInv'
  <2>1. \A j \in 1..N : ~pipe[j].pending => ~pipe'[j].pending
    BY <1>4
  <2> QED BY <1>1, <1>4, <2>1, SameStatement DEF CloseInv, Ended
<1>10. LeftInv'
  <2> SUFFICES ASSUME NEW j \in 1..N
               PROVE  /\ ~BuiltIn(Current[j]) /\ st[j] # "running" => out[j] = {}
                      /\ ~BuiltIn(Current[j]) /\ j \notin killed =>
                           \A w \in Workers(Current[j]) \ out[j] : left'[j][w] = 0
                      /\ Current[j].kind = "show" /\ st[j] # "running" => left'[j]["localhost"] = 0
    BY <1>1 DEF LeftInv
  <2>1. CASE j = i
    BY <1>1, <1>6, <2>1 DEF LeftInv, BuiltIn
  <2>2. CASE j # i
    BY <1>6, <2>2 DEF LeftInv
  <2> QED BY <2>1, <2>2
<1> QED BY <1>2, <1>7, <1>8, <1>9, <1>10

(* The end of a command's input changes nothing else.                      *)
LEMMA EofKeeps ==
  ASSUME RunInv, NEW i \in 1..N, ReadEnd(i) \/ UserEnd(i)
  PROVE  RunInv'
<1> USE DEF RunInv
<1>1. /\ UNCHANGED <<line, k, st, left, out, pipe, fed, killed, received>>
      /\ eof' = [eof EXCEPT ![i] = TRUE]
  BY DEF ReadEnd, UserEnd
<1>2. LineInv' /\ CountInv' /\ FedInv' /\ CloseInv' /\ LeftInv'
  BY <1>1, Untouched
<1>3. TypeInv'
  BY <1>1, SameStatement DEF TypeInv
<1> QED BY <1>2, <1>3

LEMMA WorkKeeps ==
  ASSUME RunInv, NEW i \in 1..N, NEW w, Work(i, w)
  PROVE  RunInv'
<1> USE DEF RunInv
<1>1. /\ N \in Nat /\ N' = N /\ Current' = Current /\ ~BuiltIn(Current[i])
      /\ UNCHANGED <<line, k, left, eof, pipe, fed, killed, received>>
  BY StatementFacts, SameStatement DEF Work
<1>2. LineInv' /\ FedInv'
  BY <1>1, Untouched
<1> DEFINE v == IF out[i] = {w} THEN "worked" ELSE "running"
<1>3. /\ st[i] = "running" /\ st' = [st EXCEPT ![i] = v] /\ v \in States
      /\ out' = [out EXCEPT ![i] = out[i] \ {w}]
      /\ Piped(i) => ~pipe[i].pending
      /\ v # "running" => out'[i] = {}
      /\ i \in killed \/ left[i][w] = 0
  <2>1. st[i] = "running" /\ DOMAIN out = 1..N /\ st \in [1..N -> States]
    BY DEF Work, TypeInv
  <2>2. st' = [st EXCEPT ![i] = v]
    <3>1. CASE out[i] = {w}
      BY <3>1 DEF Work
    <3>2. CASE out[i] # {w}
      BY <2>1, <3>2 DEF Work
    <3> QED BY <3>1, <3>2
  <2> QED BY <2>1, <2>2 DEF Work, States, CanWrite, Done
<1>4. v \in {"worked", "running"}
  OBVIOUS
<1> HIDE DEF v
<1>5. TypeInv'
  BY <1>1, <1>3 DEF TypeInv
<1>6. CountInv'
  <2>1. i \notin Past
    BY <1>3 DEF Past
  <2> QED BY <1>1, <1>3, <2>1, CountKept
<1>7. CloseInv'
  <2>1. st'[i] = v /\ \A j \in 1..N : j # i => st'[j] = st[j]
    BY <1>3 DEF TypeInv
  <2>2. Current[i].kind # "exit"
    BY <1>1 DEF BuiltIn
  <2> QED BY <1>1, <1>3, <1>4, <2>1, <2>2, SameStatement DEF CloseInv, Ended
<1>8. LeftInv'
  BY <1>1, <1>3 DEF LeftInv, TypeInv, BuiltIn
<1> QED BY <1>2, <1>5, <1>6, <1>7, <1>8

LEMMA SignalKeeps ==
  ASSUME RunInv, NEW i \in 1..N, Signal(i)
  PROVE  RunInv'
<1> USE DEF RunInv
<1>1. /\ N \in Nat /\ N' = N /\ Current' = Current
      /\ UNCHANGED <<line, k, left, out, eof, fed, killed, received>>
  BY StatementFacts, SameStatement DEF Signal
<1>2. LineInv'
  BY <1>1, Untouched
<1> DEFINE v == IF Remote(Current[i]) /\ ~FromPipe(i) /\ ~Piped(i) THEN "enter" ELSE "signal"
<1>3. st[i] = "worked" /\ st' = [st EXCEPT ![i] = v]
  BY DEF Signal
<1>4. v \in {"enter", "signal"} /\ v \in States
  BY DEF States
<1> HIDE DEF v
<1>5. /\ pipe' \in [1..N -> Ends]
      /\ \A j \in 1..N : pipe'[j].pending = pipe[j].pending
      /\ \A j \in 1..N : j # i => pipe'[j] = pipe[j]
      /\ pipe'[i].closed => pipe[i].closed \/ Local(Current[i])
  <2>1. CASE Local(Current[i]) /\ Piped(i)
    BY <2>1, PipeFacts DEF Signal
  <2>2. CASE ~(Local(Current[i]) /\ Piped(i))
    BY <2>2 DEF Signal, TypeInv
  <2> QED BY <2>1, <2>2
<1>6. TypeInv'
  BY <1>1, <1>3, <1>4, <1>5 DEF TypeInv
<1>7. CountInv'
  <2>1. i \notin Past
    BY <1>3 DEF Past
  <2> QED BY <1>1, <1>3, <1>4, <2>1, CountKept
<1>8. FedInv'
  <2>1. \A j \in 1..N : FromPipe(j) => j - 1 \in 1..N
    BY DEF FromPipe, Piped
  <2> QED BY <1>1, <1>5, <2>1, SameStatement DEF FedInv
<1>9. CloseInv'
  <2>1. st[i] # "running" /\ st'[i] = v /\ \A j \in 1..N : j # i => st'[j] = st[j]
    BY <1>3 DEF TypeInv
  <2>2. Local(Current[i]) => Current[i].kind # "silent"
    BY DEF Local
  <2> QED BY <1>1, <1>4, <1>5, <2>1, <2>2, SameStatement DEF CloseInv, Ended
<1>10. LeftInv'
  BY <1>1, <1>3 DEF LeftInv, TypeInv
<1> QED BY <1>2, <1>6, <1>7, <1>8, <1>9, <1>10

LEMMA EnterKeeps ==
  ASSUME RunInv, NEW i \in 1..N, Enter(i)
  PROVE  RunInv'
<1> USE DEF RunInv
<1>1. /\ N \in Nat /\ N' = N /\ Current' = Current
      /\ UNCHANGED <<line, k, left, out, eof, pipe, fed, killed, received>>
  BY StatementFacts, SameStatement DEF Enter
<1>2. LineInv' /\ FedInv'
  BY <1>1, Untouched
<1>3. st[i] = "enter" /\ st' = [st EXCEPT ![i] = "signal"] /\ "signal" \in States
  BY DEF Enter, States
<1>4. TypeInv'
  BY <1>1, <1>3 DEF TypeInv
<1>5. CountInv'
  <2>1. i \notin Past
    BY <1>3 DEF Past
  <2> QED BY <1>1, <1>3, <2>1, CountKept
<1>6. CloseInv'
  BY <1>1, <1>3, SameStatement DEF CloseInv, Ended, TypeInv
<1>7. LeftInv'
  BY <1>1, <1>3 DEF LeftInv, TypeInv
<1> QED BY <1>2, <1>4, <1>5, <1>6, <1>7

LEMMA CloseKeeps ==
  ASSUME RunInv, NEW i \in 1..N, Close(i)
  PROVE  RunInv'
<1> USE DEF RunInv
<1>1. /\ N \in Nat /\ N' = N /\ Current' = Current
      /\ UNCHANGED <<line, k, left, out, eof, fed, killed, received>>
  BY StatementFacts, SameStatement DEF Close
<1>2. LineInv'
  BY <1>1, Untouched
<1>3. st[i] = "close" /\ st' = [st EXCEPT ![i] = "gone"] /\ "gone" \in States
  BY DEF Close, States
<1>4. /\ pipe' \in [1..N -> Ends]
      /\ \A j \in 1..N : pipe'[j].pending = pipe[j].pending
      /\ \A j \in 1..N : j # i => pipe'[j] = pipe[j]
  <2>1. CASE Piped(i)
    BY <2>1, PipeFacts DEF Close
  <2>2. CASE ~Piped(i)
    BY <2>2 DEF Close, TypeInv
  <2> QED BY <2>1, <2>2
<1>5. TypeInv'
  BY <1>1, <1>3, <1>4 DEF TypeInv
<1>6. CountInv'
  BY <1>1, <1>3, CountKept
<1>7. FedInv'
  <2>1. \A j \in 1..N : FromPipe(j) => j - 1 \in 1..N
    BY DEF FromPipe, Piped
  <2> QED BY <1>1, <1>4, <2>1, SameStatement DEF FedInv
<1>8. CloseInv'
  <2>1. Current[i].kind # "silent"
    BY <1>3 DEF CloseInv, Remote, BuiltIn
  <2> QED BY <1>1, <1>3, <1>4, <2>1, SameStatement DEF CloseInv, Ended, TypeInv
<1>9. LeftInv'
  BY <1>1, <1>3 DEF LeftInv, TypeInv
<1> QED BY <1>2, <1>5, <1>6, <1>7, <1>8, <1>9

LEMMA BuiltInKeeps ==
  ASSUME RunInv, NEW i \in 1..N, BuiltInRun(i), Current[i].kind # "exit"
  PROVE  RunInv'
<1> USE DEF RunInv
<1>1. /\ N \in Nat /\ N' = N /\ Current' = Current /\ BuiltIn(Current[i])
      /\ UNCHANGED <<line, k, left, out, eof, fed, killed, received>>
  BY StatementFacts, SameStatement DEF BuiltInRun
<1>2. LineInv'
  BY <1>1, Untouched
<1> DEFINE v == IF Current[i].kind = "silent" THEN "gone" ELSE "signal"
<1>3. /\ st[i] = "running" /\ st' = [st EXCEPT ![i] = v]
      /\ Current[i].kind = "show" => left[i]["localhost"] = 0 /\ CanWrite(i)
  BY DEF BuiltInRun, NoSignal
<1>4. v \in States /\ v \in {"gone", "signal"}
  BY DEF States
<1> HIDE DEF v
<1>5. /\ pipe' \in [1..N -> Ends]
      /\ \A j \in 1..N : pipe'[j].pending = pipe[j].pending
      /\ \A j \in 1..N : j # i => pipe'[j] = pipe[j]
      /\ pipe'[i].closed => pipe[i].closed \/ Current[i].kind = "show"
  <2>1. CASE Current[i].kind = "show" /\ Piped(i)
    BY <2>1, PipeFacts DEF BuiltInRun
  <2>2. CASE ~(Current[i].kind = "show" /\ Piped(i))
    BY <2>2 DEF BuiltInRun, TypeInv
  <2> QED BY <2>1, <2>2
<1>6. TypeInv'
  BY <1>1, <1>3, <1>4, <1>5 DEF TypeInv
<1>7. CountInv'
  <2>1. i \notin Past
    BY <1>3 DEF Past
  <2> QED BY <1>1, <1>3, <1>4, <2>1, CountKept
<1>8. FedInv'
  <2>1. \A j \in 1..N : FromPipe(j) => j - 1 \in 1..N
    BY DEF FromPipe, Piped
  <2> QED BY <1>1, <1>5, <2>1, SameStatement DEF FedInv
<1>9. CloseInv'
  <2>1. Current[i].kind = "show" \/ Current[i].kind = "silent"
    BY <1>1 DEF BuiltIn
  <2>2. st[i] # "close" /\ v # "close" /\ st'[i] = v /\ \A j \in 1..N : j # i => st'[j] = st[j]
    BY <1>3, <1>4 DEF TypeInv
  <2>3. Current[i].kind = "silent" => ~pipe'[i].closed
    BY <1>5 DEF CloseInv, Ended
  <2> QED BY <1>1, <1>3, <1>4, <1>5, <2>1, <2>2, <2>3, SameStatement DEF CloseInv, Ended, CanWrite
<1>10. LeftInv'
  BY <1>1, <1>3 DEF LeftInv, TypeInv
<1> QED BY <1>2, <1>6, <1>7, <1>8, <1>9, <1>10

(* Ctrl-C and the killers: only the set of killed commands grows.          *)
LEMMA KillKeeps ==
  ASSUME RunInv, \/ \E s \in DOMAIN killer : \E i \in armed[s] : Kill(s, i)
                 \/ Interrupt
  PROVE  RunInv'
<1>1. UNCHANGED <<line, k, st, left, out, eof, pipe, fed, received>> /\ killed \subseteq killed'
  BY DEF Kill, Interrupt, cmds
<1>2. LineInv' /\ CountInv' /\ FedInv' /\ CloseInv' /\ LeftInv'
  BY <1>1, Untouched
<1>3. TypeInv'
  BY <1>1, SameStatement DEF TypeInv, RunInv
<1> QED BY <1>2, <1>3 DEF RunInv

-----------------------------------------------------------------------------
(* The next statement, and a new line.                                     *)

LEMMA NextStatementKeeps ==
  ASSUME RunInv, NextStatement
  PROVE  RunInv'
<1>1. k + 1 \in 1..Len(line) /\ Listed(line[k + 1])
  BY DEF RunInv, LineInv, Listed, NextStatement
<1>2. LineInv' /\ Current' = line[k + 1]
  BY <1>1 DEF RunInv, LineInv, NextStatement, Current
<1> QED BY <1>1, <1>2, StartedFacts DEF NextStatement

LEMMA ExecutorKeeps ==
  ASSUME NEW in \in Inputs, Executor(in)
  PROVE  RunInv'
<1>1. in \in Seq(Seq(Command)) /\ in # <<>>
  BY PShellAssumption
<1>2. Len(in) \in Nat /\ DOMAIN in = 1..Len(in) /\ 1 \in 1..Len(in)
  BY <1>1
<1>3. line' = [i \in 1..Len(in) |-> joinPipeLine(in[i])] /\ k' = 1
  BY <1>2 DEF Executor
<1>4. Listed(line') /\ Len(line') = Len(in)
  <2>1. line' = [i \in 1..Len(in) |-> line'[i]]
    BY <1>3
  <2> QED BY <1>2, <2>1, ListedFacts
<1>5. \A i \in 1..Len(in) : Listed(line'[i])
  BY <1>1, <1>2, <1>3, JoinFacts
<1>6. LineInv' /\ Current' = line'[1]
  BY <1>2, <1>3, <1>4, <1>5 DEF LineInv, Current
<1> QED BY <1>2, <1>5, <1>6, StartedFacts DEF Executor

LEMMA PShellCorrect == Spec => []PShellInv
<1>1. Init => PShellInv
  BY DEF Init, PShellInv
<1>2. PShellInv /\ [Next]_vars => PShellInv'
  <2> SUFFICES ASSUME PShellInv, [Next]_vars, pc' = "run"
               PROVE  RunInv'
    BY DEF PShellInv
  <2>1. ASSUME NEW in \in Inputs, Executor(in)
        PROVE  RunInv'
    BY <2>1, ExecutorKeeps
  <2>2. CASE NextStatement
    BY <2>2, NextStatementKeeps DEF PShellInv, NextStatement
  <2>3. CASE Return
    BY <2>3 DEF Return
  <2>4. ASSUME Running, NEW i \in 1..N, Step(i) \/ UserEnd(i)
        PROVE  RunInv'
    <3>1. RunInv
      BY <2>4 DEF PShellInv, Running
    <3>2. BuiltInRun(i) => Current[i].kind # "exit"
      BY DEF BuiltInRun
    <3> QED BY <2>4, <3>1, <3>2, WaitKeeps, ReadKeeps, EofKeeps, SignalKeeps, EnterKeeps, CloseKeeps,
               BuiltInKeeps, SayKeeps, WorkKeeps DEF Step
  <2>5. CASE Running /\ \E s \in DOMAIN killer : \E i \in armed[s] : Kill(s, i)
    BY <2>5, KillKeeps DEF PShellInv, Running
  <2>6. CASE Interrupt
    BY <2>6, KillKeeps DEF PShellInv, Interrupt
  <2>7. CASE UNCHANGED vars
    <3>1. RunInv /\ UNCHANGED <<line, k, st, left, out, eof, pipe, fed, killed, received>>
      BY <2>7 DEF PShellInv, vars, cmds
    <3>2. TypeInv'
      BY <3>1, SameStatement DEF TypeInv, RunInv
    <3> QED BY <3>1, <3>2, Untouched DEF RunInv
  <2> QED BY <2>1, <2>2, <2>3, <2>4, <2>5, <2>6, <2>7 DEF Next, Progress
<1> QED BY <1>1, <1>2, PTL DEF Spec

-----------------------------------------------------------------------------
(* parseExecutor begins a statement when wait has had a signal of each     *)
(* command of the one before it, which a command sends when its work is    *)
(* over: statements do not overlap (pshell_executor.go:119).               *)
THEOREM StatementsOrdered == Spec => StatementsInOrder
<1>1. PShellInv /\ [Next]_vars =>
        [pc = "run" /\ k' # k => \A i \in 1..N : st[i] \in {"close", "gone"}]_vars
  <2> SUFFICES ASSUME PShellInv, [Next]_vars, pc = "run", k' # k
               PROVE  \A i \in 1..N : st[i] \in {"close", "gone"}
    OBVIOUS
  <2>1. RunInv /\ N \in Nat
    BY StatementFacts DEF PShellInv, RunInv
  <2>2. received = N
    BY DEF Next, Progress, Step, Executor, NextStatement, Return, wait, Read, ReadEnd, UserEnd, Signal, Enter,
           Close, BuiltInRun, Say, Work, Kill, Interrupt, AllDone, Running, vars
  <2>3. Past \subseteq 1..N /\ IsFiniteSet(1..N) /\ Cardinality(1..N) = N
    BY <2>1, FS_Interval DEF Past
  <2>4. IsFiniteSet(Past) /\ Cardinality(Past) <= N /\ (Cardinality(Past) = N => Past = 1..N)
    BY <2>3, FS_Subset
  <2>5. Cardinality(Past) = N
    <3>1. Cardinality(Past) \in Nat
      BY <2>4, FS_CardinalityType
    <3> QED BY <2>1, <2>2, <2>4, <3>1 DEF RunInv, CountInv
  <2> QED BY <2>4, <2>5 DEF Past
<1> QED BY <1>1, PShellCorrect, PTL DEF Spec, StatementsInOrder

(* A pipe is closed by the command that writes to it, after its last write *)
(* was read: the next command misses no line (pshell_cmd.go:319-323,       *)
(* 382-387).                                                               *)
THEOREM PipesWhole == Spec => []PipeWhole
<1>1. PShellInv => PipeWhole
  <2> SUFFICES ASSUME RunInv, NEW i \in 1..N, FromPipe(i), pipe[i - 1].closed
               PROVE  /\ fed[i].read = fed[i].written
                      /\ i - 1 \notin killed => \A w \in DOMAIN left[i - 1] : left[i - 1][w] = 0
    BY DEF PShellInv, PipeWhole, Running
  <2> USE DEF RunInv
  <2>1. i - 1 \in 1..N /\ Piped(i - 1)
    BY DEF FromPipe, Piped
  <2>2. Ended(i - 1) /\ ~pipe[i - 1].pending
    BY <2>1 DEF CloseInv
  <2>3. fed[i].read = fed[i].written
    <3>1. fed[i].written = fed[i].read + 0 /\ fed[i].read \in Nat
      BY <2>2 DEF FedInv, TypeInv, Fill
    <3> QED BY <3>1
  <2>4. left[i - 1] \in [Workers(Current[i - 1]) -> Nat]
    BY <2>1 DEF TypeInv
  <2>5. ASSUME i - 1 \notin killed, NEW w \in Workers(Current[i - 1])
        PROVE  left[i - 1][w] = 0
    <3>1. CASE BuiltIn(Current[i - 1])
      <4>1. Current[i - 1].kind = "show"
        BY <2>1, <2>2, <3>1 DEF BuiltIn, CloseInv, Ended
      <4>2. w = "localhost"
        BY <3>1, <2>5 DEF Workers, Remote
      <4> QED BY <2>1, <2>2, <4>1, <4>2 DEF LeftInv, Ended
    <3>2. CASE ~BuiltIn(Current[i - 1])
      BY <2>1, <2>2, <2>5, <3>2 DEF LeftInv, Ended
    <3> QED BY <3>1, <3>2
  <2> QED BY <2>3, <2>4, <2>5
<1> QED BY <1>1, PShellCorrect, PTL
=============================================================================
