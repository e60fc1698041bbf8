---------------------------- MODULE CaptureProofs ----------------------------
(***************************************************************************)
(* Proofs about Capture, for every window, time out, bound and set of      *)
(* commands.                                                               *)
(***************************************************************************)
EXTENDS Capture, SequenceTheorems, WellFoundedInduction, TLAPS

-----------------------------------------------------------------------------
(* clearTag: the positions it computes exist once the tags were found. *)

(* A set of numbers that is not empty has a least element. *)
LEMMA LeastElement ==
  ASSUME NEW T, T \subseteq Nat, T # {}
  PROVE  \E x \in T : \A y \in T : x <= y
<1> DEFINE R == OpToRel(<, Nat)
<1>1. IsWellFoundedOn(R, Nat)
  BY NatLessThanWellFounded, Zenon
<1>2. \A a, b \in Nat : a < b => <<a, b>> \in R
  BY DEF OpToRel
<1> HIDE DEF R
<1>3. PICK x \in T : \A y \in T : ~(<<y, x>> \in R)
  BY <1>1, WFMin
<1>4. \A y \in T : ~(y < x)
  BY <1>2, <1>3, Zenon
<1>5. \A y \in T : x <= y
  BY <1>4
<1> QED
  BY <1>5

(* The first index of openTag is an index of the text. *)
LEMMA OpenPosFound ==
  ASSUME NEW t \in Nat, NEW b \in Seq(Token), NEW i \in DOMAIN b, b[i] = Tok("open", t)
  PROVE  openPos(t, b) \in DOMAIN b /\ openPos(t, b) <= i /\ b[openPos(t, b)] = Tok("open", t)
<1> DEFINE S == {k \in DOMAIN b : b[k] = Tok("open", t)}
<1>1. PICK x \in S : \A y \in S : x <= y
  <2>1. S \subseteq Nat /\ S # {}
    OBVIOUS
  <2> QED
    BY <2>1, LeastElement
<1> DEFINE First(k) == b[k] = Tok("open", t) /\ \A j \in 1..(k - 1) : b[j] # Tok("open", t)
<1>2. x \in DOMAIN b /\ First(x)
  BY <1>1
<1>3. openPos(t, b) \in DOMAIN b /\ First(openPos(t, b))
  BY <1>2 DEF openPos
<1> QED
  BY <1>3

(* So is the first index of closeTag after it. *)
LEMMA ClosePosFound ==
  ASSUME NEW t \in Nat, NEW b \in Seq(Token), closeFound(t, b)
  PROVE  /\ closePos(t, b) \in DOMAIN b
         /\ closePos(t, b) > openPos(t, b)
         /\ HoldsClose(b[closePos(t, b)], t)
         /\ \A m \in (openPos(t, b) + 1)..(closePos(t, b) - 1) : ~HoldsClose(b[m], t)
<1>1. PICK i \in DOMAIN b, j \in DOMAIN b : i < j /\ b[i] = Tok("open", t) /\ HoldsClose(b[j], t)
  BY DEF closeFound
<1> DEFINE o == openPos(t, b)
           S == {k \in DOMAIN b : k > o /\ HoldsClose(b[k], t)}
<1>2. o \in DOMAIN b /\ o <= i
  BY <1>1, OpenPosFound
<1> HIDE DEF o
<1>3. PICK x \in S : \A y \in S : x <= y
  <2>1. S \subseteq Nat /\ j \in S
    BY <1>1, <1>2
  <2> QED
    BY <2>1, LeastElement
<1> DEFINE First(k) == k > o /\ HoldsClose(b[k], t) /\ \A m \in (o + 1)..(k - 1) : ~HoldsClose(b[m], t)
<1>4. x \in DOMAIN b /\ First(x)
  BY <1>2, <1>3
<1> QED
  BY <1>4 DEF closePos, o

(* The answer that is cut out of the text is made of pieces of the text. *)
LEMMA ClearTagType ==
  ASSUME NEW t \in Nat, NEW b \in Seq(Token), closeFound(t, b)
  PROVE  clearTag(t, b) \in Seq(Token)
<1>1. PICK i \in DOMAIN b : b[i] = Tok("open", t)
  BY DEF closeFound
<1>2. openPos(t, b) \in DOMAIN b /\ closePos(t, b) \in DOMAIN b
  BY <1>1, OpenPosFound, ClosePosFound
<1> DEFINE m == openPos(t, b) + 1
           n == closePos(t, b) - 1
<1>3. m \in Int /\ n \in Int /\ \A k \in m..n : b[k] \in Token
  BY <1>2
<1> QED
  BY <1>3, SubSeqProperties DEF clearTag

-----------------------------------------------------------------------------
(* Type correctness. *)

(* The pieces of output that the model adds to the stream are tokens. *)
LEMMA TokenFacts ==
  /\ Prompt \in Token /\ Noise \in Token
  /\ \A k \in Kinds, t \in 0..MaxReq : Tok(k, t) \in Token
BY CaptureAssumption DEF Prompt, Noise, Tok, Token, Kinds

(* Reading a chunk leaves the state well typed. *)
LEMMA ReadType ==
  ASSUME TypeOK, NEW n \in 1..Len(out), Read(n)
  PROVE  TypeOK'
<1> USE CaptureAssumption
<1> DEFINE chunk == SubSeq(out, 1, n)
<1>1. chunk \in Seq(Token) /\ chunk # <<>> /\ Len(chunk) = n
  <2>1. out \in Seq(Token) /\ \A i \in 1..n : out[i] \in Token
    BY DEF TypeOK
  <2> QED
    BY <2>1, SubSeqProperties
<1>2. out' \in Seq(Token)
  <2>1. \A i \in (n + 1)..Len(out) : out[i] \in Token
    BY DEF TypeOK
  <2>2. SubSeq(out, n + 1, Len(out)) \in Seq(Token)
    BY <2>1, SubSeqProperties DEF TypeOK
  <2> QED
    BY <2>2 DEF Read
<1>3. AfterPrompt(chunk) \in [Requesters -> Places]
  BY DEF TypeOK, AfterPrompt, Requesters, Places
<1>4. TimerAfterPrompt(chunk) \in [Requesters -> Nat]
  BY DEF TypeOK, TimerAfterPrompt, Requesters
<1>5. TokensOf(chunk) \subseteq Token
  BY <1>1 DEF TokensOf
<1>6. ready' \in BOOLEAN
  BY DEF Read, TypeOK, PromptSeen
<1>7. UNCHANGED <<cmd, tag, result, lines, input, shell, printed, noise, existing, saved>>
  BY DEF Read, remoteVars, hostInfoVars
<1> HIDE DEF chunk
<1>8. \/ Swallow(chunk)
      \/ \E r \in Requesters : Accept(chunk, r)
      \/ Display(chunk)
  BY DEF Read, chunk
<1>9. CASE Swallow(chunk)
  <2>1. buf \o chunk \in Seq(Token)
    BY <1>1, ConcatProperties DEF TypeOK
  <2>2. rsp' \in Seq(Token) /\ wpc' \in {"read", "send"}
    <3>1. CASE closeFound(notifyTag, buf \o chunk)
      <4>1. notifyTag \in Nat
        BY DEF TypeOK
      <4>2. clearTag(notifyTag, buf \o chunk) \in Seq(Token)
        BY <2>1, <3>1, <4>1, ClearTagType
      <4> QED
        BY <1>9, <4>2 DEF Swallow, TypeOK
    <3>2. CASE ~closeFound(notifyTag, buf \o chunk)
      BY <1>9, <3>2 DEF Swallow, TypeOK
    <3> QED
      BY <3>1, <3>2
  <2> QED
    BY <1>9, <1>2, <1>3, <1>4, <1>6, <1>7, <2>1, <2>2 DEF Swallow, Swallowed, TypeOK
<1>10. ASSUME NEW r \in Requesters, Accept(chunk, r)
       PROVE  TypeOK'
  <2>1. pc' \in [Requesters -> Places]
    BY <1>3, <1>10 DEF Accept, Places
  <2>2. timer' \in [Requesters -> Nat]
    BY <1>4, <1>10 DEF Accept, TimeoutOf
  <2>3. notifyTag' \in 0..MaxReq /\ window' \in 0..Window
    BY <1>10 DEF Accept, TypeOK
  <2>4. buf' \in Seq(Token) /\ UNCHANGED <<wpc, rsp, screen>>
    BY <1>1, <1>10 DEF Accept, Swallowed
  <2> QED
    BY <1>2, <1>6, <1>7, <2>1, <2>2, <2>3, <2>4 DEF TypeOK
<1>11. CASE Display(chunk)
  BY <1>11, <1>2, <1>3, <1>4, <1>5, <1>6, <1>7 DEF Display, Displayed, TypeOK, writerVars
<1> QED
  BY <1>8, <1>9, <1>10, <1>11

(* Every reachable state is well typed, whatever the bounds. *)
THEOREM TypeCorrect == Spec => []TypeOK
<1> USE CaptureAssumption, TokenFacts
<1>1. Init => TypeOK
  <2> SUFFICES ASSUME Init
               PROVE  TypeOK
    OBVIOUS
  <2>1. existing \in {<<>>, OldInfo} /\ saved \in Seq(Token)
    <3>1. existing \in {<<>>, OldInfo} /\ saved = existing
      BY DEF Init
    <3>2. Tok("body", 0) \in Token
      BY DEF Kinds
    <3>3. OldInfo \in Seq(Token)
      BY <3>2 DEF OldInfo
    <3> QED
      BY <3>1, <3>3, EmptySeq
  <2>2. pc \in [Requesters -> Places]
    BY DEF Init, Places
  <2>3. result \in [Requesters -> Result]
    BY EmptySeq DEF Init, Result, NoResult
  <2>4. /\ lines \in Seq({"dl", "hostinfo", "up"}) /\ Len(lines) <= MaxReq
        /\ input \in Seq(0..MaxReq)
        /\ out \in Seq(Token) /\ buf \in Seq(Token) /\ rsp \in Seq(Token)
    <3>1. lines = <<>> /\ input = <<>> /\ out = <<>> /\ buf = <<>> /\ rsp = <<>>
      BY DEF Init
    <3>2. Len(<<>>) = 0 /\ \A S : <<>> \in Seq(S)
      BY EmptySeq
    <3> QED
      BY <3>1, <3>2
  <2>5. /\ cmd \in [Requesters -> {"dl", "hostinfo", "up"}]
        /\ tag \in [Requesters -> 0..MaxReq]
        /\ timer \in [Requesters -> Nat]
    BY DEF Init
  <2>6. /\ shell = "login" /\ printed = {} /\ noise = 0 /\ wpc = "read"
        /\ notifyTag = 0 /\ window = 0 /\ screen = {} /\ ready = FALSE
    BY DEF Init
  <2> QED
    <3>1. shell \in {"login", "prompt", "run"} /\ shell # "run" /\ wpc \in {"read", "send"}
      BY <2>6
    <3>2. noise \in 0..MaxNoise /\ notifyTag \in 0..MaxReq /\ window \in 0..Window
      BY <2>6
    <3>3. printed \subseteq 1..MaxReq /\ screen \subseteq Token /\ ready \in BOOLEAN
      BY <2>6, Zenon
    <3> QED
      BY <2>1, <2>2, <2>3, <2>4, <2>5, <3>1, <3>2, <3>3 DEF TypeOK
<1>2. TypeOK /\ [Next]_vars => TypeOK'
  <2> SUFFICES ASSUME TypeOK, [Next]_vars
               PROVE  TypeOK'
    OBVIOUS
  <2> USE DEF requestVars, remoteVars, writerVars, hostInfoVars
  <2>1. CASE CheckPrompt
    BY <2>1 DEF CheckPrompt, TypeOK, Places
  <2>2. CASE AwaitPrompt
    <3>1. pc' \in [Requesters -> Places]
      BY <2>2 DEF AwaitPrompt, TypeOK, Places
    <3>2. timer' \in [Requesters -> Nat]
      BY <2>2 DEF AwaitPrompt, TypeOK
    <3> QED
      BY <2>2, <3>1, <3>2 DEF AwaitPrompt, TypeOK
  <2>3. CASE PromptTimedOut
    BY <2>3 DEF PromptTimedOut, TypeOK, Places
  <2>4. ASSUME NEW r \in Requesters, NEW c \in {"dl", "hostinfo", "up"}, Ask(r, c)
        PROVE  TypeOK'
    <3>1. Len(lines) + 1 \in 0..MaxReq /\ Len(lines) + 1 # 0
      BY <2>4, LenProperties DEF Ask, TypeOK
    <3>2. lines' \in Seq({"dl", "hostinfo", "up"}) /\ Len(lines') <= MaxReq
      BY <2>4, <3>1, AppendProperties DEF Ask, TypeOK
    <3>3. input' \in Seq(0..MaxReq) /\ (shell = "run" => input' # <<>> /\ Head(input') # 0)
      <4>1. input' = Append(input, Len(lines) + 1)
        BY <2>4 DEF Ask, FreshTag
      <4>2. input # <<>> => Head(input') = Head(input)
        BY <3>1, <4>1, HeadTailAppend DEF TypeOK
      <4>3. input' \in Seq(0..MaxReq) /\ input' # <<>>
        <5>1. input \in Seq(0..MaxReq)
          BY DEF TypeOK
        <5> QED
          BY <3>1, <4>1, <5>1, AppendProperties
      <4>4. shell = "run" => input # <<>> /\ Head(input) # 0
        BY DEF TypeOK
      <4> QED
        BY <4>2, <4>3, <4>4, Zenon
    <3>4. pc' \in [Requesters -> Places]
      BY <2>4 DEF Ask, TypeOK, Places
    <3>5. tag' \in [Requesters -> 0..MaxReq]
      BY <2>4, <3>1 DEF Ask, FreshTag, TypeOK
    <3>6. cmd' \in [Requesters -> {"dl", "hostinfo", "up"}]
      BY <2>4 DEF Ask, TypeOK
    <3>7. out' \in Seq(Token)
      <4>1. EchoNow(FreshTag(r)) \in Seq(Token)
        BY <3>1, EmptySeq DEF EchoNow, FreshTag, Kinds
      <4> QED
        BY <2>4, <4>1, ConcatProperties DEF Ask, TypeOK
    <3> QED
      BY <2>4, <3>2, <3>3, <3>4, <3>5, <3>6, <3>7 DEF Ask, TypeOK
  <2>5. ASSUME NEW r \in Requesters, Notify(r)
        PROVE  TypeOK'
    BY <2>5 DEF Notify, TypeOK, Places
  <2>6. ASSUME NEW r \in Requesters, TimedOut(r)
        PROVE  TypeOK'
    <3>1. [tag |-> tag[r], from |-> 0, body |-> <<>>] \in Result
      BY EmptySeq DEF TypeOK, Result
    <3>2. pc' \in [Requesters -> Places] /\ result' \in [Requesters -> Result]
      BY <2>6, <3>1 DEF TimedOut, TypeOK, AfterRequest, Places
    <3> QED
      BY <2>6, <3>2 DEF TimedOut, TypeOK
  <2>7. ASSUME NEW r \in Requesters, Deliver(r)
        PROVE  TypeOK'
    <3>1. [tag |-> tag[r], from |-> notifyTag, body |-> rsp] \in Result
      BY DEF TypeOK, Result
    <3>2. pc' \in [Requesters -> Places] /\ result' \in [Requesters -> Result]
      BY <2>7, <3>1 DEF Deliver, TypeOK, AfterRequest, Places
    <3>3. saved' \in Seq(Token)
      BY <2>7 DEF Deliver, SaveHostInfo, TypeOK
    <3>4. timer' \in [Requesters -> Nat] /\ wpc' \in {"read", "send"}
      BY <2>7 DEF Deliver, TypeOK
    <3>5. buf' \in Seq(Token) /\ rsp' \in Seq(Token) /\ notifyTag' \in 0..MaxReq /\ window' \in 0..Window
      BY <2>7, EmptySeq DEF Deliver, ResetCapture
    <3> QED
      BY <2>7, <3>2, <3>3, <3>4, <3>5 DEF Deliver, TypeOK
  <2>8. CASE EndCommand
    <3>1. input' \in Seq(0..MaxReq) /\ (shell = "run" => input' # <<>> /\ Head(input') # 0)
      <4>1. input' = Append(input, 0) /\ 0 \in 0..MaxReq
        BY <2>8 DEF EndCommand
      <4>2. input # <<>> => Head(input') = Head(input)
        BY <4>1, HeadTailAppend DEF TypeOK
      <4>3. input' \in Seq(0..MaxReq) /\ input' # <<>>
        <5>1. input \in Seq(0..MaxReq)
          BY DEF TypeOK
        <5> QED
          BY <4>1, <5>1, AppendProperties
      <4>4. shell = "run" => input # <<>> /\ Head(input) # 0
        BY DEF TypeOK
      <4> QED
        BY <4>2, <4>3, <4>4, Zenon
    <3> QED
      BY <2>8, <3>1 DEF EndCommand, TypeOK, Places
  <2>9. ASSUME NEW n \in 1..Len(out), Read(n)
        PROVE  TypeOK'
    BY <2>9, ReadType
  <2>10. CASE Login
    BY <2>10, AppendProperties DEF Login, TypeOK
  <2>11. CASE ShellEnter
    BY <2>11, AppendProperties, HeadTailProperties DEF ShellEnter, TypeOK
  <2>12. CASE ShellStart
    <3>1. Head(input) \in 0..MaxReq
      BY <2>12, HeadTailProperties DEF ShellStart, TypeOK
    <3>2. <<Tok("echo", Head(input)), Tok("open", Head(input))>> \in Seq(Token)
      BY <3>1 DEF Kinds
    <3>3. out' \in Seq(Token)
      BY <2>12, <3>2, ConcatProperties DEF ShellStart, TypeOK
    <3> QED
      BY <2>12, <3>3 DEF ShellStart, TypeOK
  <2>13. ASSUME NEW prints \in BOOLEAN, ShellFinish(prints)
         PROVE  TypeOK'
    <3>1. Head(input) \in 1..MaxReq /\ Tail(input) \in Seq(0..MaxReq)
      BY <2>13, HeadTailProperties DEF ShellFinish, TypeOK
    <3>2. <<Tok("close", Head(input)), Prompt>> \in Seq(Token)
      BY <3>1 DEF Kinds
    <3>3. (IF prints THEN <<Tok("body", Head(input))>> ELSE <<>>) \in Seq(Token)
      BY <3>1 DEF Kinds
    <3>4. out' \in Seq(Token)
      BY <2>13, <3>2, <3>3, ConcatProperties DEF ShellFinish, TypeOK
    <3> QED
      BY <2>13, <3>1, <3>4 DEF ShellFinish, TypeOK
  <2>14. CASE Chatter
    BY <2>14, AppendProperties DEF Chatter, TypeOK
  <2>15. CASE Tick
    <3>1. window' \in 0..Window
      BY <2>15 DEF Tick, Decrement, TypeOK
    <3>2. timer' \in [Requesters -> Nat]
      BY <2>15 DEF Tick, Decrement, TypeOK
    <3> QED
      BY <2>15, <3>1, <3>2 DEF Tick, TypeOK
  <2>16. CASE UNCHANGED vars
    BY <2>16 DEF vars, TypeOK
  <2> QED
    BY <2>1, <2>2, <2>3, <2>4, <2>5, <2>6, <2>7, <2>8, <2>9, <2>10, <2>11, <2>12,
       <2>13, <2>14, <2>15, <2>16 DEF Next, RequesterNext, RemoteNext
<1> QED
  BY <1>1, <1>2, PTL DEF Spec

-----------------------------------------------------------------------------
(* Whose answer: what is handed over was asked for, and only once. *)

(* Tags are given out one after the other, each to one request. *)
TagInv ==
  /\ cmd["main"] = "hostinfo"
  /\ \A r \in Requesters : tag[r] <= Len(lines)
  /\ \A r \in Requesters : tag[r] # 0 => lines[tag[r]] = cmd[r]
  /\ \A r \in Requesters : pc[r] \in {"wrote", "notify", "wait"} => tag[r] # 0
  /\ \A q, r \in Requesters : q # r /\ tag[q] # 0 => tag[q] # tag[r]
  /\ \A r \in Requesters : result[r].tag <= Len(lines) /\ result[r].from <= Len(lines)
  /\ \A r \in Requesters : result[r].from # 0 => result[r].tag # 0
  /\ notifyTag <= Len(lines)

(* The writer does not look for a tag before it was handed over, and what  *)
(* it looks for nobody was given.                                          *)
OnceInv ==
  /\ \A r \in Requesters : pc[r] \in {"wrote", "notify"} =>
       notifyTag # tag[r] /\ \A q \in Requesters : result[q].from # tag[r]
  /\ notifyTag # 0 => \A q \in Requesters : result[q].from # notifyTag

(* While a .dl waits, the writer looks for its tag and goes on doing so     *)
(* longer than the .dl waits, unless main was given the answer: then main  *)
(* is done, and nobody else hands over a tag.                              *)
Owned(r) ==
  pc[r] = "wait" /\ cmd[r] = "dl" =>
    \/ notifyTag = tag[r] /\ timer[r] < window
    \/ notifyTag = 0 /\ pc["main"] = "done"

OwnInv == TagInv /\ OnceInv /\ (\A r \in Requesters : Owned(r)) /\ ResponseIsOwn

(* The first state has no request. *)
LEMMA OwnInit == Init => OwnInv
<1> SUFFICES ASSUME Init
             PROVE  OwnInv
  OBVIOUS
<1>1. \A r \in Requesters : cmd[r] = "hostinfo" /\ tag[r] = 0 /\ result[r] = NoResult
  BY DEF Init
<1>2. \A r \in Requesters : pc[r] \in {"boot", "done", "idle"}
  BY DEF Init
<1>3. Len(lines) = 0 /\ notifyTag = 0
  BY EmptySeq DEF Init
<1>4. TagInv
  BY <1>1, <1>2, <1>3 DEF TagInv, Requesters, NoResult
<1>5. OnceInv /\ (\A r \in Requesters : Owned(r)) /\ ResponseIsOwn
  BY <1>1, <1>2, <1>3 DEF OnceInv, Owned, ResponseIsOwn, NoResult
<1> QED
  BY <1>4, <1>5 DEF OwnInv

(* Steps outside the rendezvous on the two channels keep it. *)
LEMMA OwnUntouched ==
  ASSUME OwnInv, UNCHANGED <<cmd, tag, result, lines, notifyTag, window>>,
         \A r \in Requesters :
           /\ pc'[r] \in {"wrote", "notify"} => pc[r] \in {"wrote", "notify"}
           /\ pc'[r] = "wait" => pc[r] = "wait" /\ timer'[r] = timer[r]
           /\ pc[r] = "done" => pc'[r] = "done"
  PROVE  OwnInv'
<1>1. "main" \in Requesters
  BY DEF Requesters
<1>2. TagInv'
  BY DEF OwnInv, TagInv
<1>3. OnceInv'
  BY DEF OwnInv, OnceInv
<1>4. \A r \in Requesters : Owned(r)'
  BY <1>1 DEF OwnInv, Owned
<1>5. ResponseIsOwn'
  BY DEF OwnInv, ResponseIsOwn
<1> QED
  BY <1>2, <1>3, <1>4, <1>5 DEF OwnInv

(* A chunk is read: no other notification is accepted while a .dl waits.    *)
LEMMA OwnRead ==
  ASSUME TypeOK, OwnInv, NEW n \in 1..Len(out), Read(n)
  PROVE  OwnInv'
<1> USE CaptureAssumption
<1> DEFINE chunk == SubSeq(out, 1, n)
<1>1. UNCHANGED <<cmd, tag, result, lines>>
  BY DEF Read
<1>2. \/ Swallow(chunk)
      \/ \E r \in Requesters : Accept(chunk, r)
      \/ Display(chunk)
  BY DEF Read
<1> HIDE DEF chunk
<1>3. \A r \in Requesters :
        /\ AfterPrompt(chunk)[r] = pc[r] \/ (pc[r] = "prompt" /\ AfterPrompt(chunk)[r] = "idle")
        /\ AfterPrompt(chunk)[r] = "wait" => TimerAfterPrompt(chunk)[r] = timer[r]
  BY DEF AfterPrompt, TimerAfterPrompt, WakesMain, TypeOK
<1>4. ASSUME pc' = AfterPrompt(chunk), timer' = TimerAfterPrompt(chunk), UNCHANGED <<notifyTag, window>>
      PROVE  OwnInv'
  BY <1>1, <1>3, <1>4, OwnUntouched
<1>5. CASE Swallow(chunk)
  BY <1>4, <1>5 DEF Swallow
<1>6. CASE Display(chunk)
  BY <1>4, <1>6 DEF Display, writerVars
<1>7. ASSUME NEW r \in Requesters, Accept(chunk, r)
      PROVE  OwnInv'
  <2>1. pc[r] = "notify" /\ tag[r] # 0 /\ ~Capturing
    BY <1>7 DEF Accept, Selects, OwnInv, TagInv
  <2>2. notifyTag' = tag[r] /\ window' = Window
    BY <1>7 DEF Accept
  <2>3. pc'[r] = "wait" /\ \A q \in Requesters : q # r => pc'[q] = AfterPrompt(chunk)[q]
    BY <1>7 DEF Accept, AfterPrompt, TypeOK
  <2>4. cmd[r] = "dl" => timer'[r] = ShortTimeout
    BY <1>7 DEF Accept, Timed, TimeoutOf, TimerAfterPrompt, TypeOK
  <2>5. ASSUME NEW q \in Requesters, q # r
        PROVE  ~(pc'[q] = "wait" /\ cmd[q] = "dl")
    <3> SUFFICES ASSUME pc'[q] = "wait", cmd[q] = "dl"
                 PROVE  FALSE
      OBVIOUS
    <3>1. pc[q] = "wait" /\ q # "main" /\ r = "main"
      BY <1>3, <2>3, <2>5 DEF OwnInv, TagInv, Requesters
    <3>2. notifyTag = tag[q] /\ timer[q] < window
      BY <2>1, <2>5, <3>1 DEF OwnInv, Owned
    <3>3. tag[q] # 0 /\ timer[q] \in Nat /\ window \in Nat
      BY <3>1 DEF OwnInv, TagInv, TypeOK
    <3> QED
      BY <2>1, <3>2, <3>3 DEF Capturing
  <2>6. TagInv'
    BY <1>1, <1>3, <2>1, <2>2, <2>3 DEF OwnInv, TagInv
  <2>7. OnceInv'
    <3>1. \A q \in Requesters : pc'[q] \in {"wrote", "notify"} => q # r /\ pc[q] \in {"wrote", "notify"}
      BY <1>3, <2>3
    <3>2. \A q \in Requesters : q # r => tag[q] # tag[r]
      BY <2>1 DEF OwnInv, TagInv
    <3>3. \A q \in Requesters : result[q].from # tag[r]
      BY <2>1 DEF OwnInv, OnceInv
    <3> QED
      BY <1>1, <2>2, <3>1, <3>2, <3>3 DEF OwnInv, OnceInv
  <2>8. \A q \in Requesters : Owned(q)'
    BY <1>1, <2>2, <2>4, <2>5 DEF Owned
  <2> QED
    BY <1>1, <2>6, <2>7, <2>8 DEF OwnInv, ResponseIsOwn
<1> QED
  BY <1>2, <1>5, <1>6, <1>7

(* A request gets a tag that nobody has seen. *)
LEMMA OwnAsk ==
  ASSUME TypeOK, OwnInv, NEW r \in Requesters, NEW c \in {"dl", "hostinfo", "up"}, Ask(r, c)
  PROVE  OwnInv'
<1> USE CaptureAssumption DEF writerVars
<1> DEFINE t == Len(lines) + 1
<1>1. UNCHANGED <<timer, result, notifyTag, window>>
  BY DEF Ask
<1>2. pc'[r] = "wrote" /\ tag'[r] = t /\ cmd'[r] = c /\ pc[r] \in {"idle", "ran"} /\ (r = "main" => c = "hostinfo")
  BY DEF Ask, FreshTag, TypeOK, OwnInv, TagInv
<1>3. \A q \in Requesters : q # r => pc'[q] = pc[q] /\ tag'[q] = tag[q] /\ cmd'[q] = cmd[q]
  BY DEF Ask, TypeOK
<1>4. /\ Len(lines') = t /\ Len(lines) \in Nat
      /\ \A i \in 1..Len(lines) : lines'[i] = lines[i]
      /\ lines'[t] = c
  BY AppendProperties, LenProperties DEF Ask, TypeOK
<1>5. \A q \in Requesters : tag[q] \in 0..Len(lines) /\ result[q].tag \in 0..Len(lines) /\ result[q].from \in 0..Len(lines)
  BY <1>4 DEF OwnInv, TagInv, TypeOK, Result
<1>6. notifyTag \in 0..Len(lines)
  BY <1>4 DEF OwnInv, TagInv, TypeOK
<1> HIDE DEF t
<1>7. t \in Nat /\ \A i \in 0..Len(lines) : i < t
  BY <1>4 DEF t
<1>8. TagInv'
  <2>1. cmd'["main"] = "hostinfo"
    BY <1>2, <1>3 DEF OwnInv, TagInv, Requesters
  <2>2. \A q \in Requesters : tag'[q] <= Len(lines')
    BY <1>2, <1>3, <1>4, <1>5, <1>7
  <2>3. \A q \in Requesters : tag'[q] # 0 => lines'[tag'[q]] = cmd'[q]
    <3> SUFFICES ASSUME NEW q \in Requesters, q # r, tag[q] # 0
                 PROVE  lines'[tag[q]] = cmd[q]
      BY <1>2, <1>3, <1>4
    <3>1. tag[q] \in 1..Len(lines) /\ lines[tag[q]] = cmd[q]
      BY <1>4, <1>5 DEF OwnInv, TagInv
    <3> QED
      BY <1>4, <3>1
  <2>4. \A q \in Requesters : pc'[q] \in {"wrote", "notify", "wait"} => tag'[q] # 0
    BY <1>2, <1>3, <1>4, <1>7 DEF OwnInv, TagInv, t
  <2>5. \A p, q \in Requesters : p # q /\ tag'[p] # 0 => tag'[p] # tag'[q]
    <3>1. \A q \in Requesters : q # r => tag'[q] < t
      BY <1>3, <1>5, <1>7
    <3> QED
      BY <1>2, <1>3, <1>7, <3>1 DEF OwnInv, TagInv
  <2>6. \A q \in Requesters : result'[q].tag <= Len(lines') /\ result'[q].from <= Len(lines')
    BY <1>1, <1>4, <1>5, <1>7
  <2>7. notifyTag' <= Len(lines') /\ \A q \in Requesters : result'[q].from # 0 => result'[q].tag # 0
    BY <1>1, <1>4, <1>6, <1>7 DEF OwnInv, TagInv
  <2> QED
    BY <2>1, <2>2, <2>3, <2>4, <2>5, <2>6, <2>7 DEF TagInv
<1>9. OnceInv'
  <2>1. notifyTag # t /\ \A q \in Requesters : result[q].from # t
    BY <1>5, <1>6, <1>7
  <2> QED
    BY <1>1, <1>2, <1>3, <2>1 DEF OwnInv, OnceInv
<1>10. \A q \in Requesters : Owned(q)'
  BY <1>1, <1>2, <1>3 DEF OwnInv, Owned, Requesters
<1>11. ResponseIsOwn'
  <2> SUFFICES ASSUME NEW q \in Requesters, result[q].from \notin {0, result[q].tag}
               PROVE  lines'[result[q].tag] # "dl"
    BY <1>1 DEF ResponseIsOwn
  <2>1. result[q].tag \in 1..Len(lines)
    BY <1>4, <1>5 DEF OwnInv, TagInv
  <2>2. lines[result[q].tag] # "dl"
    BY DEF OwnInv, ResponseIsOwn
  <2> QED
    BY <1>4, <2>1, <2>2
<1> QED
  BY <1>8, <1>9, <1>10, <1>11 DEF OwnInv

(* The rendezvous on notifyRspC: a .dl takes its own answer, or none. *)
LEMMA OwnDeliver ==
  ASSUME TypeOK, OwnInv, NEW r \in Requesters, Deliver(r)
  PROVE  OwnInv'
<1>1. UNCHANGED <<cmd, tag, lines>> /\ notifyTag' = 0 /\ pc[r] = "wait"
  BY DEF Deliver, ResetCapture, Listening
<1>2. pc'[r] = AfterRequest(r) /\ \A q \in Requesters : q # r => pc'[q] = pc[q]
  BY DEF Deliver, TypeOK
<1>3. result'[r].tag = tag[r] /\ result'[r].from = notifyTag /\ \A q \in Requesters : q # r => result'[q] = result[q]
  BY DEF Deliver, TypeOK
<1>4. \A q \in Requesters : tag[q] \in Nat /\ Len(lines) \in Nat
  BY LenProperties DEF TypeOK
<1>5. pc'[r] \notin {"wrote", "notify", "wait"}
  BY <1>2 DEF AfterRequest
<1>6. TagInv'
  BY <1>1, <1>2, <1>3, <1>4, <1>5 DEF OwnInv, TagInv
<1>7. OnceInv'
  <2> SUFFICES ASSUME NEW q \in Requesters, pc'[q] \in {"wrote", "notify"}, NEW p \in Requesters
               PROVE  tag[q] # 0 /\ result'[p].from # tag[q]
    BY <1>1 DEF OnceInv
  <2>1. pc[q] \in {"wrote", "notify"} /\ tag[q] # 0
    BY <1>2, <1>5 DEF OwnInv, TagInv
  <2> QED
    BY <1>3, <2>1 DEF OwnInv, OnceInv
<1>8. \A q \in Requesters : Owned(q)'
  <2> SUFFICES ASSUME NEW q \in Requesters, pc'[q] = "wait", cmd[q] = "dl"
               PROVE  pc'["main"] = "done"
    BY <1>1 DEF Owned
  <2>1. q # r /\ q # "main" /\ r = "main"
    BY <1>5 DEF OwnInv, TagInv, Requesters
  <2> QED
    BY <1>2, <2>1 DEF AfterRequest
<1>9. ResponseIsOwn'
  <2> SUFFICES ASSUME NEW q \in Requesters, result'[q].from \notin {0, result'[q].tag}
               PROVE  lines[result'[q].tag] # "dl"
    BY <1>1 DEF ResponseIsOwn
  <2>1. CASE q # r
    BY <1>3, <2>1 DEF OwnInv, ResponseIsOwn
  <2>2. CASE q = r
    <3>1. notifyTag \notin {0, tag[r]} /\ tag[r] # 0
      BY <1>1, <1>3, <2>2 DEF OwnInv, TagInv
    <3>2. cmd[r] # "dl"
      BY <1>1, <3>1 DEF OwnInv, Owned
    <3> QED
      BY <1>3, <2>2, <3>1, <3>2 DEF OwnInv, TagInv
  <2> QED
    BY <2>1, <2>2
<1> QED
  BY <1>6, <1>7, <1>8, <1>9 DEF OwnInv

(* Every step preserves it. *)
LEMMA OwnStep ==
  ASSUME TypeOK, OwnInv, [Next]_vars
  PROVE  OwnInv'
<1> USE CaptureAssumption DEF requestVars, remoteVars, writerVars, hostInfoVars
<1>1. CASE CheckPrompt \/ AwaitPrompt
  <2>1. UNCHANGED <<cmd, tag, result, lines, notifyTag, window>>
    BY <1>1 DEF CheckPrompt, AwaitPrompt
  <2>2. \A r \in Requesters : \/ pc'[r] = pc[r] /\ (pc[r] = "wait" => timer'[r] = timer[r])
                              \/ pc[r] \in {"boot", "checked"} /\ pc'[r] \in {"idle", "checked", "prompt"}
    BY <1>1 DEF CheckPrompt, AwaitPrompt, TypeOK
  <2> QED
    BY <2>1, <2>2, OwnUntouched
<1>2. CASE PromptTimedOut \/ EndCommand
  <2>1. UNCHANGED <<cmd, tag, result, lines, notifyTag, window, timer>>
    BY <1>2 DEF PromptTimedOut, EndCommand
  <2>2. \A r \in Requesters : pc'[r] = pc[r] \/ (pc[r] \in {"prompt", "ran"} /\ pc'[r] \in {"idle", "done"})
    BY <1>2 DEF PromptTimedOut, EndCommand, TypeOK
  <2> QED
    BY <2>1, <2>2, OwnUntouched
<1>3. ASSUME NEW r \in Requesters, NEW c \in {"dl", "hostinfo", "up"}, Ask(r, c)
      PROVE  OwnInv'
  BY <1>3, OwnAsk
<1>4. ASSUME NEW r \in Requesters, Notify(r)
      PROVE  OwnInv'
  <2>1. UNCHANGED <<cmd, tag, result, lines, notifyTag, window, timer>>
    BY <1>4 DEF Notify
  <2>2. \A q \in Requesters : pc'[q] = pc[q] \/ (pc[q] = "wrote" /\ pc'[q] = "notify")
    BY <1>4 DEF Notify, TypeOK
  <2> QED
    BY <2>1, <2>2, OwnUntouched
<1>5. ASSUME NEW r \in Requesters, TimedOut(r)
      PROVE  OwnInv'
  <2>1. UNCHANGED <<cmd, tag, lines, notifyTag, window, timer>> /\ pc[r] = "wait"
    BY <1>5 DEF TimedOut
  <2>2. pc'[r] \in {"done", "ran"} /\ \A q \in Requesters : q # r => pc'[q] = pc[q]
    BY <1>5 DEF TimedOut, AfterRequest, TypeOK
  <2>3. result'[r].tag = tag[r] /\ result'[r].from = 0 /\ \A q \in Requesters : q # r => result'[q] = result[q]
    BY <1>5 DEF TimedOut, TypeOK
  <2>4. Len(lines) \in Nat
    BY LenProperties DEF TypeOK
  <2>5. TagInv'
    BY <2>1, <2>2, <2>3, <2>4 DEF OwnInv, TagInv
  <2>6. OnceInv'
    BY <2>1, <2>2, <2>3 DEF OwnInv, OnceInv, TagInv
  <2>7. \A q \in Requesters : Owned(q)'
    <3>1. pc["main"] = "done" => pc'["main"] = "done"
      BY <2>1, <2>2 DEF Requesters
    <3> QED
      BY <2>1, <2>2, <3>1 DEF OwnInv, Owned
  <2>8. ResponseIsOwn'
    BY <2>1, <2>3 DEF OwnInv, ResponseIsOwn
  <2> QED
    BY <2>5, <2>6, <2>7, <2>8 DEF OwnInv
<1>6. ASSUME NEW r \in Requesters, Deliver(r)
      PROVE  OwnInv'
  BY <1>6, OwnDeliver
<1>7. ASSUME NEW n \in 1..Len(out), Read(n)
      PROVE  OwnInv'
  BY <1>7, OwnRead
<1>8. CASE RemoteNext \/ UNCHANGED vars
  <2>1. UNCHANGED <<pc, cmd, tag, result, lines, notifyTag, window, timer>>
    BY <1>8 DEF RemoteNext, Login, ShellEnter, ShellStart, ShellFinish, Chatter, vars
  <2> QED
    BY <2>1, OwnUntouched
<1>9. CASE Tick
  <2>1. UNCHANGED <<pc, cmd, tag, result, lines, notifyTag>>
    BY <1>9 DEF Tick
  <2>2. window \in Nat /\ window' = Decrement(window) /\ \A r \in Requesters : timer[r] \in Nat /\ timer'[r] = Decrement(timer[r])
    BY <1>9 DEF Tick, TypeOK
  <2>3. \A r \in Requesters : Owned(r)'
    <3> SUFFICES ASSUME NEW r \in Requesters, pc[r] = "wait", cmd[r] = "dl", notifyTag = tag[r], timer[r] < window
                 PROVE  timer'[r] < window'
      BY <2>1 DEF OwnInv, Owned
    <3>1. timer[r] > 0
      BY <1>9, <2>2 DEF Tick, Overdue, Timed
    <3> QED
      BY <2>2, <3>1 DEF Decrement
  <2> QED
    BY <2>1, <2>3 DEF OwnInv, TagInv, OnceInv, ResponseIsOwn
<1> QED
  BY <1>1, <1>2, <1>3, <1>4, <1>5, <1>6, <1>7, <1>8, <1>9
  DEF Next, RequesterNext

LEMMA OwnCorrect == Spec => []OwnInv
<1>1. TypeOK /\ OwnInv /\ [Next]_vars => OwnInv'
  BY OwnStep
<1> QED
  BY <1>1, OwnInit, TypeCorrect, PTL DEF Spec

(* A .dl that gets an answer gets the one to its own command, whatever else *)
(* was asked at the same time: its 3 s are over before the writer's 15 s,   *)
(* so that the writer never looks for another tag while a .dl waits.        *)
THEOREM AnswersAreOwn == Spec => []ResponseIsOwn
<1>1. OwnInv => ResponseIsOwn
  BY DEF OwnInv
<1> QED
  BY <1>1, OwnCorrect, PTL

-----------------------------------------------------------------------------
(* Capture implements Request. *)

(* Steps that keep requesters inside or outside their requests stutter. *)
LEMMA Stutter ==
  ASSUME UNCHANGED <<lines, result, tag>>,
         \A r \in Requesters : (pc'[r] \in {"wrote", "notify", "wait"}) = (pc[r] \in {"wrote", "notify", "wait"})
  PROVE  UNCHANGED Abstract!vars
<1>1. Pending' = Pending
  BY DEF Pending
<1>2. Outcome' = Outcome
  BY DEF Outcome
<1> QED
  BY <1>1, <1>2 DEF Abstract!vars

(* Every step of Capture is a step of Request, or changes nothing there. *)
LEMMA RequestStep ==
  ASSUME TypeOK, OwnInv, [Next]_vars
  PROVE  [Abstract!Next]_Abstract!vars
<1> USE CaptureAssumption DEF requestVars, remoteVars, writerVars, hostInfoVars
<1>1. CASE CheckPrompt \/ AwaitPrompt \/ PromptTimedOut \/ EndCommand
  <2>1. UNCHANGED <<lines, result, tag>>
    BY <1>1 DEF CheckPrompt, AwaitPrompt, PromptTimedOut, EndCommand
  <2>2. \A r \in Requesters : (pc'[r] \in {"wrote", "notify", "wait"}) = (pc[r] \in {"wrote", "notify", "wait"})
    <3>1. CASE CheckPrompt \/ AwaitPrompt
      BY <3>1 DEF CheckPrompt, AwaitPrompt, TypeOK
    <3>2. CASE PromptTimedOut
      BY <3>2 DEF PromptTimedOut, TypeOK
    <3>3. CASE EndCommand
      BY <3>3 DEF EndCommand, TypeOK
    <3> QED
      BY <1>1, <3>1, <3>2, <3>3
  <2> QED
    BY <2>1, <2>2, Stutter
<1>2. ASSUME NEW r \in Requesters, NEW c \in {"dl", "hostinfo", "up"}, Ask(r, c)
      PROVE  Abstract!Ask(r)
  <2>1. Pending[r] = 0 /\ Len(lines) < MaxReq /\ lines' = Append(lines, c)
    BY <1>2 DEF Ask, Pending
  <2>2. Pending' = [Pending EXCEPT ![r] = Len(lines) + 1]
    BY <1>2 DEF Ask, Pending, FreshTag, TypeOK
  <2>3. Outcome' = Outcome
    BY <1>2 DEF Ask, Outcome
  <2> QED
    BY <2>1, <2>2, <2>3 DEF Abstract!Ask
<1>3. ASSUME NEW r \in Requesters, Notify(r)
      PROVE  UNCHANGED Abstract!vars
  <2>1. UNCHANGED <<lines, result, tag>>
    BY <1>3 DEF Notify
  <2>2. \A q \in Requesters : (pc'[q] \in {"wrote", "notify", "wait"}) = (pc[q] \in {"wrote", "notify", "wait"})
    BY <1>3 DEF Notify, TypeOK
  <2> QED
    BY <2>1, <2>2, Stutter
<1>4. ASSUME NEW r \in Requesters, NEW from \in 0..MaxReq, pc[r] = "wait",
             from \notin {0, tag[r]} => cmd[r] # "dl",
             from # 0 => \A q \in Requesters : result[q].from # from,
             pc' = [pc EXCEPT ![r] = AfterRequest(r)], UNCHANGED <<lines, tag>>,
             result'[r].tag = tag[r], result'[r].from = from,
             \A q \in Requesters : q # r => result'[q] = result[q]
      PROVE  Abstract!Return(r, from)
  <2>1. Pending[r] = tag[r] /\ tag[r] # 0 /\ lines[tag[r]] = cmd[r]
    BY <1>4 DEF Pending, OwnInv, TagInv
  <2>2. Pending' = [Pending EXCEPT ![r] = 0]
    BY <1>4 DEF Pending, AfterRequest, TypeOK
  <2>3. Outcome' = [Outcome EXCEPT ![r] = [tag |-> Pending[r], from |-> from]]
    BY <1>4, <2>1 DEF Outcome
  <2>4. from \notin {0, Pending[r]} => lines[Pending[r]] # "dl"
    BY <1>4, <2>1
  <2>5. from # 0 => \A q \in Requesters : Outcome[q].from # from
    BY <1>4 DEF Outcome
  <2> QED
    BY <1>4, <2>1, <2>2, <2>3, <2>4, <2>5 DEF Abstract!Return
<1>5. ASSUME NEW r \in Requesters, TimedOut(r)
      PROVE  Abstract!Return(r, 0)
  <2>1. result'[r].tag = tag[r] /\ result'[r].from = 0
    BY <1>5 DEF TimedOut, TypeOK
  <2>2. \A q \in Requesters : q # r => result'[q] = result[q]
    BY <1>5 DEF TimedOut, TypeOK
  <2>3. pc[r] = "wait" /\ pc' = [pc EXCEPT ![r] = AfterRequest(r)] /\ UNCHANGED <<lines, tag>>
    BY <1>5 DEF TimedOut
  <2>4. 0 \in 0..MaxReq /\ 0 \in {0, tag[r]}
    OBVIOUS
  <2> QED
    BY <1>4, <2>1, <2>2, <2>3, <2>4, Zenon
<1>6. ASSUME NEW r \in Requesters, Deliver(r)
      PROVE  Abstract!Return(r, notifyTag)
  <2>1. result'[r].tag = tag[r] /\ result'[r].from = notifyTag
    BY <1>6 DEF Deliver, TypeOK
  <2>2. \A q \in Requesters : q # r => result'[q] = result[q]
    BY <1>6 DEF Deliver, TypeOK
  <2>3. notifyTag \in 0..MaxReq /\ pc[r] = "wait"
    BY <1>6 DEF Deliver, Listening, TypeOK
  <2>4. notifyTag \notin {0, tag[r]} => cmd[r] # "dl"
    BY <2>3 DEF OwnInv, Owned
  <2>5. notifyTag # 0 => \A q \in Requesters : result[q].from # notifyTag
    BY DEF OwnInv, OnceInv
  <2>6. pc' = [pc EXCEPT ![r] = AfterRequest(r)] /\ UNCHANGED <<lines, tag>>
    BY <1>6 DEF Deliver
  <2> QED
    BY <1>4, <2>1, <2>2, <2>3, <2>4, <2>5, <2>6, Zenon
<1>7. ASSUME NEW n \in 1..Len(out), Read(n)
      PROVE  UNCHANGED Abstract!vars
  <2>1. UNCHANGED <<lines, result, tag>>
    BY <1>7 DEF Read
  <2> DEFINE chunk == SubSeq(out, 1, n)
  <2>2. \/ pc' = AfterPrompt(chunk)
        \/ \E r \in Requesters : pc[r] = "notify" /\ pc' = [AfterPrompt(chunk) EXCEPT ![r] = "wait"]
    BY <1>7 DEF Read, Swallow, Accept, Display
  <2> HIDE DEF chunk
  <2>3. \A q \in Requesters : (AfterPrompt(chunk)[q] \in {"wrote", "notify", "wait"}) = (pc[q] \in {"wrote", "notify", "wait"})
    BY DEF AfterPrompt, WakesMain, TypeOK
  <2>4. \A q \in Requesters : (pc'[q] \in {"wrote", "notify", "wait"}) = (pc[q] \in {"wrote", "notify", "wait"})
    <3>1. CASE pc' = AfterPrompt(chunk)
      BY <2>3, <3>1
    <3>2. ASSUME NEW r \in Requesters, pc[r] = "notify", pc' = [AfterPrompt(chunk) EXCEPT ![r] = "wait"]
          PROVE  \A q \in Requesters : (pc'[q] \in {"wrote", "notify", "wait"}) = (pc[q] \in {"wrote", "notify", "wait"})
      BY <2>3, <3>2 DEF AfterPrompt, TypeOK
    <3> QED
      BY <2>2, <3>1, <3>2
  <2> QED
    BY <2>1, <2>4, Stutter
<1>8. CASE RemoteNext \/ Tick \/ UNCHANGED vars
  <2>1. UNCHANGED <<lines, result, tag, pc>>
    BY <1>8 DEF RemoteNext, Login, ShellEnter, ShellStart, ShellFinish, Chatter, Tick, vars
  <2> QED
    BY <2>1, Stutter
<1>9. \A r \in Requesters : notifyTag \in 0..MaxReq /\ 0 \in 0..MaxReq
  BY DEF TypeOK
<1> QED
  BY <1>1, <1>2, <1>3, <1>5, <1>6, <1>7, <1>8, <1>9 DEF Next, RequesterNext, Abstract!Next

(* The writer, the channels and the remote shell together give a caller of *)
(* executeCmd what the abstract request does: nothing, or an answer that   *)
(* nobody was given before, and for a .dl its own.                         *)
THEOREM RequestsImplemented == Spec => ImplementsRequest
<1>1. Init => Abstract!Init
  <2> SUFFICES ASSUME Init
               PROVE  Abstract!Init
    OBVIOUS
  <2>1. \A r \in Requesters : pc[r] \in {"boot", "done", "idle"}
    BY DEF Init
  <2>2. Pending = [r \in Requesters |-> 0]
    BY <2>1 DEF Pending
  <2>3. Outcome = [r \in Requesters |-> [tag |-> 0, from |-> 0]]
    BY DEF Init, Outcome, NoResult
  <2> QED
    BY <2>2, <2>3 DEF Init, Abstract!Init
<1>2. TypeOK /\ OwnInv /\ [Next]_vars => [Abstract!Next]_Abstract!vars
  BY RequestStep
<1> QED
  BY <1>1, <1>2, TypeCorrect, OwnCorrect, PTL DEF Spec, ImplementsRequest, Abstract!Spec

-----------------------------------------------------------------------------
(* What blocks the writer for ever. *)

(* The tag the writer looks for is that of a request somebody waits for,   *)
(* or of one that was given up and that nothing has followed.              *)
Followed == \E r \in Requesters : GivenUp(r) \/ (pc[r] = "wait" /\ tag[r] = notifyTag)

FreezeInv ==
  /\ notifyTag # 0 => Followed
  /\ wpc = "send" => notifyTag # 0

(* Steps that neither begin nor end a wait keep it. *)
LEMMA FollowedKept ==
  ASSUME FreezeInv, UNCHANGED <<result, notifyTag, wpc>>,
         \A r \in Requesters : (pc'[r] = "wait") = (pc[r] = "wait"),
         \A r \in Requesters : pc[r] = "wait" => tag'[r] = tag[r]
  PROVE  FreezeInv'
  BY DEF FreezeInv, Followed, GivenUp

(* Every step preserves it: only the end of a wait changes a result, and a *)
(* wait begins with the writer's taking its tag.                           *)
LEMMA FreezeStep ==
  ASSUME TypeOK, FreezeInv, [Next]_vars
  PROVE  FreezeInv'
<1> USE DEF requestVars, remoteVars, writerVars, hostInfoVars
<1>1. CASE CheckPrompt \/ AwaitPrompt \/ PromptTimedOut \/ EndCommand
  <2>1. UNCHANGED <<result, notifyTag, wpc, tag>>
    BY <1>1 DEF CheckPrompt, AwaitPrompt, PromptTimedOut, EndCommand
  <2>2. \A r \in Requesters : (pc'[r] = "wait") = (pc[r] = "wait")
    <3>1. CASE CheckPrompt \/ AwaitPrompt
      BY <3>1 DEF CheckPrompt, AwaitPrompt, TypeOK
    <3>2. CASE PromptTimedOut
      BY <3>2 DEF PromptTimedOut, TypeOK
    <3>3. CASE EndCommand
      BY <3>3 DEF EndCommand, TypeOK
    <3> QED
      BY <1>1, <3>1, <3>2, <3>3
  <2> QED
    BY <2>1, <2>2, FollowedKept
<1>2. ASSUME NEW r \in Requesters, NEW c \in {"dl", "hostinfo", "up"}, Ask(r, c)
      PROVE  FreezeInv'
  <2>1. UNCHANGED <<result, notifyTag, wpc>>
    BY <1>2 DEF Ask
  <2>2. pc[r] # "wait" /\ pc'[r] # "wait"
    BY <1>2 DEF Ask, TypeOK
  <2>3. \A q \in Requesters : q # r => pc'[q] = pc[q] /\ tag'[q] = tag[q]
    BY <1>2 DEF Ask, TypeOK
  <2> QED
    BY <2>1, <2>2, <2>3, FollowedKept
<1>3. ASSUME NEW r \in Requesters, Notify(r)
      PROVE  FreezeInv'
  <2>1. UNCHANGED <<result, notifyTag, wpc, tag>>
    BY <1>3 DEF Notify
  <2>2. \A q \in Requesters : (pc'[q] = "wait") = (pc[q] = "wait")
    BY <1>3 DEF Notify, TypeOK
  <2> QED
    BY <2>1, <2>2, FollowedKept
<1>4. ASSUME NEW r \in Requesters, TimedOut(r)
      PROVE  FreezeInv'
  <2>1. UNCHANGED <<tag, notifyTag, wpc>> /\ pc[r] = "wait"
    BY <1>4 DEF TimedOut
  <2>2. pc'[r] # "wait" /\ result'[r].tag = tag[r] /\ result'[r].from = 0
    BY <1>4 DEF TimedOut, AfterRequest, TypeOK
  <2>3. \A q \in Requesters : q # r => pc'[q] = pc[q] /\ result'[q] = result[q]
    BY <1>4 DEF TimedOut, TypeOK
  <2>4. Followed => Followed'
    BY <2>1, <2>2, <2>3 DEF Followed, GivenUp
  <2> QED
    BY <2>1, <2>4 DEF FreezeInv
<1>5. ASSUME NEW r \in Requesters, Deliver(r)
      PROVE  FreezeInv'
  <2>1. wpc' = "read" /\ notifyTag' = 0
    BY <1>5 DEF Deliver, ResetCapture
  <2> QED
    BY <2>1 DEF FreezeInv
<1>6. ASSUME NEW n \in 1..Len(out), Read(n)
      PROVE  FreezeInv'
  <2> DEFINE chunk == SubSeq(out, 1, n)
  <2>1. UNCHANGED <<tag, result>> /\ wpc = "read"
    BY <1>6 DEF Read
  <2>2. \/ Swallow(chunk)
        \/ \E r \in Requesters : Accept(chunk, r)
        \/ Display(chunk)
    BY <1>6 DEF Read
  <2> HIDE DEF chunk
  <2>3. \A r \in Requesters : (AfterPrompt(chunk)[r] = "wait") = (pc[r] = "wait")
    BY DEF AfterPrompt, WakesMain, TypeOK
  <2>4. CASE Swallow(chunk)
    <3>1. Capturing /\ UNCHANGED notifyTag /\ pc' = AfterPrompt(chunk)
      BY <2>4 DEF Swallow
    <3> QED
      BY <2>1, <2>3, <3>1 DEF FreezeInv, Capturing, Followed, GivenUp
  <2>5. ASSUME NEW r \in Requesters, Accept(chunk, r)
        PROVE  FreezeInv'
    <3>1. notifyTag' = tag[r] /\ wpc' = wpc
      BY <2>5 DEF Accept
    <3>2. pc'[r] = "wait"
      BY <2>5 DEF Accept, AfterPrompt, TypeOK
    <3> QED
      BY <2>1, <3>1, <3>2 DEF FreezeInv, Followed
  <2>6. CASE Display(chunk)
    <3>1. UNCHANGED <<notifyTag, wpc>> /\ pc' = AfterPrompt(chunk)
      BY <2>6 DEF Display
    <3> QED
      BY <2>1, <2>3, <3>1, FollowedKept
  <2> QED
    BY <2>2, <2>4, <2>5, <2>6
<1>7. CASE RemoteNext \/ Tick \/ UNCHANGED vars
  <2>1. UNCHANGED <<pc, tag, result, notifyTag, wpc>>
    BY <1>7 DEF RemoteNext, Login, ShellEnter, ShellStart, ShellFinish, Chatter, Tick, vars
  <2> QED
    BY <2>1, FollowedKept
<1> QED
  BY <1>1, <1>2, <1>3, <1>4, <1>5, <1>6, <1>7 DEF Next, RequesterNext

(* The writer, and with it the terminal, blocks for ever only with the     *)
(* answer to a request that timed out before it: with any commands, .up    *)
(* too, and any time outs.                                                 *)
THEOREM FreezesOnlyAfterTimeout == Spec => []FreezeNeedsTimeout
<1>1. Init => FreezeInv
  BY DEF Init, FreezeInv
<1>2. TypeOK /\ FreezeInv /\ [Next]_vars => FreezeInv'
  BY FreezeStep
<1>3. TypeOK /\ FreezeInv => FreezeNeedsTimeout
  BY DEF FreezeInv, Followed, Frozen, Listening, FreezeNeedsTimeout
<1> QED
  BY <1>1, <1>2, <1>3, TypeCorrect, PTL DEF Spec

-----------------------------------------------------------------------------
(* What an answer is cut out of. *)

(* The text an answer may still be cut out of: what the writer has         *)
(* swallowed, if it still uses it, and what it has not read.               *)
Held == Capturing \/ wpc = "send"
Text == IF Held THEN buf \o out ELSE out

(* The pieces that belong to a command, and those of them that it prints.  *)
(* A line may be echoed while the commands before it still print.          *)
Tagged(x) == x.k \in {"echo", "open", "body", "close"}
Piece(x) == x.k \in {"open", "body", "close"}
Rank(k) == IF k = "echo" THEN 1 ELSE IF k = "open" THEN 2 ELSE IF k = "body" THEN 3 ELSE 4
Before(x, y) == x.t < y.t \/ (x.t = y.t /\ Rank(x.k) < Rank(y.k))

(* Commands follow one another: what one prints comes before the pieces and *)
(* echoes of the later ones, and after its own echo.  An opening tag is    *)
(* followed by the answer, if there is one, and by the closing tag, unless *)
(* the command is running, and by no prompt before it.                     *)
Sorted(s) == \A i, j \in DOMAIN s : i < j /\ Piece(s[i]) /\ Tagged(s[j]) => Before(s[i], s[j])
Closed(s, running) ==
  \A i \in DOMAIN s : s[i].k = "open" /\ s[i].t # running =>
    \E j \in DOMAIN s : i < j /\ s[j] = Tok("close", s[i].t)
Answered(s, p) ==
  \A i \in DOMAIN s : s[i].k = "open" /\ s[i].t \in p =>
    \E j \in DOMAIN s : i < j /\ s[j] = Tok("body", s[i].t)
Prompted(s) ==
  \A i, k \in DOMAIN s : i < k /\ s[i].k = "open" /\ s[k] = Prompt =>
    \E j \in DOMAIN s : i < j /\ j < k /\ s[j] = Tok("close", s[i].t)
Good(s, running, p) == Sorted(s) /\ Closed(s, running) /\ Answered(s, p) /\ Prompted(s)

(* The command the shell runs, 0 for none. *)
Running == IF shell = "run" THEN Head(input) ELSE 0

(* The shell is done with the command that carries tag t. *)
Over(t) == t <= Len(lines) /\ \A i \in DOMAIN input : input[i] # 0 => t < input[i]

(* A piece of output was printed by a command the shell is done with, or   *)
(* by the one it runs.  An echo may be that of any line.                   *)
Past(x) ==
  /\ x.t # 0
  /\ Piece(x) => Over(x.t) \/ (x.t = Running /\ x.k = "open")
  /\ x.k = "body" => x.t \in printed

(* Lines are run in the order of their tags. *)
InputInv ==
  /\ \A i, j \in DOMAIN input : i < j /\ input[i] # 0 /\ input[j] # 0 => input[i] < input[j]
  /\ \A i \in DOMAIN input : input[i] <= Len(lines)
  /\ \A t \in printed : Over(t)

TextInv ==
  /\ Good(Text, Running, printed)
  /\ \A x \in TokensOf(Text) : IF Tagged(x) THEN Past(x) ELSE x \in {Prompt, Noise}

(* What is on the screen comes before what can still be taken from it. *)
ScreenInv ==
  \A x \in screen :
    /\ Piece(x) /\ Past(x)
    /\ \A y \in TokensOf(Text) : Tagged(y) => Before(x, y)

SendInv == wpc = "send" => closeFound(notifyTag, buf) /\ rsp = clearTag(notifyTag, buf)

(* A text that is all command t has printed, and nothing another printed.  *)
AnswerPart(x, t) == x \in {Tok("body", t), Noise} \/ (x.k = "echo" /\ x.t # t)
WholeAnswer(s, t) ==
  /\ (Tok("body", t) \in TokensOf(s)) = (t \in printed)
  /\ \A x \in TokensOf(s) : AnswerPart(x, t)

(* A command whose answer was handed over is over, and nothing of it is on *)
(* the screen or can still get there.                                      *)
Gone(t) ==
  /\ Over(t)
  /\ \A x \in screen : x.t # t
  /\ \A x \in TokensOf(Text) : Tagged(x) => t < x.t

HandedOver(r) ==
  result[r].from # 0 =>
    Gone(result[r].from) /\ WholeAnswer(result[r].body, result[r].from)

ResultInv == \A r \in Requesters : HandedOver(r)

AnswerInv == InputInv /\ TextInv /\ ScreenInv /\ SendInv /\ ResultInv

(* A later part of a good text is good. *)
LEMMA GoodSuffix ==
  ASSUME NEW a \in Seq(Token), NEW b \in Seq(Token), NEW running, NEW p, Good(a \o b, running, p)
  PROVE  Good(b, running, p)
<1> DEFINE s == a \o b
           n == Len(a)
<1>1. /\ n \in Nat /\ Len(b) \in Nat /\ DOMAIN b = 1..Len(b) /\ DOMAIN s = 1..(n + Len(b))
      /\ \A i \in DOMAIN b : n + i \in DOMAIN s /\ s[n + i] = b[i]
      /\ \A i \in DOMAIN s : i > n => i - n \in DOMAIN b /\ b[i - n] = s[i]
  <2>1. s \in Seq(Token) /\ Len(s) = n + Len(b)
    BY ConcatProperties
  <2>2. n \in Nat /\ Len(b) \in Nat /\ DOMAIN b = 1..Len(b) /\ DOMAIN s = 1..(n + Len(b))
    BY <2>1, LenProperties
  <2>3. \A i \in 1..(n + Len(b)) : s[i] = IF i <= n THEN a[i] ELSE b[i - n]
    BY ConcatProperties
  <2> QED
    BY <2>2, <2>3
<1> HIDE DEF s, n
<1>2. Good(s, running, p)
  BY DEF s
<1>3. Sorted(b)
  <2> SUFFICES ASSUME NEW i \in DOMAIN b, NEW j \in DOMAIN b, i < j, Piece(b[i]), Tagged(b[j])
               PROVE  Before(b[i], b[j])
    BY DEF Sorted
  <2>1. n + i < n + j
    BY <1>1
  <2>2. \A k, m \in DOMAIN s : k < m /\ Piece(s[k]) /\ Tagged(s[m]) => Before(s[k], s[m])
    BY <1>2 DEF Good, Sorted
  <2>3. /\ n + i \in DOMAIN s /\ s[n + i] = b[i]
        /\ n + j \in DOMAIN s /\ s[n + j] = b[j]
    BY <1>1
  <2> QED
    BY <2>1, <2>2, <2>3
<1>4. ASSUME NEW i \in DOMAIN b, NEW m \in DOMAIN s, n + i < m
      PROVE  m - n \in DOMAIN b /\ i < m - n /\ b[m - n] = s[m]
  BY <1>1, <1>4
<1>5. Closed(b, running)
  <2> SUFFICES ASSUME NEW i \in DOMAIN b, b[i].k = "open", b[i].t # running
               PROVE  \E j \in DOMAIN b : i < j /\ b[j] = Tok("close", b[i].t)
    BY DEF Closed
  <2>1. n + i \in DOMAIN s /\ s[n + i] = b[i]
    BY <1>1
  <2>2. PICK m \in DOMAIN s : n + i < m /\ s[m] = Tok("close", b[i].t)
    BY <1>2, <2>1 DEF Good, Closed
  <2> QED
    BY <1>4, <2>2
<1>6. Answered(b, p)
  <2> SUFFICES ASSUME NEW i \in DOMAIN b, b[i].k = "open", b[i].t \in p
               PROVE  \E j \in DOMAIN b : i < j /\ b[j] = Tok("body", b[i].t)
    BY DEF Answered
  <2>1. n + i \in DOMAIN s /\ s[n + i] = b[i]
    BY <1>1
  <2>2. PICK m \in DOMAIN s : n + i < m /\ s[m] = Tok("body", b[i].t)
    BY <1>2, <2>1 DEF Good, Answered
  <2> QED
    BY <1>4, <2>2
<1>7. Prompted(b)
  <2> SUFFICES ASSUME NEW i \in DOMAIN b, NEW k \in DOMAIN b, i < k, b[i].k = "open", b[k] = Prompt
               PROVE  \E j \in DOMAIN b : i < j /\ j < k /\ b[j] = Tok("close", b[i].t)
    BY DEF Prompted
  <2>1. /\ n + i \in DOMAIN s /\ s[n + i] = b[i]
        /\ n + k \in DOMAIN s /\ s[n + k] = b[k]
        /\ n + i < n + k
    BY <1>1
  <2>2. PICK m \in DOMAIN s : n + i < m /\ m < n + k /\ s[m] = Tok("close", b[i].t)
    BY <1>2, <2>1 DEF Good, Prompted
  <2>3. m - n < k
    BY <1>1, <2>2
  <2> QED
    BY <1>4, <2>2, <2>3
<1> QED
  BY <1>3, <1>5, <1>6, <1>7 DEF Good

(* What is printed next keeps a text good when it comes after all of it:   *)
(* an opening tag begins what the shell runs, and a prompt comes when it   *)
(* runs nothing.                                                           *)
LEMMA GoodAppend ==
  ASSUME NEW s \in Seq(Token), NEW x \in Token, NEW running, NEW p, Good(s, running, p),
         \A i \in DOMAIN s : Piece(s[i]) => s[i].t # 0 /\ (Tagged(x) => Before(s[i], x)),
         x.k = "open" => x.t = running /\ x.t \notin p,
         x = Prompt => running = 0
  PROVE  Good(Append(s, x), running, p)
<1> DEFINE b == Append(s, x)
           n == Len(s)
<1>1. /\ n \in Nat /\ DOMAIN s = 1..n /\ DOMAIN b = 1..(n + 1)
      /\ \A i \in DOMAIN s : i \in DOMAIN b /\ b[i] = s[i]
      /\ n + 1 \in DOMAIN b /\ b[n + 1] = x
      /\ \A i \in DOMAIN b : i \in DOMAIN s \/ i = n + 1
  BY AppendProperties, LenProperties
<1>2. \A i, j \in DOMAIN b : i < j => i \in DOMAIN s
  BY <1>1
<1> HIDE DEF b, n
<1>3. Sorted(b)
  BY <1>1, <1>2 DEF Good, Sorted
<1>4. Closed(b, running)
  <2>1. x.k = "open" => x.t = running
    OBVIOUS
  <2> QED
    BY <1>1, <2>1 DEF Good, Closed
<1>5. Answered(b, p)
  BY <1>1 DEF Good, Answered
<1>6. Prompted(b)
  <2> SUFFICES ASSUME NEW i \in DOMAIN b, NEW k \in DOMAIN b, i < k, b[i].k = "open", b[k] = Prompt
               PROVE  \E j \in DOMAIN b : i < j /\ j < k /\ b[j] = Tok("close", b[i].t)
    BY DEF Prompted
  <2>1. i \in DOMAIN s /\ b[i] = s[i]
    BY <1>1, <1>2
  <2>2. CASE k \in DOMAIN s
    BY <1>1, <2>1, <2>2 DEF Good, Prompted
  <2>3. CASE k = n + 1
    <3>1. running = 0 /\ s[i].t # running
      BY <1>1, <2>1, <2>3 DEF Piece
    <3>2. PICK j \in DOMAIN s : i < j /\ s[j] = Tok("close", s[i].t)
      BY <2>1, <3>1 DEF Good, Closed
    <3>3. j < k
      BY <1>1, <2>3, <3>2
    <3> QED
      BY <1>1, <2>1, <3>2, <3>3
  <2> QED
    BY <1>1, <2>2, <2>3
<1> QED
  BY <1>3, <1>4, <1>5, <1>6 DEF Good, b

(* A command that prints its answer, and one that ends. *)
LEMMA GoodBody ==
  ASSUME NEW s \in Seq(Token), NEW t \in 1..MaxReq, NEW p, Good(s, t, p),
         \A i \in DOMAIN s : Piece(s[i]) => s[i].t # 0 /\ Before(s[i], Tok("body", t))
  PROVE  Good(Append(s, Tok("body", t)), t, p \cup {t})
<1> DEFINE x == Tok("body", t)
           b == Append(s, x)
           n == Len(s)
<1>1. x \in Token /\ x.k = "body" /\ x.t = t /\ x # Prompt /\ Tagged(x)
  BY TokenFacts DEF Tok, Prompt, Tagged, Kinds
<1>2. Good(b, t, p)
  BY <1>1, GoodAppend
<1>3. /\ n \in Nat /\ DOMAIN s = 1..n /\ DOMAIN b = 1..(n + 1)
      /\ \A i \in DOMAIN s : i \in DOMAIN b /\ b[i] = s[i]
      /\ n + 1 \in DOMAIN b /\ b[n + 1] = x
      /\ \A i \in DOMAIN b : i \in DOMAIN s \/ i = n + 1
  BY <1>1, AppendProperties, LenProperties
<1> HIDE DEF b, n
<1>4. Answered(b, p \cup {t})
  <2> SUFFICES ASSUME NEW i \in DOMAIN b, b[i].k = "open", b[i].t \in p \cup {t}
               PROVE  \E j \in DOMAIN b : i < j /\ b[j] = Tok("body", b[i].t)
    BY DEF Answered
  <2>1. CASE b[i].t \in p
    BY <1>2, <2>1 DEF Good, Answered
  <2>2. CASE b[i].t = t
    <3>1. i # n + 1
      BY <1>1, <1>3
    <3>2. i < n + 1
      BY <1>3, <3>1
    <3> QED
      BY <1>3, <2>2, <3>2
  <2> QED
    BY <2>1, <2>2
<1> QED
  BY <1>2, <1>4 DEF Good, b, x

LEMMA GoodClose ==
  ASSUME NEW s \in Seq(Token), NEW t \in 1..MaxReq, NEW p, Good(s, t, p),
         \A i \in DOMAIN s : Piece(s[i]) => s[i].t # 0 /\ Before(s[i], Tok("close", t))
  PROVE  Good(Append(s, Tok("close", t)), 0, p)
<1> DEFINE x == Tok("close", t)
           b == Append(s, x)
           n == Len(s)
<1>1. x \in Token /\ x.k = "close" /\ x.t = t /\ x # Prompt /\ Tagged(x)
  BY TokenFacts DEF Tok, Prompt, Tagged, Kinds
<1>2. Good(b, t, p)
  BY <1>1, GoodAppend
<1>3. /\ n \in Nat /\ DOMAIN s = 1..n /\ DOMAIN b = 1..(n + 1)
      /\ \A i \in DOMAIN s : i \in DOMAIN b /\ b[i] = s[i]
      /\ n + 1 \in DOMAIN b /\ b[n + 1] = x
      /\ \A i \in DOMAIN b : i \in DOMAIN s \/ i = n + 1
  BY <1>1, AppendProperties, LenProperties
<1> HIDE DEF b, n
<1>4. Closed(b, 0)
  <2> SUFFICES ASSUME NEW i \in DOMAIN b, b[i].k = "open"
               PROVE  \E j \in DOMAIN b : i < j /\ b[j] = Tok("close", b[i].t)
    BY DEF Closed
  <2>1. CASE b[i].t # t
    BY <1>2, <2>1 DEF Good, Closed
  <2>2. CASE b[i].t = t
    <3>1. i # n + 1
      BY <1>1, <1>3
    <3>2. i < n + 1
      BY <1>3, <3>1
    <3> QED
      BY <1>3, <2>2, <3>2
  <2> QED
    BY <2>1, <2>2
<1> QED
  BY <1>2, <1>4 DEF Good, b, x

-----------------------------------------------------------------------------
(* What clearTag cuts out of a good text. *)
LEMMA AnswerCut ==
  ASSUME NEW b \in Seq(Token), NEW rest \in Seq(Token), NEW t \in 1..MaxReq, NEW running, NEW p,
         Good(b \o rest, running, p),
         \A x \in TokensOf(b \o rest) : IF Tagged(x) THEN x.k = "body" => x.t \in p ELSE x \in {Prompt, Noise},
         closeFound(t, b)
  PROVE  /\ (Tok("body", t) \in TokensOf(clearTag(t, b))) = (t \in p)
         /\ \A x \in TokensOf(clearTag(t, b)) : AnswerPart(x, t)
         /\ \E i \in DOMAIN b : b[i] = Tok("open", t)
         /\ \E i \in DOMAIN b : b[i] = Tok("close", t)
<1> DEFINE s == b \o rest
           o == openPos(t, b)
           c == closePos(t, b)
           a == clearTag(t, b)
<1>1. /\ o \in DOMAIN b /\ b[o] = Tok("open", t)
      /\ c \in DOMAIN b /\ o < c /\ HoldsClose(b[c], t)
      /\ \A m \in (o + 1)..(c - 1) : ~HoldsClose(b[m], t)
  <2>1. PICK i \in DOMAIN b : b[i] = Tok("open", t)
    BY DEF closeFound
  <2>2. o \in DOMAIN b /\ b[o] = Tok("open", t)
    BY <2>1, OpenPosFound
  <2>3. /\ c \in DOMAIN b /\ c > o /\ HoldsClose(b[c], t)
        /\ \A m \in (o + 1)..(c - 1) : ~HoldsClose(b[m], t)
    BY ClosePosFound
  <2> QED
    BY <2>2, <2>3
<1>2. /\ Len(b) \in Nat /\ DOMAIN b = 1..Len(b) /\ DOMAIN b \subseteq DOMAIN s /\ DOMAIN s \subseteq Nat
      /\ \A i \in DOMAIN b : s[i] = b[i]
      /\ \A i \in DOMAIN s : s[i] \in Token /\ s[i] \in TokensOf(s)
  <2>1. s \in Seq(Token) /\ Len(s) = Len(b) + Len(rest)
    BY ConcatProperties
  <2>2. Len(b) \in Nat /\ Len(rest) \in Nat /\ DOMAIN b = 1..Len(b) /\ DOMAIN s = 1..(Len(b) + Len(rest))
    BY <2>1, LenProperties
  <2>3. \A i \in 1..(Len(b) + Len(rest)) : s[i] = IF i <= Len(b) THEN b[i] ELSE rest[i - Len(b)]
    BY ConcatProperties
  <2> HIDE DEF s
  <2>4. \A i \in DOMAIN s : s[i] \in Token /\ s[i] \in TokensOf(s)
    BY <2>1 DEF TokensOf
  <2> QED
    BY <2>2, <2>3, <2>4
<1>3. /\ Len(a) = c - 1 - o
      /\ \A i \in 1..(c - 1 - o) : a[i] = b[o + i]
      /\ DOMAIN a = 1..(c - 1 - o)
  <2> DEFINE m == o + 1
             n == c - 1
  <2>1. m \in Int /\ n \in Int /\ \A k \in m..n : b[k] \in Token
    BY <1>1, <1>2
  <2>2. /\ SubSeq(b, m, n) \in Seq(Token)
        /\ Len(SubSeq(b, m, n)) = IF m <= n THEN n - m + 1 ELSE 0
        /\ \A i \in 1..(n - m + 1) : SubSeq(b, m, n)[i] = b[m + i - 1]
    BY <2>1, SubSeqProperties
  <2>3. a = SubSeq(b, m, n)
    BY DEF clearTag
  <2>4. n - m + 1 = c - 1 - o /\ (m <= n \/ n - m + 1 = 0)
    BY <1>1, <1>2
  <2>5. \A i \in 1..(c - 1 - o) : m + i - 1 = o + i
    BY <1>1, <1>2
  <2>6. DOMAIN a = 1..Len(a)
    BY <2>2, <2>3, LenProperties
  <2> HIDE DEF m, n, a, o, c
  <2> QED
    BY <2>2, <2>3, <2>4, <2>5, <2>6
<1>4. Sorted(s) /\ Answered(s, p) /\ Prompted(s)
  BY DEF Good
<1>5. \A x \in TokensOf(s) : IF Tagged(x) THEN x.k = "body" => x.t \in p ELSE x \in {Prompt, Noise}
  OBVIOUS
<1> HIDE DEF s, o, c, a
<1>6. b[c] = Tok("close", t)
  <2>1. Before(s[o], s[c])
    BY <1>1, <1>2, <1>4 DEF Sorted, Tagged, Piece, HoldsClose, Tok
  <2>2. b[c].t = t /\ b[c].k \in {"echo", "close"} /\ b[c] \in Token
    BY <1>1, <1>2 DEF HoldsClose
  <2>3. b[c].k # "echo"
    BY <1>1, <1>2, <2>1, <2>2 DEF Before, Rank, Tok
  <2> QED
    BY <2>2, <2>3 DEF Tok, Token
<1>7. \A i \in 1..(c - 1 - o) : o + i \in DOMAIN b /\ o + i \in (o + 1)..(c - 1)
  BY <1>1, <1>2
<1>8. ASSUME NEW m \in DOMAIN b, o < m, m < c
      PROVE  AnswerPart(b[m], t)
  <2>1. s[m] = b[m] /\ b[m] \in Token /\ m \in DOMAIN s /\ o \in DOMAIN s /\ c \in DOMAIN s
    BY <1>1, <1>2
  <2>2. CASE Tagged(b[m])
    <3>1. Before(Tok("open", t), b[m]) /\ (Piece(b[m]) => Before(b[m], Tok("close", t)))
      BY <1>1, <1>2, <1>4, <1>6, <1>8, <2>1, <2>2 DEF Sorted, Tagged, Piece, Tok
    <3>2. CASE b[m].k = "echo"
      BY <3>1, <3>2 DEF Before, Rank, Tok, AnswerPart
    <3>3. CASE Piece(b[m])
      <4>1. b[m].t = t /\ b[m].k = "body"
        BY <2>1, <3>1, <3>3 DEF Before, Rank, Tok, Piece, Token
      <4> QED
        BY <2>1, <4>1 DEF Token, Tok, AnswerPart
    <3> QED
      BY <2>2, <3>2, <3>3 DEF Tagged, Piece
  <2>3. CASE ~Tagged(b[m])
    <3>1. b[m] \in {Prompt, Noise}
      BY <1>2, <1>5, <2>1, <2>3
    <3>2. b[m] # Prompt
      <4> SUFFICES ASSUME b[m] = Prompt
                   PROVE  FALSE
        OBVIOUS
      <4>1. s[o].k = "open" /\ s[o].t = t
        BY <1>1, <1>2 DEF Tok
      <4>2. PICK j \in DOMAIN s : o < j /\ j < m /\ s[j] = Tok("close", t)
        BY <1>4, <1>8, <2>1, <4>1 DEF Prompted
      <4>3. j \in DOMAIN b /\ j \in (o + 1)..(c - 1)
        BY <1>1, <1>2, <1>8, <4>2
      <4>4. HoldsClose(b[j], t)
        BY <1>2, <4>2, <4>3 DEF HoldsClose, Tok
      <4> QED
        BY <1>1, <4>3, <4>4
    <3> QED
      BY <3>1, <3>2 DEF AnswerPart
  <2> QED
    BY <2>2, <2>3
<1>9. \A x \in TokensOf(a) : AnswerPart(x, t)
  <2> SUFFICES ASSUME NEW i \in DOMAIN a
               PROVE  AnswerPart(a[i], t)
    BY DEF TokensOf
  <2>1. o + i \in DOMAIN b /\ a[i] = b[o + i] /\ o < o + i /\ o + i < c
    BY <1>1, <1>2, <1>3, <1>7
  <2> QED
    BY <1>8, <2>1
<1>10. t \in p => Tok("body", t) \in TokensOf(a)
  <2> SUFFICES ASSUME t \in p
               PROVE  \E i \in DOMAIN a : a[i] = Tok("body", t)
    BY DEF TokensOf
  <2>1. s[o].k = "open" /\ s[o].t = t /\ o \in DOMAIN s
    BY <1>1, <1>2 DEF Tok
  <2>2. PICK j \in DOMAIN s : o < j /\ s[j] = Tok("body", t)
    BY <1>4, <2>1 DEF Answered
  <2>3. ~(c < j)
    <3>1. c < j => Before(s[c], s[j])
      BY <1>1, <1>2, <1>4, <1>6, <2>2 DEF Sorted, Tagged, Piece, Tok
    <3> QED
      BY <1>1, <1>2, <1>6, <2>2, <3>1 DEF Before, Rank, Tok
  <2>4. j # c
    BY <1>1, <1>2, <1>6, <2>2 DEF Tok
  <2>5. j \in Nat /\ c \in Nat /\ o \in Nat /\ j < c
    BY <1>1, <1>2, <2>3, <2>4
  <2>6. j \in DOMAIN b /\ b[j] = Tok("body", t)
    BY <1>1, <1>2, <2>2, <2>5
  <2>7. j - o \in 1..(c - 1 - o) /\ o + (j - o) = j
    BY <2>2, <2>5
  <2>8. a[j - o] = b[j]
    BY <1>3, <2>7
  <2> QED
    BY <1>3, <2>6, <2>7, <2>8
<1>11. Tok("body", t) \in TokensOf(a) => t \in p
  <2> SUFFICES ASSUME NEW i \in DOMAIN a, a[i] = Tok("body", t)
               PROVE  t \in p
    BY DEF TokensOf
  <2>1. o + i \in DOMAIN b /\ a[i] = b[o + i]
    BY <1>3, <1>7
  <2>2. Tok("body", t) \in TokensOf(s)
    BY <1>2, <2>1
  <2> QED
    BY <1>5, <2>2 DEF Tagged, Tok
<1> QED
  BY <1>1, <1>6, <1>9, <1>10, <1>11 DEF a

-----------------------------------------------------------------------------
(* The pieces of a text. *)
LEMMA TokensConcat ==
  ASSUME NEW a \in Seq(Token), NEW b \in Seq(Token)
  PROVE  TokensOf(a \o b) = TokensOf(a) \cup TokensOf(b)
<1> DEFINE s == a \o b
<1>1. /\ Len(a) \in Nat /\ Len(b) \in Nat
      /\ DOMAIN a = 1..Len(a) /\ DOMAIN b = 1..Len(b) /\ DOMAIN s = 1..(Len(a) + Len(b))
  BY ConcatProperties, LenProperties
<1>2. \A i \in 1..(Len(a) + Len(b)) : s[i] = IF i <= Len(a) THEN a[i] ELSE b[i - Len(a)]
  BY ConcatProperties
<1> HIDE DEF s
<1>3. \A i \in DOMAIN a : i \in DOMAIN s /\ s[i] = a[i]
  BY <1>1, <1>2
<1>4. \A i \in DOMAIN b : Len(a) + i \in DOMAIN s /\ s[Len(a) + i] = b[i]
  BY <1>1, <1>2
<1>5. \A i \in DOMAIN s : (i \in DOMAIN a /\ s[i] = a[i]) \/ (i - Len(a) \in DOMAIN b /\ s[i] = b[i - Len(a)])
  BY <1>1, <1>2
<1>6. TokensOf(s) \subseteq TokensOf(a) \cup TokensOf(b)
  BY <1>5 DEF TokensOf
<1>7. TokensOf(a) \subseteq TokensOf(s)
  BY <1>3 DEF TokensOf
<1>8. TokensOf(b) \subseteq TokensOf(s)
  <2> SUFFICES ASSUME NEW i \in DOMAIN b
               PROVE  b[i] \in TokensOf(s)
    BY DEF TokensOf
  <2>1. Len(a) + i \in DOMAIN s /\ s[Len(a) + i] = b[i]
    BY <1>4
  <2> QED
    BY <2>1 DEF TokensOf
<1> QED
  BY <1>6, <1>7, <1>8 DEF s

LEMMA TokensAppend ==
  ASSUME NEW s \in Seq(Token), NEW x \in Token
  PROVE  TokensOf(Append(s, x)) = TokensOf(s) \cup {x}
<1> DEFINE b == Append(s, x)
           n == Len(s)
<1>1. /\ n \in Nat /\ DOMAIN s = 1..n /\ DOMAIN b = 1..(n + 1)
      /\ \A i \in 1..n : b[i] = s[i]
      /\ b[n + 1] = x
  BY AppendProperties, LenProperties
<1> HIDE DEF b, n
<1>2. \A i \in DOMAIN b : i \in DOMAIN s \/ i = n + 1
  BY <1>1
<1>3. n + 1 \in DOMAIN b /\ \A i \in DOMAIN s : i \in DOMAIN b
  BY <1>1
<1> QED
  BY <1>1, <1>2, <1>3 DEF TokensOf, b

LEMMA TokensType ==
  ASSUME NEW s \in Seq(Token)
  PROVE  TokensOf(s) \subseteq Token
BY LenProperties DEF TokensOf

(* Appending to the output appends to the text. *)
LEMMA TextAppend ==
  ASSUME TypeOK
  PROVE  /\ Text \in Seq(Token)
         /\ \A x \in Token : IF Held THEN buf \o Append(out, x) = Append(Text, x)
                             ELSE Append(out, x) = Append(Text, x)
<1>1. buf \in Seq(Token) /\ out \in Seq(Token)
  BY DEF TypeOK
<1>2. Text \in Seq(Token)
  BY <1>1, ConcatProperties DEF Text
<1>3. ASSUME NEW x \in Token
      PROVE  buf \o Append(out, x) = Append(buf \o out, x)
  <2>1. <<x>> \in Seq(Token) /\ buf \o out \in Seq(Token)
    BY <1>1, ConcatProperties
  <2>2. Append(out, x) = out \o <<x>> /\ Append(buf \o out, x) = (buf \o out) \o <<x>>
    BY <1>1, <2>1, AppendIsConcat
  <2> QED
    BY <1>1, <2>1, <2>2, ConcatAssociative
<1> QED
  BY <1>2, <1>3 DEF Text

(* One step of the text: nothing of what is over comes back, what is new   *)
(* comes after what was there, and what is displayed comes before what is  *)
(* left.                                                                   *)
LEMMA TextStep ==
  ASSUME TypeOK, TypeOK', AnswerInv, InputInv',
         NEW new \in SUBSET Token, NEW shown \in SUBSET Token,
         \A t \in Nat : Over(t) => Over(t)' /\ (t \in printed') = (t \in printed),
         \A x \in Token : Past(x) => Past(x)',
         \A y \in new : IF Tagged(y) THEN Past(y)' /\ \A x \in Token : Past(x) /\ Piece(x) => Before(x, y)
                        ELSE y \in {Prompt, Noise},
         Good(Text', Running', printed'),
         TokensOf(Text') \subseteq TokensOf(Text) \cup new,
         \A x \in shown : /\ Piece(x) /\ x \in TokensOf(Text)
                          /\ \A y \in TokensOf(Text') : Tagged(y) => Before(x, y),
         screen' \subseteq screen \cup shown
  PROVE  /\ TextInv' /\ ScreenInv'
         /\ \A t \in 1..MaxReq : Gone(t) => Gone(t)'
         /\ \A t \in 1..MaxReq : \A s : Over(t) /\ WholeAnswer(s, t) => WholeAnswer(s, t)'
<1> USE CaptureAssumption
<1>1. TextInv /\ ScreenInv
  BY DEF AnswerInv
<1>2. \A x \in TokensOf(Text) : x \in Token /\ (IF Tagged(x) THEN Past(x) ELSE x \in {Prompt, Noise})
  <2>1. Text \in Seq(Token)
    BY TextAppend
  <2> QED
    BY <1>1, <2>1, TokensType DEF TextInv
<1>3. \A x \in TokensOf(Text') : x \in Token /\ (IF Tagged(x) THEN Past(x)' ELSE x \in {Prompt, Noise})
  BY <1>2
<1>4. TextInv'
  BY <1>3 DEF TextInv
<1>5. \A x \in screen : /\ x \in Token /\ Piece(x) /\ Past(x)
                         /\ \A y \in TokensOf(Text) : Tagged(y) => Before(x, y)
  BY <1>1 DEF ScreenInv, TypeOK
<1>6. ScreenInv'
  <2>1. ASSUME NEW x \in screen
        PROVE  Past(x)' /\ \A y \in TokensOf(Text') : Tagged(y) => Before(x, y)
    <3>1. x \in Token /\ Past(x) /\ \A y \in TokensOf(Text) : Tagged(y) => Before(x, y)
      BY <1>5
    <3>2. Past(x)'
      BY <3>1
    <3>3. \A y \in new : Tagged(y) => Before(x, y)
      BY <1>5, <3>1
    <3> QED
      BY <3>1, <3>2, <3>3
  <2>2. ASSUME NEW x \in shown
        PROVE  Past(x)'
    BY <1>2 DEF Tagged, Piece
  <2> QED
    BY <1>5, <2>1, <2>2 DEF ScreenInv
<1>7. ASSUME NEW t \in 1..MaxReq, Gone(t)
      PROVE  Gone(t)'
  <2>1. Over(t) /\ t \in Nat /\ t # 0
    BY <1>7 DEF Gone
  <2>2. Over(t)'
    BY <2>1
  <2>3. ASSUME NEW y \in new, Tagged(y)
        PROVE  t < y.t
    <3>1. Tok("close", t) \in Token /\ Piece(Tok("close", t)) /\ Past(Tok("close", t))
      BY <2>1, TokenFacts DEF Past, Tok, Piece, Kinds
    <3>2. Before(Tok("close", t), y)
      BY <2>3, <3>1
    <3> QED
      BY <2>3, <3>2 DEF Before, Tok, Rank, Tagged
  <2>4. \A x \in TokensOf(Text) : Tagged(x) => t < x.t
    BY <1>7 DEF Gone
  <2>5. \A x \in TokensOf(Text') : Tagged(x) => t < x.t
    BY <2>3, <2>4
  <2>6. \A x \in screen' : x.t # t
    <3>1. \A x \in screen : x.t # t
      BY <1>7 DEF Gone
    <3>2. \A x \in shown : x.t # t
      BY <1>2, <2>1, <2>4 DEF Token, Tagged, Piece
    <3> QED
      BY <3>1, <3>2
  <2> QED
    BY <2>2, <2>5, <2>6 DEF Gone
<1>8. ASSUME NEW t \in 1..MaxReq, NEW s, Over(t), WholeAnswer(s, t)
      PROVE  WholeAnswer(s, t)'
  BY <1>8 DEF WholeAnswer
<1> QED
  BY <1>4, <1>6, <1>7, <1>8

(* With it, the results that do not change stay whole and hidden. *)
LEMMA ResultKept ==
  ASSUME TypeOK, AnswerInv, NEW r \in Requesters, result'[r] = result[r],
         \A t \in 1..MaxReq : Gone(t) => Gone(t)',
         \A t \in 1..MaxReq : \A s : Over(t) /\ WholeAnswer(s, t) => WholeAnswer(s, t)'
  PROVE  HandedOver(r)'
<1> SUFFICES ASSUME result[r].from # 0
             PROVE  (Gone(result[r].from) /\ WholeAnswer(result[r].body, result[r].from))'
  BY DEF HandedOver
<1>1. result[r].from \in 1..MaxReq
  BY CaptureAssumption DEF TypeOK, Result
<1>2. PICK t \in 1..MaxReq : t = result[r].from
  BY <1>1
<1> PICK s : s = result[r].body
  OBVIOUS
<1>3. Gone(t) /\ WholeAnswer(s, t)
  BY <1>2 DEF AnswerInv, ResultInv, HandedOver
<1>4. Gone(t)' /\ WholeAnswer(s, t)'
  <2>1. Over(t)
    BY <1>3 DEF Gone
  <2> QED
    BY <1>3, <2>1
<1>5. t = result'[r].from /\ s = result'[r].body
  BY <1>2
<1> QED
  BY <1>4, <1>5 DEF Gone, WholeAnswer, Over

(* Reading a chunk cuts the output in two. *)
LEMMA OutputCut ==
  ASSUME NEW s \in Seq(Token), NEW n \in 1..Len(s)
  PROVE  /\ SubSeq(s, 1, n) \in Seq(Token) /\ SubSeq(s, n + 1, Len(s)) \in Seq(Token)
         /\ s = SubSeq(s, 1, n) \o SubSeq(s, n + 1, Len(s))
<1>1. Len(s) \in Nat /\ \A i \in 1..Len(s) : s[i] \in Token
  BY LenProperties
<1>2. s = SubSeq(s, 1, Len(s))
  BY SubSeqFull
<1>3. SubSeq(s, 1, n) \o SubSeq(s, n + 1, Len(s)) = SubSeq(s, 1, Len(s))
  BY <1>1, ConcatAdjacentSubSeq
<1>4. SubSeq(s, 1, n) \in Seq(Token)
  <2>1. \A i \in 1..n : s[i] \in Token
    BY <1>1
  <2> QED
    BY <2>1, SubSeqProperties
<1>5. SubSeq(s, n + 1, Len(s)) \in Seq(Token)
  <2>1. \A i \in (n + 1)..Len(s) : s[i] \in Token
    BY <1>1
  <2> QED
    BY <1>1, <2>1, SubSeqProperties
<1> QED
  BY <1>2, <1>3, <1>4, <1>5

(* A step of bssh's own that types nothing: the text loses its head. *)
LEMMA OwnTextStep ==
  ASSUME TypeOK, TypeOK', AnswerInv, UNCHANGED <<lines, input, shell, printed>>,
         NEW a \in Seq(Token), Text = a \o Text', Text' \in Seq(Token),
         NEW shown \in SUBSET TokensOf(a),
         \A x \in shown : Piece(x),
         screen' \subseteq screen \cup shown
  PROVE  /\ InputInv' /\ TextInv' /\ ScreenInv'
         /\ \A t \in 1..MaxReq : Gone(t) => Gone(t)'
         /\ \A t \in 1..MaxReq : \A s : Over(t) /\ WholeAnswer(s, t) => WholeAnswer(s, t)'
<1> DEFINE rest == Text'
<1>1. InputInv /\ TextInv
  BY DEF AnswerInv
<1>2. \A t : Over(t)' = Over(t)
  BY DEF Over
<1>3. Running' = Running
  BY DEF Running
<1>4. \A x \in Token : Past(x) => Past(x)'
  BY <1>2, <1>3 DEF Past
<1>5. InputInv'
  BY <1>1, <1>2 DEF InputInv
<1>6. Good(Text, Running, printed)
  BY <1>1 DEF TextInv
<1> HIDE DEF rest
<1>7. Good(rest, Running, printed)
  <2>1. Good(a \o rest, Running, printed)
    BY <1>6 DEF rest
  <2>2. rest \in Seq(Token)
    BY DEF rest
  <2> QED
    BY <2>1, <2>2, GoodSuffix
<1>8. TokensOf(Text) = TokensOf(a) \cup TokensOf(rest)
  BY TokensConcat DEF rest
<1>9. ASSUME NEW x \in shown
      PROVE  /\ Piece(x) /\ x \in TokensOf(Text)
             /\ \A y \in TokensOf(rest) : Tagged(y) => Before(x, y)
  <2>1. Piece(x) /\ x \in TokensOf(Text)
    BY <1>8
  <2>2. ASSUME NEW y \in TokensOf(rest), Tagged(y)
        PROVE  Before(x, y)
    <3>1. PICK i \in DOMAIN a : a[i] = x
      BY DEF TokensOf
    <3>2. PICK j \in DOMAIN rest : rest[j] = y
      BY DEF TokensOf
    <3> DEFINE s == a \o rest
               k == Len(a) + j
    <3>3. rest \in Seq(Token)
      BY DEF rest
    <3>4. /\ Len(a) \in Nat /\ Len(rest) \in Nat
          /\ DOMAIN a = 1..Len(a) /\ DOMAIN rest = 1..Len(rest) /\ DOMAIN s = 1..(Len(a) + Len(rest))
      BY <3>3, ConcatProperties, LenProperties
    <3>5. \A m \in 1..(Len(a) + Len(rest)) : s[m] = IF m <= Len(a) THEN a[m] ELSE rest[m - Len(a)]
      BY <3>3, ConcatProperties
    <3>6. Sorted(s)
      BY <1>6 DEF Good, rest
    <3> HIDE DEF s
    <3>7. i \in DOMAIN s /\ k \in DOMAIN s /\ i < k /\ s[i] = x /\ s[k] = y
      BY <3>1, <3>2, <3>4, <3>5
    <3> QED
      BY <2>1, <2>2, <3>6, <3>7 DEF Sorted
  <2> QED
    BY <2>1, <2>2
<1>10. TokensOf(Text) \subseteq Token
  <2>1. Text \in Seq(Token)
    BY TextAppend
  <2> QED
    BY <2>1, TokensType
<1>11. shown \in SUBSET Token /\ {} \in SUBSET Token
  BY <1>8, <1>10
<1>12. Good(Text', Running', printed') /\ TokensOf(Text') \subseteq TokensOf(Text) \cup {}
  BY <1>3, <1>7, <1>8 DEF rest
<1>13. \A x \in shown : /\ Piece(x) /\ x \in TokensOf(Text)
                        /\ \A y \in TokensOf(Text') : Tagged(y) => Before(x, y)
  BY <1>9 DEF rest
<1>14. \A t \in Nat : Over(t) => Over(t)' /\ (t \in printed') = (t \in printed)
  BY <1>2
<1>15. \A y \in {} : IF Tagged(y) THEN Past(y)' /\ \A x \in Token : Past(x) /\ Piece(x) => Before(x, y)
                     ELSE y \in {Prompt, Noise}
  OBVIOUS
<1>16. TextInv' /\ ScreenInv'
       /\ (\A t \in 1..MaxReq : Gone(t) => Gone(t)')
       /\ (\A t \in 1..MaxReq : \A s : Over(t) /\ WholeAnswer(s, t) => WholeAnswer(s, t)')
  BY <1>4, <1>5, <1>11, <1>12, <1>13, <1>14, <1>15, TextStep, Zenon
<1> QED
  BY <1>5, <1>16

(* A step that leaves the output, the writer and the results alone. *)
LEMMA AnswerUntouched ==
  ASSUME AnswerInv,
         UNCHANGED <<lines, input, shell, printed, out, writerVars, screen>>,
         \A r \in Requesters : result'[r] = result[r] \/ result'[r].from = 0
  PROVE  AnswerInv'
<1> USE DEF writerVars
<1>1. Text' = Text /\ Running' = Running /\ \A t : Over(t)' = Over(t)
  BY DEF Text, Held, Capturing, Running, Over
<1>2. \A x : Past(x)' = Past(x)
  BY <1>1 DEF Past
<1>5. InputInv'
  BY <1>1 DEF AnswerInv, InputInv
<1>6. TextInv' /\ ScreenInv'
  BY <1>1, <1>2 DEF AnswerInv, TextInv, ScreenInv
<1>7. SendInv'
  BY DEF AnswerInv, SendInv
<1>8. ASSUME NEW r \in Requesters
      PROVE  HandedOver(r)'
  <2>1. CASE result'[r].from = 0
    BY <2>1 DEF HandedOver
  <2>2. CASE result'[r] = result[r]
    BY <1>1, <2>2 DEF AnswerInv, ResultInv, HandedOver, Gone, WholeAnswer, Over
  <2> QED
    BY <2>1, <2>2
<1>9. ResultInv'
  BY <1>8 DEF ResultInv
<1> QED
  BY <1>5, <1>6, <1>7, <1>9 DEF AnswerInv

(* Tick, Read and Deliver: the writer goes on, or gives a text up. *)
LEMMA TickAnswer ==
  ASSUME TypeOK, TypeOK', AnswerInv, Tick
  PROVE  AnswerInv'
<1> USE CaptureAssumption DEF remoteVars
<1>1. UNCHANGED <<lines, input, shell, printed, out, wpc, notifyTag, buf, rsp, screen, result>>
  BY DEF Tick
<1>2. Text' = Text \/ (Held /\ Text' = out)
  <2>1. window' > 0 => window > 0
    BY DEF Tick, Decrement, TypeOK
  <2> QED
    BY <1>1, <2>1 DEF Text, Held, Capturing
<1>3. \E a \in Seq(Token) : Text = a \o Text'
  <2>1. CASE Text' = Text
    <3>1. Text \in Seq(Token)
      BY TextAppend
    <3> QED
      BY <2>1, <3>1, EmptySeq, ConcatEmptySeq
  <2>2. CASE Held /\ Text' = out
    <3>1. Text = buf \o out /\ buf \in Seq(Token)
      BY <2>2 DEF Text, TypeOK
    <3> QED
      BY <2>2, <3>1
  <2> QED
    BY <1>2, <2>1, <2>2
<1>4. PICK a \in Seq(Token) : Text = a \o Text'
  BY <1>3
<1>5. Text' \in Seq(Token)
  BY <1>2, TextAppend DEF TypeOK
<1>6. /\ InputInv' /\ TextInv' /\ ScreenInv'
      /\ \A t \in 1..MaxReq : Gone(t) => Gone(t)'
      /\ \A t \in 1..MaxReq : \A s : Over(t) /\ WholeAnswer(s, t) => WholeAnswer(s, t)'
  <2>1. {} \in SUBSET TokensOf(a) /\ (\A x \in {} : Piece(x)) /\ screen' \subseteq screen \cup {}
    BY <1>1
  <2>2. UNCHANGED <<lines, input, shell, printed>>
    BY <1>1
  <2> QED
    BY <1>4, <1>5, <2>1, <2>2, OwnTextStep, Zenon
<1>7. SendInv'
  BY <1>1 DEF AnswerInv, SendInv
<1>8. ResultInv'
  BY <1>1, <1>6, ResultKept DEF ResultInv
<1> QED
  BY <1>6, <1>7, <1>8 DEF AnswerInv

(* Output that is read joins what was swallowed. *)
LEMMA Regroup ==
  ASSUME NEW a \in Seq(Token), NEW b \in Seq(Token), NEW c \in Seq(Token)
  PROVE  a \o (b \o c) = (a \o b) \o c
BY ConcatAssociative

LEMMA ReadAnswer ==
  ASSUME TypeOK, TypeOK', AnswerInv, NEW n \in 1..Len(out), Read(n)
  PROVE  AnswerInv'
<1> USE CaptureAssumption DEF remoteVars
<1> DEFINE chunk == SubSeq(out, 1, n)
<1>1. UNCHANGED <<lines, input, shell, printed, result>> /\ wpc = "read"
  BY DEF Read
<1>2. chunk \in Seq(Token) /\ out' \in Seq(Token) /\ out = chunk \o out'
  <2>1. out \in Seq(Token) /\ out' = SubSeq(out, n + 1, Len(out))
    BY DEF Read, TypeOK
  <2> QED
    BY <2>1, OutputCut
<1>3. \/ Swallow(chunk)
      \/ \E r \in Requesters : Accept(chunk, r)
      \/ Display(chunk)
  BY DEF Read
<1> HIDE DEF chunk
<1>4. buf \in Seq(Token) /\ out \in Seq(Token) /\ <<>> \in Seq(Token) /\ Text \in Seq(Token)
  BY EmptySeq, TextAppend DEF TypeOK
<1>5. ASSUME NEW a \in Seq(Token), Text = a \o Text', Text' \in Seq(Token), NEW shown \in SUBSET TokensOf(a),
             \A x \in shown : Piece(x), screen' \subseteq screen \cup shown, SendInv'
      PROVE  AnswerInv'
  <2>1. UNCHANGED <<lines, input, shell, printed>>
    BY <1>1
  <2>2. /\ InputInv' /\ TextInv' /\ ScreenInv'
        /\ \A t \in 1..MaxReq : Gone(t) => Gone(t)'
        /\ \A t \in 1..MaxReq : \A s : Over(t) /\ WholeAnswer(s, t) => WholeAnswer(s, t)'
    BY <1>5, <2>1, OwnTextStep, Zenon
  <2>3. ResultInv'
    BY <1>1, <2>2, ResultKept DEF ResultInv
  <2> QED
    BY <1>5, <2>2, <2>3 DEF AnswerInv
<1>6. CASE Swallow(chunk)
  <2>1. Held /\ Held' /\ buf' = buf \o chunk /\ screen' = screen
    BY <1>6 DEF Swallow, Swallowed, Held, Capturing
  <2>2. Text' = Text
    <3>1. Text = buf \o (chunk \o out') /\ Text' = (buf \o chunk) \o out'
      BY <1>2, <2>1 DEF Text
    <3>2. PICK rest \in Seq(Token) : rest = out'
      BY <1>2
    <3>3. buf \o (chunk \o rest) = (buf \o chunk) \o rest
      <4>1. buf \in Seq(Token) /\ chunk \in Seq(Token) /\ rest \in Seq(Token)
        BY <1>2, <1>4
      <4> QED
        BY <4>1, Regroup, Zenon
    <3> QED
      BY <3>1, <3>2, <3>3, Zenon
  <2>3. SendInv'
    BY <1>1, <1>6, <2>1 DEF Swallow, SendInv
  <2>4. Text = <<>> \o Text' /\ Text' \in Seq(Token)
    BY <1>4, <2>2, ConcatEmptySeq
  <2>5. {} \in SUBSET TokensOf(<<>>) /\ screen' \subseteq screen \cup {}
    BY <2>1
  <2>6. \A x \in {} : Piece(x)
    OBVIOUS
  <2> QED
    BY <1>4, <1>5, <2>3, <2>4, <2>5, <2>6, Zenon
<1>7. ASSUME NEW r \in Requesters, Accept(chunk, r)
      PROVE  AnswerInv'
  <2>1. ~Held /\ buf' = chunk /\ screen' = screen /\ wpc' = "read"
    BY <1>1, <1>7 DEF Accept, Swallowed, Selects, Held
  <2>2. Text = chunk \o out'
    BY <1>2, <2>1 DEF Text
  <2>3. Text' = chunk \o out' \/ Text' = out'
    BY <2>1 DEF Text
  <2>4. SendInv'
    BY <2>1 DEF SendInv
  <2>5. {} \in SUBSET TokensOf(<<>>) /\ {} \in SUBSET TokensOf(chunk) /\ screen' \subseteq screen \cup {}
    BY <2>1
  <2>6. \A x \in {} : Piece(x)
    OBVIOUS
  <2>7. CASE Text' = chunk \o out'
    <3>1. Text = <<>> \o Text' /\ Text' \in Seq(Token)
      BY <1>4, <2>2, <2>7, ConcatEmptySeq
    <3> QED
      BY <1>4, <1>5, <2>4, <2>5, <2>6, <3>1, Zenon
  <2>8. CASE Text' = out'
    <3>1. Text = chunk \o Text' /\ Text' \in Seq(Token)
      BY <1>2, <2>2, <2>8
    <3> QED
      BY <1>2, <1>5, <2>4, <2>5, <2>6, <3>1, Zenon
  <2> QED
    BY <2>3, <2>7, <2>8
<1>8. CASE Display(chunk)
  <2> DEFINE shown == {x \in TokensOf(chunk) : x.k \in {"open", "body", "close"}}
  <2>1. ~Held /\ ~Held' /\ wpc' = "read" /\ screen' = screen \cup shown
    BY <1>1, <1>8 DEF Display, Displayed, Selects, Held, Capturing, writerVars
  <2>2. Text = chunk \o Text' /\ Text' \in Seq(Token)
    BY <1>2, <2>1 DEF Text
  <2>3. SendInv'
    BY <2>1 DEF SendInv
  <2>4. shown \in SUBSET TokensOf(chunk) /\ screen' \subseteq screen \cup shown
    BY <2>1
  <2>5. \A x \in shown : Piece(x)
    BY DEF Piece
  <2> HIDE DEF shown
  <2> QED
    BY <1>2, <1>5, <2>2, <2>3, <2>4, <2>5, Zenon
<1> QED
  BY <1>3, <1>6, <1>7, <1>8

(* The answer that is handed over is whole, and its command is gone. *)
LEMMA DeliverAnswer ==
  ASSUME TypeOK, TypeOK', AnswerInv, NEW r \in Requesters, Deliver(r)
  PROVE  AnswerInv' /\ (notifyTag # 0 => WholeAnswer(rsp, notifyTag) /\ Over(notifyTag))
<1> USE CaptureAssumption DEF remoteVars
<1>1. UNCHANGED <<lines, input, shell, printed, out, screen>>
  BY DEF Deliver
<1>2. wpc = "send" /\ Held /\ wpc' = "read" /\ ~Held'
  BY DEF Deliver, ResetCapture, Held, Capturing
<1>3. Text = buf \o Text' /\ Text' = out /\ buf \in Seq(Token) /\ out \in Seq(Token)
  BY <1>1, <1>2 DEF Text, TypeOK
<1>4. /\ InputInv' /\ TextInv' /\ ScreenInv'
      /\ \A t \in 1..MaxReq : Gone(t) => Gone(t)'
      /\ \A t \in 1..MaxReq : \A s : Over(t) /\ WholeAnswer(s, t) => WholeAnswer(s, t)'
  <2>1. {} \in SUBSET TokensOf(buf) /\ (\A x \in {} : Piece(x)) /\ screen' \subseteq screen \cup {}
    BY <1>1
  <2>2. UNCHANGED <<lines, input, shell, printed>> /\ Text' \in Seq(Token)
    BY <1>1, <1>3
  <2> QED
    BY <1>3, <2>1, <2>2, OwnTextStep, Zenon
<1>5. SendInv'
  BY <1>2 DEF SendInv
<1>6. ASSUME NEW t \in 1..MaxReq, t = notifyTag
      PROVE  WholeAnswer(rsp, t) /\ Gone(t)' /\ Over(t)
  <2>2. closeFound(t, buf) /\ rsp = clearTag(t, buf)
    BY <1>2, <1>6 DEF AnswerInv, SendInv
  <2>3. Good(buf \o out, Running, printed)
    BY <1>3 DEF AnswerInv, TextInv
  <2>4. \A x \in TokensOf(buf \o out) : IF Tagged(x) THEN Past(x) ELSE x \in {Prompt, Noise}
    BY <1>3 DEF AnswerInv, TextInv
  <2>5. \A x \in TokensOf(buf \o out) : IF Tagged(x) THEN x.k = "body" => x.t \in printed ELSE x \in {Prompt, Noise}
    BY <2>4 DEF Past
  <2>6. /\ (Tok("body", t) \in TokensOf(rsp)) = (t \in printed)
        /\ \A x \in TokensOf(rsp) : AnswerPart(x, t)
        /\ \E i \in DOMAIN buf : buf[i] = Tok("open", t)
        /\ \E i \in DOMAIN buf : buf[i] = Tok("close", t)
    BY <1>3, <2>2, <2>3, <2>5, AnswerCut
  <2>7. WholeAnswer(rsp, t)
    BY <2>6 DEF WholeAnswer
  <2>8. TokensOf(Text) = TokensOf(buf) \cup TokensOf(out)
    BY <1>3, TokensConcat
  <2>9. Tok("open", t) \in TokensOf(Text) /\ Tok("close", t) \in TokensOf(buf)
    BY <2>6, <2>8 DEF TokensOf
  <2>10. Over(t)
    <3>1. Tagged(Tok("close", t)) /\ Tok("close", t) \in TokensOf(buf \o out)
      BY <1>3, <2>8, <2>9 DEF Tagged, Tok
    <3>2. Past(Tok("close", t))
      BY <2>4, <3>1
    <3> QED
      BY <3>2 DEF Past, Piece, Tok
  <2>11. \A x \in screen : x.t # t
    <3> SUFFICES ASSUME NEW x \in screen
                 PROVE  x.t # t
      OBVIOUS
    <3>1. Before(x, Tok("open", t)) /\ x \in Token
      BY <2>9 DEF AnswerInv, ScreenInv, Tagged, Tok, TypeOK
    <3>2. x.k # "echo"
      BY DEF TypeOK, AnswerInv, ScreenInv, Piece
    <3> QED
      BY <3>1, <3>2 DEF Before, Rank, Tok
  <2>12. \A x \in TokensOf(out) : Tagged(x) => t < x.t
    <3> SUFFICES ASSUME NEW x \in TokensOf(out), Tagged(x)
                 PROVE  t < x.t
      OBVIOUS
    <3>1. Before(Tok("close", t), x)
      <4>1. PICK i \in DOMAIN buf : buf[i] = Tok("close", t)
        BY <2>6
      <4>2. PICK j \in DOMAIN out : out[j] = x
        BY DEF TokensOf
      <4> DEFINE s == buf \o out
                 k == Len(buf) + j
      <4>3. /\ Len(buf) \in Nat /\ Len(out) \in Nat
            /\ DOMAIN buf = 1..Len(buf) /\ DOMAIN out = 1..Len(out) /\ DOMAIN s = 1..(Len(buf) + Len(out))
        BY <1>3, ConcatProperties, LenProperties
      <4>4. \A m \in 1..(Len(buf) + Len(out)) : s[m] = IF m <= Len(buf) THEN buf[m] ELSE out[m - Len(buf)]
        BY <1>3, ConcatProperties
      <4>5. Sorted(s)
        BY <2>3 DEF Good
      <4> HIDE DEF s
      <4>6. i \in DOMAIN s /\ k \in DOMAIN s /\ i < k /\ s[i] = Tok("close", t) /\ s[k] = x
        BY <4>1, <4>2, <4>3, <4>4
      <4>7. Piece(Tok("close", t))
        BY DEF Piece, Tok
      <4> QED
        BY <4>5, <4>6, <4>7 DEF Sorted
    <3>2. x \in Token
      BY <1>3, TokensType
    <3> QED
      BY <3>1, <3>2 DEF Before, Rank, Tok, Tagged
  <2>13. Gone(t)'
    <3>1. Over(t)'
      BY <1>1, <2>10 DEF Over
    <3>2. TokensOf(Text') = TokensOf(out)
      BY <1>3
    <3> QED
      BY <1>1, <2>11, <2>12, <3>1, <3>2 DEF Gone
  <2> QED
    BY <2>7, <2>10, <2>13
<1>7. ResultInv'
  <2> SUFFICES ASSUME NEW q \in Requesters
               PROVE  HandedOver(q)'
    BY DEF ResultInv
  <2>1. CASE q # r
    <3>1. result'[q] = result[q]
      BY <2>1 DEF Deliver, TypeOK
    <3> QED
      BY <1>4, <3>1, ResultKept
  <2>2. CASE q = r
    <3>1. result'[q].from = notifyTag /\ result'[q].body = rsp
      BY <2>2 DEF Deliver, TypeOK
    <3> SUFFICES ASSUME notifyTag # 0
                 PROVE  (Gone(result[q].from) /\ WholeAnswer(result[q].body, result[q].from))'
      BY <3>1 DEF HandedOver
    <3>2. PICK t \in 1..MaxReq : t = notifyTag
      BY DEF TypeOK
    <3> PICK s : s = rsp
      OBVIOUS
    <3>3. Gone(t)' /\ WholeAnswer(s, t)'
      <4>1. Gone(t)' /\ Over(t) /\ WholeAnswer(rsp, t)
        BY <1>6, <3>2
      <4>2. WholeAnswer(s, t)
        BY <3>2, <4>1
      <4> QED
        BY <1>4, <4>1, <4>2
    <3>4. t = result'[q].from /\ s = result'[q].body
      BY <3>1, <3>2
    <3> QED
      BY <3>3, <3>4 DEF Gone, WholeAnswer, Over
  <2> QED
    BY <2>1, <2>2
<1>8. notifyTag # 0 => WholeAnswer(rsp, notifyTag) /\ Over(notifyTag)
  <2> SUFFICES ASSUME notifyTag # 0
               PROVE  WholeAnswer(rsp, notifyTag) /\ Over(notifyTag)
    OBVIOUS
  <2>1. PICK t \in 1..MaxReq : t = notifyTag
    BY DEF TypeOK
  <2>2. WholeAnswer(rsp, t) /\ Over(t)
    BY <1>6, <2>1
  <2> QED
    BY <2>1, <2>2
<1> QED
  BY <1>4, <1>5, <1>7, <1>8 DEF AnswerInv

(* What the shell prints is added to the text. *)
LEMMA ShellAnswer ==
  ASSUME TypeOK, TypeOK', AnswerInv, InputInv', NEW new \in SUBSET Token,
         UNCHANGED <<writerVars, screen, result>>,
         \A t \in Nat : Over(t) => Over(t)' /\ (t \in printed') = (t \in printed),
         \A x \in Token : Past(x) => Past(x)',
         \A y \in new : IF Tagged(y) THEN Past(y)' /\ \A x \in Token : Past(x) /\ Piece(x) => Before(x, y)
                        ELSE y \in {Prompt, Noise},
         Good(Text', Running', printed'),
         TokensOf(Text') \subseteq TokensOf(Text) \cup new
  PROVE  AnswerInv'
<1>1. /\ TextInv' /\ ScreenInv'
      /\ \A t \in 1..MaxReq : Gone(t) => Gone(t)'
      /\ \A t \in 1..MaxReq : \A s : Over(t) /\ WholeAnswer(s, t) => WholeAnswer(s, t)'
  <2>1. {} \in SUBSET Token /\ screen' \subseteq screen \cup {}
    OBVIOUS
  <2>2. \A y \in {} : /\ Piece(y) /\ y \in TokensOf(Text)
                      /\ \A z \in TokensOf(Text') : Tagged(z) => Before(y, z)
    OBVIOUS
  <2> QED
    BY <2>1, <2>2, TextStep, Zenon
<1>2. SendInv'
  BY DEF AnswerInv, SendInv, writerVars
<1>3. ResultInv'
  BY <1>1, ResultKept DEF ResultInv
<1> QED
  BY <1>1, <1>2, <1>3 DEF AnswerInv

(* The text after a step that prints, whether or not the writer holds some *)
(* of it.                                                                  *)
LEMMA TextPrinted ==
  ASSUME TypeOK, UNCHANGED writerVars
  PROVE  /\ \A x \in Token : out' = Append(out, x) => Text' = Append(Text, x)
         /\ \A x, y \in Token : out' = Append(Append(out, x), y) => Text' = Append(Append(Text, x), y)
         /\ \A x, y, z \in Token : out' = Append(Append(Append(out, x), y), z) =>
                                     Text' = Append(Append(Append(Text, x), y), z)
<1> USE DEF writerVars
<1>1. buf \in Seq(Token) /\ out \in Seq(Token)
  BY DEF TypeOK
<1>2. Held' = Held /\ buf' = buf
  BY DEF Held, Capturing
<1>3. ASSUME NEW s \in Seq(Token), NEW x \in Token
      PROVE  buf \o Append(s, x) = Append(buf \o s, x) /\ Append(s, x) \in Seq(Token)
  <2>1. <<x>> \in Seq(Token) /\ buf \o s \in Seq(Token)
    BY <1>1, ConcatProperties
  <2>2. Append(s, x) = s \o <<x>> /\ Append(buf \o s, x) = (buf \o s) \o <<x>>
    BY <2>1, AppendIsConcat
  <2> QED
    BY <1>1, <2>1, <2>2, ConcatAssociative, AppendProperties
<1>4. ASSUME NEW x \in Token
      PROVE  out' = Append(out, x) => Text' = Append(Text, x)
  BY <1>1, <1>2, <1>3 DEF Text
<1>5. ASSUME NEW x \in Token, NEW y \in Token
      PROVE  /\ buf \o Append(Append(out, x), y) = Append(Append(buf \o out, x), y)
             /\ Append(Append(out, x), y) \in Seq(Token)
  BY <1>1, <1>3
<1>6. ASSUME NEW x \in Token, NEW y \in Token
      PROVE  out' = Append(Append(out, x), y) => Text' = Append(Append(Text, x), y)
  BY <1>2, <1>5 DEF Text
<1>7. ASSUME NEW x \in Token, NEW y \in Token, NEW z \in Token
      PROVE  buf \o Append(Append(Append(out, x), y), z) = Append(Append(Append(buf \o out, x), y), z)
  <2> DEFINE s == Append(Append(out, x), y)
  <2>1. s \in Seq(Token) /\ buf \o s = Append(Append(buf \o out, x), y)
    BY <1>5
  <2> HIDE DEF s
  <2>2. buf \o Append(s, z) = Append(buf \o s, z)
    BY <1>3, <2>1
  <2> QED
    BY <2>1, <2>2 DEF s
<1>8. ASSUME NEW x \in Token, NEW y \in Token, NEW z \in Token, out' = Append(Append(Append(out, x), y), z)
      PROVE  Text' = Append(Append(Append(Text, x), y), z)
  <2>1. CASE Held
    <3>1. Text = buf \o out /\ Text' = buf \o out'
      BY <1>2, <2>1 DEF Text
    <3>2. buf \o out' = Append(Append(Append(buf \o out, x), y), z)
      BY <1>7, <1>8, Zenon
    <3> QED
      BY <3>1, <3>2, Zenon
  <2>2. CASE ~Held
    <3>1. Text = out /\ Text' = out'
      BY <1>2, <2>2 DEF Text
    <3> QED
      BY <1>8, <3>1, Zenon
  <2> QED
    BY <2>1, <2>2
<1> QED
  BY <1>4, <1>6, <1>8

(* A line that is typed is run after all the others, and may be echoed.     *)
LEMMA TypedAnswer ==
  ASSUME TypeOK, TypeOK', AnswerInv, NEW x \in 0..MaxReq, input' = Append(input, x),
         x # 0 => x = Len(lines) + 1,
         Len(lines') = IF x = 0 THEN Len(lines) ELSE x,
         out' = out \/ (x # 0 /\ out' = Append(out, Tok("echo", x))),
         UNCHANGED <<shell, printed, writerVars, screen, result>>
  PROVE  AnswerInv'
<1> USE CaptureAssumption
<1>1. /\ Len(lines) \in Nat /\ Len(input) \in Nat /\ DOMAIN input = 1..Len(input)
      /\ DOMAIN input' = 1..(Len(input) + 1)
      /\ \A i \in 1..Len(input) : input'[i] = input[i] /\ input[i] \in Nat
      /\ input'[Len(input) + 1] = x
  <2>1. input \in Seq(0..MaxReq) /\ lines \in Seq({"dl", "hostinfo", "up"})
    BY DEF TypeOK
  <2> QED
    BY <2>1, AppendProperties, LenProperties
<1>2. Len(lines) <= Len(lines')
  BY <1>1
<1>3. \A t \in Nat : Over(t) => Over(t)'
  BY <1>1, <1>2 DEF Over
<1>4. Running' = Running
  <2>1. input # <<>> => Head(input') = Head(input)
    BY HeadTailAppend DEF TypeOK
  <2>2. shell = "run" => input # <<>>
    BY DEF TypeOK
  <2> QED
    BY <2>1, <2>2 DEF Running
<1>5. \A y \in Token : Past(y) => Past(y)'
  BY <1>3, <1>4 DEF Past, Token
<1>6. InputInv'
  <2>1. \A i, j \in DOMAIN input' : i < j /\ input'[i] # 0 /\ input'[j] # 0 => input'[i] < input'[j]
    BY <1>1 DEF AnswerInv, InputInv
  <2>2. \A i \in DOMAIN input' : input'[i] <= Len(lines')
    BY <1>1, <1>2 DEF AnswerInv, InputInv
  <2>3. \A t \in printed : t \in Nat /\ Over(t)
    BY DEF AnswerInv, InputInv, TypeOK
  <2>4. \A t \in printed' : Over(t)'
    BY <1>3, <2>3
  <2> QED
    BY <2>1, <2>2, <2>4 DEF InputInv
<1>7. CASE out' = out
  <2>1. Text' = Text
    BY <1>7 DEF Text, Held, Capturing, writerVars
  <2>2. {} \in SUBSET Token /\ TokensOf(Text') \subseteq TokensOf(Text) \cup {}
    BY <2>1
  <2>3. \A t \in Nat : Over(t) => Over(t)' /\ (t \in printed') = (t \in printed)
    BY <1>3
  <2>4. \A y \in {} : IF Tagged(y) THEN Past(y)' /\ \A z \in Token : Past(z) /\ Piece(z) => Before(z, y)
                      ELSE y \in {Prompt, Noise}
    OBVIOUS
  <2>5. Good(Text', Running', printed')
    BY <1>4, <2>1 DEF AnswerInv, TextInv
  <2>6. UNCHANGED <<writerVars, screen, result>>
    OBVIOUS
  <2> QED
    BY <1>5, <1>6, <2>2, <2>3, <2>4, <2>5, <2>6, ShellAnswer, Zenon
<1>8. CASE x # 0 /\ out' = Append(out, Tok("echo", x))
  <2> DEFINE e == Tok("echo", x)
  <2>1. e \in Token /\ Tagged(e) /\ e.t = x /\ e.k = "echo" /\ e # Prompt
    BY TokenFacts DEF Tok, Tagged, Prompt, Kinds
  <2> HIDE DEF e
  <2>2. out' = Append(out, e) /\ UNCHANGED writerVars
    BY <1>8 DEF e
  <2>3. Text' = Append(Text, e) /\ Text \in Seq(Token)
    BY <2>1, <2>2, TextPrinted, TextAppend
  <2>4. \A z \in Token : Past(z) /\ Piece(z) => z.t # 0 /\ Before(z, e)
    <3> SUFFICES ASSUME NEW z \in Token, Past(z), Piece(z)
                 PROVE  z.t # 0 /\ z.t < x
      BY <2>1 DEF Before
    <3>1. Over(z.t) => z.t <= Len(lines)
      BY DEF Over
    <3>2. Running # 0 => Running = input[1] /\ 1 \in DOMAIN input
      BY <1>1, EmptySeq DEF Running, TypeOK
    <3>3. Running <= Len(lines)
      BY <1>1, <3>2 DEF AnswerInv, InputInv
    <3>4. z.t \in Nat
      BY DEF Token
    <3> QED
      BY <1>1, <1>8, <3>1, <3>3, <3>4 DEF Past
  <2>5. \A i \in DOMAIN Text : Piece(Text[i]) => Text[i].t # 0 /\ (Tagged(e) => Before(Text[i], e))
    <3> SUFFICES ASSUME NEW i \in DOMAIN Text, Piece(Text[i])
                 PROVE  Text[i].t # 0 /\ Before(Text[i], e)
      OBVIOUS
    <3>1. Text[i] \in TokensOf(Text) /\ Text[i] \in Token
      BY <2>3, TokensType DEF TokensOf
    <3>2. Past(Text[i])
      BY <3>1 DEF AnswerInv, TextInv, Tagged, Piece
    <3> QED
      BY <2>4, <3>1, <3>2
  <2>6. Good(Text, Running, printed)
    BY DEF AnswerInv, TextInv
  <2>7. Good(Append(Text, e), Running, printed)
    BY <2>1, <2>3, <2>5, <2>6, GoodAppend
  <2>8. Good(Text', Running', printed')
    BY <1>4, <2>3, <2>7
  <2>9. {e} \in SUBSET Token /\ TokensOf(Text') \subseteq TokensOf(Text) \cup {e}
    BY <2>1, <2>3, TokensAppend
  <2>10. \A y \in {e} : IF Tagged(y) THEN Past(y)' /\ \A z \in Token : Past(z) /\ Piece(z) => Before(z, y)
                        ELSE y \in {Prompt, Noise}
    <3>1. Past(e)'
      BY <1>8, <2>1 DEF Past, Piece
    <3>2. \A z \in Token : Past(z) /\ Piece(z) => Before(z, e)
      BY <2>4
    <3> QED
      BY <2>1, <3>1, <3>2, Zenon
  <2>11. \A t \in Nat : Over(t) => Over(t)' /\ (t \in printed') = (t \in printed)
    BY <1>3
  <2>12. UNCHANGED <<writerVars, screen, result>>
    OBVIOUS
  <2> QED
    BY <1>5, <1>6, <2>8, <2>9, <2>10, <2>11, <2>12, ShellAnswer, Zenon
<1> QED
  BY <1>7, <1>8

(* A prompt, an empty line, or output nobody asked for. *)
LEMMA PlainAnswer ==
  ASSUME TypeOK, TypeOK', AnswerInv, NEW x \in {Prompt, Noise}, x = Prompt => Running = 0,
         out' = Append(out, x), Running' = Running,
         input' = input \/ (input # <<>> /\ input' = Tail(input)),
         UNCHANGED <<lines, printed, writerVars, screen, result>>
  PROVE  AnswerInv'
<1> USE CaptureAssumption
<1>1. x \in Token /\ ~Tagged(x) /\ ~Piece(x) /\ x.k # "open"
  BY TokenFacts DEF Prompt, Noise, Tok, Tagged, Piece
<1>2. /\ DOMAIN input' \subseteq Nat
      /\ \A i \in DOMAIN input' : \E k \in {i, i + 1} : k \in DOMAIN input /\ input'[i] = input[k]
      /\ \A i, j \in DOMAIN input' : i < j =>
           \E k, m \in DOMAIN input : k < m /\ input'[i] = input[k] /\ input'[j] = input[m]
  <2>1. DOMAIN input = 1..Len(input) /\ Len(input) \in Nat
    BY LenProperties DEF TypeOK
  <2>2. CASE input' = input
    BY <2>1, <2>2
  <2>3. CASE input # <<>> /\ input' = Tail(input)
    <3>1. /\ Tail(input) \in Seq(0..MaxReq) /\ Len(Tail(input)) = Len(input) - 1
          /\ \A i \in 1..Len(Tail(input)) : Tail(input)[i] = input[i + 1]
      BY <2>3, HeadTailProperties DEF TypeOK
    <3>2. DOMAIN input' = 1..(Len(input) - 1) /\ \A i \in 1..(Len(input) - 1) : input'[i] = input[i + 1]
      BY <2>3, <3>1, LenProperties
    <3>3. \A i \in DOMAIN input' : i + 1 \in DOMAIN input /\ input'[i] = input[i + 1]
      BY <2>1, <3>2
    <3> QED
      BY <2>1, <3>2, <3>3
  <2> QED
    BY <2>2, <2>3
<1>3. \A t \in Nat : Over(t) => Over(t)'
  BY <1>2 DEF Over
<1>4. \A y \in Token : Past(y) => Past(y)'
  BY <1>3 DEF Past, Token
<1>5. InputInv'
  <2>1. InputInv
    BY DEF AnswerInv
  <2>2. \A i, j \in DOMAIN input' : i < j /\ input'[i] # 0 /\ input'[j] # 0 => input'[i] < input'[j]
    BY <1>2, <2>1 DEF InputInv
  <2>3. \A i \in DOMAIN input' : input'[i] <= Len(lines')
    BY <1>2, <2>1 DEF InputInv
  <2>4. \A t \in printed' : Over(t)'
    BY <1>3, <2>1 DEF InputInv, TypeOK
  <2> QED
    BY <2>2, <2>3, <2>4 DEF InputInv
<1>6. Text' = Append(Text, x) /\ Text \in Seq(Token)
  BY <1>1, TextPrinted, TextAppend
<1>7. TokensOf(Text') \subseteq TokensOf(Text) \cup {x}
  BY <1>1, <1>6, TokensAppend
<1>8. Good(Text, Running, printed)
  BY DEF AnswerInv, TextInv
<1>9. \A i \in DOMAIN Text : Piece(Text[i]) => Text[i].t # 0
  BY DEF AnswerInv, TextInv, TokensOf, Past, Tagged, Piece
<1>10. Good(Append(Text, x), Running, printed)
  BY <1>1, <1>6, <1>8, <1>9, GoodAppend
<1>11. Good(Text', Running', printed')
  BY <1>6, <1>10
<1>12. \A y \in {x} : IF Tagged(y) THEN Past(y)' /\ \A z \in Token : Past(z) /\ Piece(z) => Before(z, y)
                      ELSE y \in {Prompt, Noise}
  BY <1>1
<1>13. \A t \in Nat : Over(t) => Over(t)' /\ (t \in printed') = (t \in printed)
  BY <1>3
<1>14. {x} \in SUBSET Token
  BY <1>1
<1> QED
  BY <1>4, <1>5, <1>7, <1>11, <1>12, <1>13, <1>14, ShellAnswer, Zenon

(* Everything that was printed comes before what the next command prints.  *)
LEMMA NextPrinted ==
  ASSUME TypeOK, InputInv, input # <<>>, Head(input) # 0, NEW x \in Token, Past(x), Piece(x)
  PROVE  \/ x.t < Head(input)
         \/ Running = Head(input) /\ x.t = Head(input) /\ x.k = "open"
<1>1. DOMAIN input = 1..Len(input) /\ Len(input) \in Nat \ {0} /\ Head(input) = input[1]
  BY EmptySeq, LenProperties DEF TypeOK
<1>2. Over(x.t) => x.t < Head(input)
  BY <1>1 DEF Over
<1>3. Running \in {0, Head(input)}
  BY DEF Running
<1> QED
  BY <1>2, <1>3 DEF Past

LEMMA StartAnswer ==
  ASSUME TypeOK, TypeOK', AnswerInv, ShellStart
  PROVE  AnswerInv'
<1> USE CaptureAssumption
<1> DEFINE t == Head(input)
           e == Tok("echo", t)
           o == Tok("open", t)
           s == Append(Text, e)
<1>1. UNCHANGED <<lines, input, printed, writerVars, screen, result>> /\ input # <<>> /\ t # 0
  BY DEF ShellStart, requestVars
<1>2. t \in 1..MaxReq /\ input[1] = t /\ 1 \in DOMAIN input
  <2>1. input \in Seq(0..MaxReq)
    BY DEF TypeOK
  <2> QED
    BY <1>1, <2>1, HeadTailProperties, EmptySeq, LenProperties
<1>3. InputInv /\ TextInv
  BY DEF AnswerInv
<1>4. Running = 0 /\ Running' = t
  BY <1>1 DEF ShellStart, Running
<1>5. e \in Token /\ o \in Token
  BY <1>2, TokenFacts DEF Kinds
<1>6. e.k = "echo" /\ e.t = t /\ o.k = "open" /\ o.t = t /\ Tagged(e) /\ Tagged(o) /\ e # Prompt /\ o # Prompt
  BY DEF Tok, Tagged, Prompt
<1>7. \A x : Over(x)' = Over(x)
  BY <1>1 DEF Over
<1>8. \A x \in Token : Past(x) => Past(x)'
  <2>1. \A x : x.t # 0 => x.t # Running
    BY <1>4
  <2> QED
    BY <1>1, <1>7, <2>1 DEF Past, Piece
<1>9. InputInv'
  BY <1>1, <1>3, <1>7 DEF InputInv
<1>10. t \notin printed
  BY <1>2, <1>3 DEF InputInv, Over
<1>11. \A x \in Token : Past(x) /\ Piece(x) => x.t < t
  <2> SUFFICES ASSUME NEW x \in Token, Past(x), Piece(x)
               PROVE  x.t < t
    OBVIOUS
  <2>1. \/ x.t < Head(input)
        \/ Running = Head(input) /\ x.t = Head(input) /\ x.k = "open"
    BY <1>1, <1>3, NextPrinted
  <2> QED
    BY <1>1, <1>4, <2>1
<1>12. out' = Append(Append(out, e), o)
  <2>1. out \in Seq(Token) /\ <<e>> \in Seq(Token) /\ <<o>> \in Seq(Token)
    BY <1>5 DEF TypeOK
  <2>2. out' = out \o <<e, o>>
    BY DEF ShellStart
  <2>3. <<e, o>> = <<e>> \o <<o>>
    OBVIOUS
  <2>4. Append(out, e) = out \o <<e>> /\ Append(out, e) \in Seq(Token)
    BY <1>5, <2>1, AppendIsConcat, AppendProperties
  <2>5. Append(Append(out, e), o) = Append(out, e) \o <<o>>
    BY <1>5, <2>4, AppendIsConcat
  <2>6. (out \o <<e>>) \o <<o>> = out \o (<<e>> \o <<o>>)
    BY <2>1, ConcatAssociative
  <2> HIDE DEF e, o
  <2> QED
    BY <2>2, <2>3, <2>4, <2>5, <2>6
<1> HIDE DEF t, e, o
<1>13. Text' = Append(s, o) /\ Text \in Seq(Token) /\ s \in Seq(Token)
  BY <1>1, <1>5, <1>12, TextPrinted, TextAppend, AppendProperties
<1>14. TokensOf(s) = TokensOf(Text) \cup {e} /\ TokensOf(Append(s, o)) = TokensOf(s) \cup {o}
  BY <1>5, <1>13, TokensAppend
<1>15. \A i \in DOMAIN Text : Piece(Text[i]) => Text[i].t # 0 /\ Before(Text[i], e)
  <2> SUFFICES ASSUME NEW i \in DOMAIN Text, Piece(Text[i])
               PROVE  Text[i].t # 0 /\ Before(Text[i], e)
    OBVIOUS
  <2>1. Text[i] \in TokensOf(Text) /\ Text[i] \in Token
    BY <1>13, TokensType DEF TokensOf
  <2>2. Past(Text[i])
    BY <1>3, <2>1 DEF TextInv, Tagged, Piece
  <2> QED
    BY <1>6, <1>11, <2>1, <2>2 DEF Past, Before
<1>16. Good(Text, t, printed)
  <2>1. Good(Text, 0, printed)
    BY <1>3, <1>4 DEF TextInv
  <2>2. \A i \in DOMAIN Text : Text[i].k = "open" => Text[i].t # 0
    BY <1>15 DEF Piece
  <2> QED
    BY <2>1, <2>2 DEF Good, Closed
<1>17. Good(s, t, printed)
  BY <1>5, <1>6, <1>13, <1>15, <1>16, GoodAppend
<1>18. \A i \in DOMAIN s : Piece(s[i]) => s[i].t # 0 /\ Before(s[i], o)
  <2> SUFFICES ASSUME NEW i \in DOMAIN s, Piece(s[i])
               PROVE  s[i].t # 0 /\ Before(s[i], o)
    OBVIOUS
  <2>1. s[i] \in TokensOf(Text) \cup {e} /\ s[i] \in Token
    BY <1>13, <1>14, TokensType DEF TokensOf
  <2>2. CASE s[i] = e
    BY <1>2, <1>6, <2>2 DEF Before, Rank, t
  <2>3. CASE s[i] \in TokensOf(Text)
    <3>1. Past(s[i])
      BY <1>3, <2>3 DEF TextInv, Tagged, Piece
    <3> QED
      BY <1>6, <1>11, <2>1, <3>1 DEF Past, Before
  <2> QED
    BY <2>1, <2>2, <2>3
<1>19. Good(Append(s, o), t, printed)
  BY <1>5, <1>6, <1>10, <1>13, <1>17, <1>18, GoodAppend
<1>20. Good(Text', Running', printed')
  BY <1>1, <1>4, <1>13, <1>19
<1>21. \A y \in {e, o} : IF Tagged(y) THEN Past(y)' /\ \A x \in Token : Past(x) /\ Piece(x) => Before(x, y)
                         ELSE y \in {Prompt, Noise}
  BY <1>1, <1>4, <1>6, <1>11 DEF Past, Piece, Before
<1>22. TokensOf(Text') \subseteq TokensOf(Text) \cup {e, o} /\ {e, o} \in SUBSET Token
  BY <1>5, <1>13, <1>14
<1>23. \A x \in Nat : Over(x) => Over(x)' /\ (x \in printed') = (x \in printed)
  BY <1>1, <1>7
<1>24. UNCHANGED <<writerVars, screen, result>>
  BY <1>1
<1> QED
  BY <1>8, <1>9, <1>20, <1>21, <1>22, <1>23, <1>24, ShellAnswer, Zenon

LEMMA FinishAnswer ==
  ASSUME TypeOK, TypeOK', AnswerInv, NEW prints \in BOOLEAN, ShellFinish(prints)
  PROVE  AnswerInv'
<1> USE CaptureAssumption
<1>1. /\ UNCHANGED <<lines, writerVars, screen, result>>
      /\ printed' = IF prints THEN printed \cup {Head(input)} ELSE printed
      /\ input # <<>> /\ Head(input) # 0 /\ Running = Head(input) /\ Running' = 0
  BY DEF ShellFinish, requestVars, Running, TypeOK
<1>2. PICK t \in 1..MaxReq : t = Head(input)
  <2>1. input \in Seq(0..MaxReq)
    BY DEF TypeOK
  <2> QED
    BY <1>1, <2>1, HeadTailProperties
<1> DEFINE b == Tok("body", t)
           c == Tok("close", t)
           p == IF prints THEN printed \cup {t} ELSE printed
           s == IF prints THEN Append(Text, b) ELSE Text
           new == {c, Prompt} \cup (IF prints THEN {b} ELSE {})
<1>3. /\ input[1] = t
      /\ DOMAIN input = 1..Len(input) /\ Len(input) \in Nat \ {0}
      /\ DOMAIN input' = 1..(Len(input) - 1)
      /\ \A i \in 1..(Len(input) - 1) : input'[i] = input[i + 1]
      /\ \A i \in DOMAIN input : input[i] \in Nat
  <2>1. input \in Seq(0..MaxReq) /\ input' = Tail(input)
    BY DEF TypeOK, ShellFinish
  <2>2. /\ Tail(input) \in Seq(0..MaxReq) /\ Len(Tail(input)) = Len(input) - 1
        /\ \A i \in 1..Len(Tail(input)) : Tail(input)[i] = input[i + 1]
    BY <1>1, <2>1, HeadTailProperties
  <2>3. input[1] = t
    BY <1>1, <1>2, <2>1, HeadTailProperties
  <2> QED
    BY <1>1, <2>1, <2>2, <2>3, LenProperties, EmptySeq
<1>4. InputInv /\ TextInv
  BY DEF AnswerInv
<1>5. \A i \in DOMAIN input' : i + 1 \in DOMAIN input /\ input'[i] = input[i + 1] /\ 1 < i + 1 /\ 1 \in DOMAIN input
  BY <1>3
<1>6. \A x \in Nat : Over(x) => Over(x)'
  BY <1>1, <1>5 DEF Over
<1>7. Over(t)'
  <2>1. \A i \in DOMAIN input' : input'[i] # 0 => t < input'[i]
    BY <1>2, <1>3, <1>4, <1>5 DEF InputInv
  <2>2. t <= Len(lines)
    BY <1>3, <1>4, <1>5 DEF InputInv
  <2> QED
    BY <1>1, <2>1, <2>2 DEF Over
<1>8. printed' = p
  BY <1>1, <1>2
<1>9. \A x \in Nat : Over(x) => Over(x)' /\ (x \in printed') = (x \in printed)
  <2>1. \A x \in Nat : Over(x) => x < t
    BY <1>2, <1>3 DEF Over
  <2> QED
    BY <1>6, <1>8, <2>1
<1>10. \A x \in Token : Past(x) => Past(x)'
  <2> SUFFICES ASSUME NEW x \in Token, Past(x)
               PROVE  Past(x)'
    OBVIOUS
  <2>1. Piece(x) => Over(x.t)'
    <3>1. Piece(x) => Over(x.t) \/ x.t = t
      BY <1>1, <1>2 DEF Past
    <3> QED
      BY <1>6, <1>7, <3>1 DEF Token
  <2>2. x.t # 0 /\ (x.k = "body" => x.t \in printed')
    BY <1>8 DEF Past
  <2> QED
    BY <2>1, <2>2 DEF Past
<1>11. InputInv'
  <2>1. \A i, j \in DOMAIN input' : i < j /\ input'[i] # 0 /\ input'[j] # 0 => input'[i] < input'[j]
    <3> SUFFICES ASSUME NEW i \in DOMAIN input', NEW j \in DOMAIN input', i < j, input'[i] # 0, input'[j] # 0
                 PROVE  input'[i] < input'[j]
      OBVIOUS
    <3>1. i + 1 < j + 1
      BY <1>3
    <3> QED
      BY <1>4, <1>5, <3>1 DEF InputInv
  <2>2. \A i \in DOMAIN input' : input'[i] <= Len(lines')
    BY <1>1, <1>4, <1>5 DEF InputInv
  <2>3. ASSUME NEW x \in printed'
        PROVE  Over(x)'
    <3>1. CASE x \in printed
      <4>1. x \in Nat /\ Over(x)
        BY <1>4, <3>1 DEF InputInv, TypeOK
      <4> QED
        BY <1>6, <4>1
    <3>2. CASE x = t
      BY <1>7, <3>2
    <3> QED
      BY <1>8, <3>1, <3>2
  <2> QED
    BY <2>1, <2>2, <2>3 DEF InputInv
<1>12. \A x \in Token : Past(x) /\ Piece(x) => x.t < t \/ (x.t = t /\ x.k = "open")
  <2> SUFFICES ASSUME NEW x \in Token, Past(x), Piece(x)
               PROVE  x.t < t \/ (x.t = t /\ x.k = "open")
    OBVIOUS
  <2> QED
    BY <1>1, <1>2, <1>4, NextPrinted
<1>13. /\ b \in Token /\ c \in Token /\ Prompt \in Token
       /\ b.k = "body" /\ b.t = t /\ Tagged(b) /\ Piece(b)
       /\ c.k = "close" /\ c.t = t /\ Tagged(c) /\ Piece(c)
       /\ ~Tagged(Prompt) /\ ~Piece(Prompt) /\ Prompt.k # "open"
  BY TokenFacts DEF Tok, Tagged, Piece, Prompt, Kinds
<1>14. ASSUME NEW x \in Token, Past(x), Piece(x)
       PROVE  x.t # 0 /\ Before(x, b) /\ Before(x, c)
  BY <1>12, <1>13, <1>14 DEF Past, Before, Rank
<1>15. Before(b, c)
  BY <1>13 DEF Before, Rank
<1>16. out' = IF prints THEN Append(Append(Append(out, b), c), Prompt) ELSE Append(Append(out, c), Prompt)
  <2>1. out \in Seq(Token) /\ <<b>> \in Seq(Token) /\ <<c>> \in Seq(Token) /\ <<Prompt>> \in Seq(Token)
    BY <1>13 DEF TypeOK
  <2>2. out' = out \o (IF prints THEN <<b>> ELSE <<>>) \o <<c, Prompt>>
    BY <1>2 DEF ShellFinish
  <2>3. ASSUME NEW u \in Seq(Token)
        PROVE  u \o <<c, Prompt>> = Append(Append(u, c), Prompt)
    <3>1. <<c, Prompt>> = <<c>> \o <<Prompt>>
      OBVIOUS
    <3>2. Append(u, c) = u \o <<c>> /\ Append(u, c) \in Seq(Token)
      BY <1>13, AppendIsConcat, AppendProperties
    <3>3. Append(Append(u, c), Prompt) = Append(u, c) \o <<Prompt>>
      BY <1>13, <3>2, AppendIsConcat
    <3>4. (u \o <<c>>) \o <<Prompt>> = u \o (<<c>> \o <<Prompt>>)
      BY <2>1, ConcatAssociative
    <3> HIDE DEF c
    <3> QED
      BY <3>1, <3>2, <3>3, <3>4
  <2>4. CASE prints
    <3>1. out \o <<b>> = Append(out, b) /\ Append(out, b) \in Seq(Token)
      BY <1>13, <2>1, AppendIsConcat, AppendProperties
    <3>2. out' = (out \o <<b>>) \o <<c, Prompt>>
      BY <2>2, <2>4
    <3> QED
      BY <2>3, <2>4, <3>1, <3>2
  <2>5. CASE ~prints
    <3>1. out \o <<>> = out
      BY <2>1, ConcatEmptySeq
    <3>2. out' = (out \o <<>>) \o <<c, Prompt>>
      BY <2>2, <2>5
    <3> QED
      BY <2>1, <2>3, <2>5, <3>1, <3>2
  <2> QED
    BY <2>4, <2>5
<1>17. \A x \in TokensOf(Text) : x \in Token /\ (Piece(x) => Past(x))
  <2>1. Text \in Seq(Token)
    BY TextAppend
  <2> QED
    BY <1>4, <2>1, TokensType DEF TextInv, Tagged, Piece
<1> HIDE DEF b, c
<1>18. Text' = Append(Append(s, c), Prompt)
  <2>1. CASE prints
    <3>1. out' = Append(Append(Append(out, b), c), Prompt)
      BY <1>16, <2>1
    <3> QED
      BY <1>1, <1>13, <2>1, <3>1, TextPrinted
  <2>2. CASE ~prints
    <3>1. out' = Append(Append(out, c), Prompt)
      BY <1>16, <2>2
    <3> QED
      BY <1>1, <1>13, <2>2, <3>1, TextPrinted
  <2> QED
    BY <2>1, <2>2
<1>19. Text \in Seq(Token) /\ s \in Seq(Token) /\ Append(s, c) \in Seq(Token)
  BY <1>13, TextAppend, AppendProperties
<1>20. /\ TokensOf(s) \subseteq TokensOf(Text) \cup (IF prints THEN {b} ELSE {})
       /\ TokensOf(Append(s, c)) = TokensOf(s) \cup {c}
       /\ TokensOf(Text') = TokensOf(Append(s, c)) \cup {Prompt}
  <2>1. TokensOf(Append(Text, b)) = TokensOf(Text) \cup {b}
    BY <1>13, <1>19, TokensAppend
  <2>2. TokensOf(Append(s, c)) = TokensOf(s) \cup {c}
    BY <1>13, <1>19, TokensAppend
  <2>3. TokensOf(Append(Append(s, c), Prompt)) = TokensOf(Append(s, c)) \cup {Prompt}
    BY <1>13, <1>19, TokensAppend
  <2> QED
    BY <1>18, <2>1, <2>2, <2>3
<1>21. \A i \in DOMAIN Text : Text[i] \in TokensOf(Text)
  BY DEF TokensOf
<1>22. Good(s, t, p)
  <2>1. Good(Text, t, printed)
    BY <1>1, <1>2, <1>4 DEF TextInv
  <2>2. CASE prints
    <3>1. \A i \in DOMAIN Text : Piece(Text[i]) => Text[i].t # 0 /\ Before(Text[i], b)
      BY <1>14, <1>17, <1>21
    <3>2. Good(Append(Text, b), t, printed \cup {t})
      BY <1>19, <2>1, <3>1, GoodBody DEF b
    <3> QED
      BY <2>2, <3>2
  <2>3. CASE ~prints
    BY <2>1, <2>3
  <2> QED
    BY <2>2, <2>3
<1>23. \A x \in TokensOf(s) : Piece(x) => x.t # 0 /\ Before(x, c)
  BY <1>13, <1>14, <1>15, <1>17, <1>20
<1>24. \A i \in DOMAIN s : s[i] \in TokensOf(s)
  BY DEF TokensOf
<1>25. \A i \in DOMAIN Append(s, c) : Append(s, c)[i] \in TokensOf(Append(s, c))
  BY DEF TokensOf
<1> HIDE DEF s, p
<1>26. Good(Append(s, c), 0, p)
  <2>1. \A i \in DOMAIN s : Piece(s[i]) => s[i].t # 0 /\ Before(s[i], Tok("close", t))
    BY <1>23, <1>24 DEF c
  <2> QED
    BY <1>19, <1>22, <2>1, GoodClose DEF c
<1>27. Good(Append(Append(s, c), Prompt), 0, p)
  <2> DEFINE u == Append(s, c)
  <2>1. \A i \in DOMAIN u : Piece(u[i]) => u[i].t # 0 /\ (Tagged(Prompt) => Before(u[i], Prompt))
    BY <1>13, <1>20, <1>23, <1>25
  <2> HIDE DEF u
  <2>2. u \in Seq(Token) /\ Good(u, 0, p)
    BY <1>19, <1>26 DEF u
  <2>3. Good(Append(u, Prompt), 0, p)
    BY <1>13, <2>1, <2>2, GoodAppend
  <2> QED
    BY <2>3 DEF u
<1>28. Good(Text', Running', printed')
  BY <1>1, <1>8, <1>18, <1>27
<1>29. \A y \in new : IF Tagged(y) THEN Past(y)' /\ \A x \in Token : Past(x) /\ Piece(x) => Before(x, y)
                      ELSE y \in {Prompt, Noise}
  <2>1. Past(c)' /\ (prints => Past(b)')
    BY <1>7, <1>8, <1>13 DEF Past, p
  <2> QED
    BY <1>13, <1>14, <2>1
<1>30. TokensOf(Text') \subseteq TokensOf(Text) \cup new /\ new \in SUBSET Token
  BY <1>13, <1>20
<1>31. UNCHANGED <<writerVars, screen, result>>
  BY <1>1
<1> HIDE DEF new
<1> QED
  BY <1>9, <1>10, <1>11, <1>28, <1>29, <1>30, <1>31, ShellAnswer, Zenon

(* Every step preserves the invariant. *)
LEMMA AnswerStep ==
  ASSUME TypeOK, TypeOK', AnswerInv, [Next]_vars
  PROVE  AnswerInv'
<1> USE CaptureAssumption DEF requestVars, remoteVars, hostInfoVars
<1>1. CASE CheckPrompt \/ AwaitPrompt \/ PromptTimedOut \/ UNCHANGED vars
  <2>1. UNCHANGED <<lines, input, shell, printed, out, writerVars, screen, result>>
    BY <1>1 DEF CheckPrompt, AwaitPrompt, PromptTimedOut, vars
  <2> QED
    BY <2>1, AnswerUntouched
<1>2. ASSUME NEW r \in Requesters, Notify(r)
      PROVE  AnswerInv'
  <2>1. UNCHANGED <<lines, input, shell, printed, out, writerVars, screen, result>>
    BY <1>2 DEF Notify
  <2> QED
    BY <2>1, AnswerUntouched
<1>3. ASSUME NEW r \in Requesters, TimedOut(r)
      PROVE  AnswerInv'
  <2>1. UNCHANGED <<lines, input, shell, printed, out, writerVars, screen>>
    BY <1>3 DEF TimedOut
  <2>2. \A q \in Requesters : result'[q] = result[q] \/ result'[q].from = 0
    BY <1>3 DEF TimedOut, TypeOK
  <2> QED
    BY <2>1, <2>2, AnswerUntouched
<1>4. ASSUME NEW r \in Requesters, NEW c \in {"dl", "hostinfo", "up"}, Ask(r, c)
      PROVE  AnswerInv'
  <2>1. Len(lines) \in Nat /\ Len(lines') = Len(lines) + 1
    BY <1>4, AppendProperties, LenProperties DEF Ask, TypeOK
  <2>2. PICK x \in 0..MaxReq : x = Len(lines) + 1
    BY <1>4, <2>1 DEF Ask, TypeOK
  <2>3. input' = Append(input, x) /\ UNCHANGED <<shell, printed, writerVars, screen, result>>
    BY <1>4, <2>2 DEF Ask, FreshTag
  <2>4. (x # 0 => x = Len(lines) + 1) /\ Len(lines') = IF x = 0 THEN Len(lines) ELSE x
    BY <2>1, <2>2
  <2>5. out' = out \/ (x # 0 /\ out' = Append(out, Tok("echo", x)))
    <3>1. out \in Seq(Token) /\ Tok("echo", x) \in Token
      BY TokenFacts DEF TypeOK, Kinds
    <3>2. out' = out \o EchoNow(x)
      BY <1>4, <2>2 DEF Ask, FreshTag
    <3>3. out \o <<>> = out /\ out \o <<Tok("echo", x)>> = Append(out, Tok("echo", x))
      BY <3>1, ConcatEmptySeq, AppendIsConcat, Zenon
    <3>4. EchoNow(x) = <<>> \/ EchoNow(x) = <<Tok("echo", x)>>
      BY DEF EchoNow
    <3>5. x # 0
      BY <2>1, <2>2
    <3> QED
      BY <3>2, <3>3, <3>4, <3>5, Zenon
  <2> QED
    BY <2>3, <2>4, <2>5, TypedAnswer
<1>5. CASE EndCommand
  <2>1. input' = Append(input, 0) /\ UNCHANGED <<lines, shell, printed, out, writerVars, screen, result>>
    BY <1>5 DEF EndCommand
  <2>2. 0 \in 0..MaxReq
    OBVIOUS
  <2> QED
    BY <2>1, <2>2, TypedAnswer
<1>6. CASE Tick
  BY <1>6, TickAnswer
<1>7. ASSUME NEW n \in 1..Len(out), Read(n)
      PROVE  AnswerInv'
  BY <1>7, ReadAnswer
<1>8. ASSUME NEW r \in Requesters, Deliver(r)
      PROVE  AnswerInv'
  BY <1>8, DeliverAnswer
<1>9. CASE Login
  <2>1. out' = Append(out, Prompt) /\ Running = 0 /\ Running' = 0
    BY <1>9 DEF Login, Running
  <2>2. UNCHANGED <<input, lines, printed, writerVars, screen, result>>
    BY <1>9 DEF Login
  <2> QED
    BY <2>1, <2>2, PlainAnswer
<1>10. CASE ShellEnter
  <2>1. out' = Append(out, Prompt) /\ Running = 0 /\ Running' = 0
    BY <1>10 DEF ShellEnter, Running
  <2>2. input # <<>> /\ input' = Tail(input) /\ UNCHANGED <<lines, printed, writerVars, screen, result>>
    BY <1>10 DEF ShellEnter
  <2> QED
    BY <2>1, <2>2, PlainAnswer
<1>11. CASE Chatter
  <2>1. out' = Append(out, Noise) /\ Running' = Running
    BY <1>11 DEF Chatter, Running
  <2>2. UNCHANGED <<input, lines, printed, writerVars, screen, result>>
    BY <1>11 DEF Chatter
  <2>3. Noise # Prompt
    BY DEF Noise, Prompt, Tok
  <2> QED
    BY <2>1, <2>2, <2>3, PlainAnswer
<1>12. CASE ShellStart
  BY <1>12, StartAnswer
<1>13. ASSUME NEW prints \in BOOLEAN, ShellFinish(prints)
       PROVE  AnswerInv'
  BY <1>13, FinishAnswer
<1> QED
  BY <1>1, <1>2, <1>3, <1>4, <1>5, <1>6, <1>7, <1>8, <1>9, <1>10, <1>11, <1>12, <1>13
  DEF Next, RequesterNext, RemoteNext

LEMMA AnswerInit == Init => AnswerInv
<1> SUFFICES ASSUME Init
             PROVE  AnswerInv
  OBVIOUS
<1>1. /\ input = <<>> /\ out = <<>> /\ wpc = "read" /\ notifyTag = 0 /\ screen = {} /\ printed = {}
      /\ \A r \in Requesters : result[r].from = 0
  BY DEF Init, NoResult
<1>2. Text = <<>>
  BY <1>1 DEF Text, Held, Capturing
<1>3. DOMAIN <<>> = {} /\ TokensOf(<<>>) = {}
  BY DEF TokensOf
<1>4. InputInv
  BY <1>1, <1>3 DEF InputInv
<1>5. TextInv
  BY <1>2, <1>3 DEF TextInv, Good, Sorted, Closed, Answered, Prompted
<1>6. ScreenInv /\ SendInv /\ ResultInv
  BY <1>1 DEF ScreenInv, SendInv, ResultInv, HandedOver
<1> QED
  BY <1>4, <1>5, <1>6 DEF AnswerInv

LEMMA AnswerCorrect == Spec => []AnswerInv
<1>1. TypeOK /\ TypeOK' /\ AnswerInv /\ [Next]_vars => AnswerInv'
  BY AnswerStep
<1> QED
  BY <1>1, AnswerInit, TypeCorrect, PTL DEF Spec

(* An answer that clearTag cuts out of the swallowed output and a requester *)
(* is given is all its command printed and nothing another one printed,    *)
(* whatever the chunks, the time outs, the number of requests and the      *)
(* lines that were typed, and echoed, while the command ran.               *)
THEOREM AnswersAreWhole == Spec => []AnswerIsWhole
<1>1. AnswerInv => AnswerIsWhole
  BY DEF AnswerInv, ResultInv, HandedOver, WholeAnswer, AnswerPart, AnswerIsWhole
<1> QED
  BY <1>1, AnswerCorrect, PTL

(* And nothing of it is on the screen, nor can it get there later: what    *)
(* interruptWriter.Read swallows for an answer it never displays.          *)
THEOREM AnswersAreHidden == Spec => []AnswerIsHidden
<1>1. AnswerInv => AnswerIsHidden
  BY DEF AnswerInv, ResultInv, HandedOver, Gone, AnswerIsHidden, Tok
<1> QED
  BY <1>1, AnswerCorrect, PTL

=============================================================================
