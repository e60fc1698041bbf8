---------------------------- MODULE ForwardProofs ----------------------------
(***************************************************************************)
(* Proofs about Forward, for any number of connections and any amount of   *)
(* data.                                                                   *)
(***************************************************************************)
EXTENDS Forward, TLAPS

(* A copying goroutine is done when it has copied all there will ever be,  *)
(* or when nobody reads it; a side is told of the end after that.          *)
CopyInv ==
  \A c \in Conns, d \in Directions :
    /\ gone[c][d] => ended[c][d]
    /\ copier[c][d] = "done" =>
         gone[c][Other(d)] \/ (ended[c][d] /\ copied[c][d] = sent[c][d])
    /\ eof[c][d] => copier[c][d] = "done"

LEMMA OtherDirection == \A d \in Directions : Other(d) \in Directions /\ Other(d) # d
  BY DEF Directions, Other

LEMMA TypeInit == Init => TypeOK
  BY ForwardAssumption DEF Init, TypeOK, LoopStart, Streams, Conns, Directions

(* The accepting goroutine: the number of a caller that is accepted is one *)
(* of Conns.                                                               *)
LEMMA TypeStep ==
  ASSUME TypeOK, [Next]_vars
  PROVE  TypeOK'
<1> USE ForwardAssumption
<1>1. CASE Arrive
  BY <1>1 DEF Arrive, TypeOK, streamVars, Conns
<1>2. CASE Accept
  BY <1>2 DEF Accept, Accepted, AfterAccept, TypeOK, streamVars, Conns
<1>3. CASE AcceptFails
  BY <1>3 DEF AcceptFails, AfterFailure, TypeOK, streamVars, Conns
<1>4. CASE \E ok \in BOOLEAN : Dial(ok)
  BY <1>4 DEF Dial, TypeOK, streamVars, Conns
<1>5. CASE \E c \in Conns, ok \in BOOLEAN : X11Connect(c, ok)
  BY <1>5 DEF X11Connect, TypeOK, streamVars
<1>6. ASSUME NEW c \in Conns, Close(c)
      PROVE  TypeOK'
  <2>1. [d \in Directions |-> TRUE] \in [Directions -> BOOLEAN]
    OBVIOUS
  <2>2. eof' \in [Conns -> [Directions -> BOOLEAN]]
    BY <1>6, <2>1 DEF Close, TypeOK
  <2>3. conn' \in [Conns -> {"none", "waiting", "setup", "open", "lost", "closed"}]
    BY <1>6 DEF Close, TypeOK
  <2> QED
    BY <1>6, <2>2, <2>3 DEF Close, TypeOK
<1>7. ASSUME NEW c \in Conns, NEW d \in Directions, Send(c, d)
      PROVE  TypeOK'
  <2>1. sent[c][d] + 1 \in 0..MaxData
    BY <1>7 DEF Send, TypeOK
  <2>2. sent' \in [Conns -> [Directions -> 0..MaxData]]
    BY <1>7, <2>1 DEF Send, TypeOK
  <2> QED
    BY <1>7, <2>2 DEF Send, TypeOK
<1>8. ASSUME NEW c \in Conns, NEW d \in Directions, NEW leaves \in BOOLEAN, End(c, d, leaves)
      PROVE  TypeOK'
  <2>1. ended' \in [Conns -> [Directions -> BOOLEAN]] /\ gone' \in [Conns -> [Directions -> BOOLEAN]]
    BY <1>8 DEF End, TypeOK
  <2> QED
    BY <1>8, <2>1 DEF End, TypeOK
<1>9. ASSUME NEW c \in Conns, NEW d \in Directions, Copy(c, d)
      PROVE  TypeOK'
  <2>1. copied[c][d] + 1 \in 0..MaxData
    BY <1>9 DEF Copy, HasData, TypeOK
  <2>2. copied' \in [Conns -> [Directions -> 0..MaxData]]
    BY <1>9, <2>1 DEF Copy, TypeOK
  <2> QED
    BY <1>9, <2>2 DEF Copy, TypeOK
<1>10. ASSUME NEW c \in Conns, NEW d \in Directions, CopyFails(c, d) \/ CopyEnds(c, d)
       PROVE  TypeOK'
  <2>1. copier' \in [Conns -> [Directions -> {"run", "done"}]]
    <3>1. copier' = [copier EXCEPT ![c][d] = "done"]
      BY <1>10 DEF CopyFails, CopyEnds
    <3> QED
      BY <3>1 DEF TypeOK
  <2>2. eof' \in [Conns -> [Directions -> BOOLEAN]]
    <3>1. eof' = eof \/ eof' = [eof EXCEPT ![c][d] = TRUE]
      BY <1>10 DEF CopyFails, CopyEnds, TellOther
    <3>2. CASE eof' = eof
      BY <3>2 DEF TypeOK
    <3>3. CASE eof' = [eof EXCEPT ![c][d] = TRUE]
      <4>1. eof \in [Conns -> [Directions -> BOOLEAN]]
        BY DEF TypeOK
      <4> QED
        BY <3>3, <4>1
    <3> QED
      BY <3>1, <3>2, <3>3
  <2> QED
    BY <1>10, <2>1, <2>2 DEF CopyFails, CopyEnds, TypeOK
<1>11. CASE UNCHANGED vars
  BY <1>11 DEF vars, TypeOK, streamVars
<1> QED
  BY <1>1, <1>2, <1>3, <1>4, <1>5, <1>6, <1>7, <1>8, <1>9, <1>10, <1>11 DEF Next

(* The type invariant of forwarded connections. *)
THEOREM TypeCorrect == Spec => []TypeOK
  BY TypeInit, TypeStep, PTL DEF Spec

-----------------------------------------------------------------------------
LEMMA CopyInit == Init => CopyInv
  BY OtherDirection DEF Init, CopyInv, Streams

LEMMA CopyStep ==
  ASSUME TypeOK, CopyInv, [Next]_vars
  PROVE  CopyInv'
<1> USE OtherDirection
<1>1. CASE UNCHANGED streamVars
  BY <1>1 DEF CopyInv, streamVars
<1>2. ASSUME NEW c \in Conns, Close(c)
      PROVE  CopyInv'
  <2>1. \A e \in Directions : copier[c][e] = "done" /\ eof'[c][e] = TRUE
    BY <1>2 DEF Close, AllDone, TypeOK
  <2>2. \A b \in Conns, e \in Directions : b # c => eof'[b][e] = eof[b][e]
    BY <1>2 DEF Close, TypeOK
  <2> QED
    BY <1>2, <2>1, <2>2 DEF Close, CopyInv
<1>3. ASSUME NEW c \in Conns, NEW d \in Directions, Send(c, d)
      PROVE  CopyInv'
  <2>1. ~ended[c][d]
    BY <1>3 DEF Send
  <2>2. \A b \in Conns, e \in Directions : <<b, e>> # <<c, d>> => sent'[b][e] = sent[b][e]
    BY <1>3 DEF Send, TypeOK
  <2> QED
    BY <1>3, <2>1, <2>2 DEF Send, CopyInv
<1>4. ASSUME NEW c \in Conns, NEW d \in Directions, NEW leaves \in BOOLEAN, End(c, d, leaves)
      PROVE  CopyInv'
  <2>1. \A b \in Conns, e \in Directions :
          <<b, e>> # <<c, d>> => ended'[b][e] = ended[b][e] /\ gone'[b][e] = gone[b][e]
    BY <1>4 DEF End, TypeOK
  <2>2. ended'[c][d] = TRUE /\ gone'[c][d] = leaves
    BY <1>4 DEF End, TypeOK
  <2>3. gone[c][d] => leaves
    BY <1>4 DEF End, CopyInv
  <2>4. \A b \in Conns, e \in Directions : gone[b][e] => gone'[b][e]
    BY <2>1, <2>2, <2>3
  <2>5. \A b \in Conns, e \in Directions : ended[b][e] => ended'[b][e]
    BY <2>1, <2>2
  <2>6. \A b \in Conns, e \in Directions : gone'[b][e] => ended'[b][e]
    BY <2>1, <2>2 DEF CopyInv
  <2> QED
    BY <1>4, <2>4, <2>5, <2>6 DEF End, CopyInv
<1>5. ASSUME NEW c \in Conns, NEW d \in Directions, Copy(c, d)
      PROVE  CopyInv'
  <2>1. copier[c][d] # "done"
    BY <1>5 DEF Copy, Copying
  <2>2. \A b \in Conns, e \in Directions : <<b, e>> # <<c, d>> => copied'[b][e] = copied[b][e]
    BY <1>5 DEF Copy, TypeOK
  <2> QED
    BY <1>5, <2>1, <2>2 DEF Copy, CopyInv
<1>6. ASSUME NEW c \in Conns, NEW d \in Directions, CopyFails(c, d) \/ CopyEnds(c, d)
      PROVE  CopyInv'
  <2>1. gone[c][Other(d)] \/ (ended[c][d] /\ copied[c][d] = sent[c][d])
    BY <1>6 DEF CopyFails, CopyEnds
  <2>2. UNCHANGED <<sent, copied, ended, gone>>
    BY <1>6 DEF CopyFails, CopyEnds
  <2>3. \A b \in Conns, e \in Directions :
          <<b, e>> # <<c, d>> => copier'[b][e] = copier[b][e] /\ eof'[b][e] = eof[b][e]
    BY <1>6 DEF CopyFails, CopyEnds, TellOther, TypeOK
  <2>4. copier'[c][d] = "done"
    BY <1>6 DEF CopyFails, CopyEnds, TypeOK
  <2> QED
    BY <2>1, <2>2, <2>3, <2>4 DEF CopyInv
<1>7. CASE Arrive \/ Accept \/ AcceptFails
  BY <1>7, <1>1 DEF Arrive, Accept, AcceptFails
<1>8. CASE \E ok \in BOOLEAN : Dial(ok)
  BY <1>8, <1>1 DEF Dial
<1>9. CASE \E c \in Conns, ok \in BOOLEAN : X11Connect(c, ok)
  BY <1>9, <1>1 DEF X11Connect
<1>10. CASE UNCHANGED vars
  BY <1>10, <1>1 DEF vars
<1> QED
  BY <1>2, <1>3, <1>4, <1>5, <1>6, <1>7, <1>8, <1>9, <1>10 DEF Next

(* A side that is told of the end was given everything, in all three kinds *)
(* of forwards: forwarder and x11forwarder close a connection only after   *)
(* both of its copies have ended.                                          *)
THEOREM NoDataLost == Spec => []NothingLost
<1>1. TypeOK /\ CopyInv => NothingLost
  BY OtherDirection DEF TypeOK, CopyInv, NothingLost
<1> QED
  BY <1>1, TypeInit, TypeStep, CopyInit, CopyStep, PTL DEF Spec
=============================================================================
