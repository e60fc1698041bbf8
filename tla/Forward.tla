------------------------------- MODULE Forward -------------------------------
(***************************************************************************)
(* Forwarded connections (sshlib/forward.go): a goroutine accepts callers  *)
(* and connects each one to its service (TCPLocalForward,                  *)
(* TCPRemoteForward, X11Forward); two goroutines per connection copy its   *)
(* two directions until both have ended, then both sides are closed        *)
(* (forwarder, x11forwarder).                                              *)
(*                                                                         *)
(* Callers and services are external: they send, end their stream (half    *)
(* close) or go away (close), when they like.                              *)
(***************************************************************************)
EXTENDS Integers

CONSTANTS
  Modes,    \* the kinds of forwards: subset of {"local", "remote", "x11"}
  MaxConn,  \* bound on the number of callers
  MaxData   \* bound on the data sent in each direction

ASSUME ForwardAssumption ==
  /\ Modes \subseteq {"local", "remote", "x11"}
  /\ MaxConn \in Nat
  /\ MaxData \in Nat

Conns == 1..MaxConn
Directions == {"out", "back"}  \* from the caller, from the service

VARIABLES
  mode,     \* the kind of forward
  loop,     \* the accepting goroutine: "accept", "dial" or "stopped"
  arrived,  \* callers so far
  taken,    \* callers that were accepted
  conn,     \* each connection: "none", "waiting", "setup", "open", "lost" or "closed"
  sent,     \* data sent, by connection and direction
  copied,   \* data written to the other side
  ended,    \* whether the source has ended its stream
  gone,     \* whether the source does not read any more, either
  copier,   \* each copying goroutine: "run" or "done"
  eof       \* whether the destination was told that the stream has ended

streamVars == <<sent, copied, ended, gone, copier, eof>>
vars == <<mode, loop, arrived, taken, conn, streamVars>>

Other(d) == IF d = "out" THEN "back" ELSE "out"
Streams(v) == [c \in Conns |-> [d \in Directions |-> v]]

(* A remote forward dials the service before it accepts a caller. *)
LoopStart == IF mode = "remote" THEN "dial" ELSE "accept"

Init ==
  /\ mode \in Modes
  /\ loop = LoopStart
  /\ arrived = 0
  /\ taken = 0
  /\ conn = [c \in Conns |-> "none"]
  /\ sent = Streams(0)
  /\ copied = Streams(0)
  /\ ended = Streams(FALSE)
  /\ gone = Streams(FALSE)
  /\ copier = Streams("run")
  /\ eof = Streams(FALSE)

-----------------------------------------------------------------------------
(* The accepting goroutine. *)

Arrive ==
  /\ arrived < MaxConn
  /\ arrived' = arrived + 1
  /\ conn' = [conn EXCEPT ![arrived + 1] = "waiting"]
  /\ UNCHANGED <<mode, loop, taken, streamVars>>

(* A caller is accepted.  X11Forward goes on after a failure, the others   *)
(* return.                                                                 *)
Accepted == IF mode = "remote" THEN "open" ELSE "setup"
AfterAccept == IF mode = "x11" THEN "accept" ELSE "dial"

Accept ==
  /\ loop = "accept"
  /\ taken < arrived
  /\ taken' = taken + 1
  /\ conn' = [conn EXCEPT ![taken + 1] = Accepted]
  /\ loop' = AfterAccept
  /\ UNCHANGED <<mode, arrived, streamVars>>

Return == "stopped"  \* deviation: X11Forward returns, too
AfterFailure == IF mode = "x11" THEN "accept" ELSE "stopped"

AcceptFails ==
  /\ loop = "accept"
  /\ taken < arrived
  /\ taken' = taken + 1
  /\ conn' = [conn EXCEPT ![taken + 1] = "closed"]
  /\ loop' = AfterFailure
  /\ UNCHANGED <<mode, arrived, streamVars>>

(* The service is dialled, for the caller just accepted or the next one; a *)
(* failure ends the goroutine, and the caller's connection stays as it is. *)
Dial(ok) ==
  /\ loop = "dial"
  /\ loop' = IF ok THEN "accept" ELSE "stopped"
  /\ conn' = IF mode = "remote" THEN conn
             ELSE [conn EXCEPT ![taken] = IF ok THEN "open" ELSE "lost"]
  /\ UNCHANGED <<mode, arrived, taken, streamVars>>

(* x11forwarder connects to the display in a goroutine of its own. *)
X11Connect(c, ok) ==
  /\ mode = "x11"
  /\ conn[c] = "setup"
  /\ conn' = [conn EXCEPT ![c] = IF ok THEN "open" ELSE "lost"]
  /\ UNCHANGED <<mode, loop, arrived, taken, streamVars>>

-----------------------------------------------------------------------------
(* Callers and services. *)

Send(c, d) ==
  /\ conn[c] = "open"
  /\ ~ended[c][d]
  /\ sent[c][d] < MaxData
  /\ sent' = [sent EXCEPT ![c][d] = @ + 1]
  /\ UNCHANGED <<mode, loop, arrived, taken, conn, copied, ended, gone, copier, eof>>

End(c, d, leaves) ==
  /\ conn[c] = "open"
  /\ ~ended[c][d] \/ (leaves /\ ~gone[c][d])
  /\ ended' = [ended EXCEPT ![c][d] = TRUE]
  /\ gone' = [gone EXCEPT ![c][d] = leaves]
  /\ UNCHANGED <<mode, loop, arrived, taken, conn, sent, copied, copier, eof>>

-----------------------------------------------------------------------------
(* io.Copy in each direction. *)

Copying(c, d) == conn[c] = "open" /\ copier[c][d] = "run"

ReadsOn(c, d) == copied[c][d] <= sent[c][d]  \* deviation: one more than there is
HasData(c, d) == copied[c][d] < sent[c][d]

(* What io.Copy is followed by: x11forwarder's CloseWrite tells the other  *)
(* side, forwarder does not.                                               *)
Silent(c, d) == eof' = eof  \* deviation: the other side is not told
TellOther(c, d) == eof' = IF mode = "x11" THEN [eof EXCEPT ![c][d] = TRUE] ELSE eof

Copy(c, d) ==
  /\ Copying(c, d)
  /\ HasData(c, d)
  /\ copied' = [copied EXCEPT ![c][d] = @ + 1]
  /\ UNCHANGED <<mode, loop, arrived, taken, conn, sent, ended, gone, copier, eof>>

(* A write to a side that is gone fails, sooner or later. *)
CopyFails(c, d) ==
  /\ Copying(c, d)
  /\ HasData(c, d)
  /\ gone[c][Other(d)]
  /\ copier' = [copier EXCEPT ![c][d] = "done"]
  /\ TellOther(c, d)
  /\ UNCHANGED <<mode, loop, arrived, taken, conn, sent, copied, ended, gone>>

CopyEnds(c, d) ==
  /\ Copying(c, d)
  /\ copied[c][d] = sent[c][d]
  /\ ended[c][d]
  /\ copier' = [copier EXCEPT ![c][d] = "done"]
  /\ TellOther(c, d)
  /\ UNCHANGED <<mode, loop, arrived, taken, conn, sent, copied, ended, gone>>

(* wg.Wait, then both sides are closed. *)
OneMore(c) == FALSE  \* deviation: wg.Add(3)
AnyDone(c) == \E d \in Directions : copier[c][d] = "done"  \* deviation: wg.Add(1)
AllDone(c) == \A d \in Directions : copier[c][d] = "done"

Close(c) ==
  /\ conn[c] = "open"
  /\ AllDone(c)
  /\ conn' = [conn EXCEPT ![c] = "closed"]
  /\ eof' = [eof EXCEPT ![c] = [d \in Directions |-> TRUE]]
  /\ UNCHANGED <<mode, loop, arrived, taken, sent, copied, ended, gone, copier>>

Next ==
  \/ Arrive
  \/ Accept
  \/ AcceptFails
  \/ \E ok \in BOOLEAN : Dial(ok)
  \/ \E c \in Conns :
       \/ \E ok \in BOOLEAN : X11Connect(c, ok)
       \/ Close(c)
       \/ \E d \in Directions :
            \/ Send(c, d)
            \/ \E leaves \in BOOLEAN : End(c, d, leaves)
            \/ Copy(c, d)
            \/ CopyFails(c, d)
            \/ CopyEnds(c, d)

(* The goroutines go on; callers and services owe nothing. *)
Fairness ==
  /\ WF_vars(Accept \/ AcceptFails \/ \E ok \in BOOLEAN : Dial(ok))
  /\ \A c \in Conns :
       /\ WF_vars(\E ok \in BOOLEAN : X11Connect(c, ok))
       /\ WF_vars(Close(c))
       /\ \A d \in Directions : WF_vars(Copy(c, d) \/ CopyFails(c, d) \/ CopyEnds(c, d))

Spec == Init /\ [][Next]_vars
FairSpec == Spec /\ Fairness

-----------------------------------------------------------------------------
(* Every variable holds a value of its kind. *)
TypeOK ==
  /\ mode \in Modes
  /\ loop \in {"accept", "dial", "stopped"}
  /\ arrived \in 0..MaxConn
  /\ taken \in 0..arrived
  /\ conn \in [Conns -> {"none", "waiting", "setup", "open", "lost", "closed"}]
  /\ sent \in [Conns -> [Directions -> 0..MaxData]]
  /\ copied \in [Conns -> [Directions -> 0..MaxData]]
  /\ ended \in [Conns -> [Directions -> BOOLEAN]]
  /\ gone \in [Conns -> [Directions -> BOOLEAN]]
  /\ copier \in [Conns -> [Directions -> {"run", "done"}]]
  /\ eof \in [Conns -> [Directions -> BOOLEAN]]

(* A side that is told the stream has ended, and is still there, was given *)
(* all that was sent: neither the end of one direction nor the final close *)
(* cuts the other direction off.                                           *)
NothingLost ==
  \A c \in Conns, d \in Directions :
    eof[c][d] /\ ~gone[c][Other(d)] => ended[c][d] /\ copied[c][d] = sent[c][d]

(* A connection whose two sides have ended is closed: no descriptor leaks. *)
EndedIsClosed ==
  \A c \in Conns :
    (conn[c] = "open" /\ \A d \in Directions : ended[c][d]) ~> (conn[c] = "closed")

(* The end of a stream reaches the other side, also while the other        *)
(* direction goes on: a service that waits for it can answer.              *)
EndPassedOn ==
  \A c \in Conns, d \in Directions : (conn[c] = "open" /\ ended[c][d]) ~> eof[c][d]

(* A caller that waits is accepted, also after another one could not be    *)
(* connected to the service.                                               *)
CallersAccepted == \A c \in Conns : (conn[c] = "waiting") ~> (conn[c] # "waiting")

(* Both hold of X11 forwards, whose forwarder half closes and whose accept *)
(* loop goes on after a failure.                                           *)
X11EndPassedOn ==
  \A c \in Conns, d \in Directions :
    (mode = "x11" /\ conn[c] = "open" /\ ended[c][d]) ~> eof[c][d]

(* An X client that waits is accepted whatever became of the ones before.  *)
X11CallersAccepted ==
  \A c \in Conns : (mode = "x11" /\ conn[c] = "waiting") ~> (conn[c] # "waiting")
=============================================================================
