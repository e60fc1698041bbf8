------------------------------- MODULE Request -------------------------------
(***************************************************************************)
(* What a caller of executeCmd may rely on: a request is given a tag of    *)
(* its own, and if it ever returns, it returns nothing or an answer that   *)
(* nobody was given before, and which for a .dl is the one to that tag.    *)
(* Nothing is promised about when, or whether, it returns.                 *)
(***************************************************************************)
EXTENDS Integers, Sequences

CONSTANTS
  Requesters,  \* the goroutines that make requests
  Lines,       \* the command lines there are
  MaxReq       \* bound on the number of requests

VARIABLES
  lines,    \* the command lines so far; the n-th carries tag n
  pending,  \* the tag each requester waits for, 0 for none
  result    \* the tag of each requester's last request, and of the answer it got

vars == <<lines, pending, result>>

Init ==
  /\ lines = <<>>
  /\ pending = [r \in Requesters |-> 0]
  /\ result = [r \in Requesters |-> [tag |-> 0, from |-> 0]]

Ask(r) ==
  /\ pending[r] = 0
  /\ Len(lines) < MaxReq
  /\ \E c \in Lines : lines' = Append(lines, c)
  /\ pending' = [pending EXCEPT ![r] = Len(lines) + 1]
  /\ UNCHANGED result

(* from is the tag of the answer, or 0 when the request was given up.      *)
Return(r, from) ==
  /\ pending[r] # 0
  /\ from \notin {0, pending[r]} => lines[pending[r]] # "dl"
  /\ from # 0 => \A q \in Requesters : result[q].from # from
  /\ result' = [result EXCEPT ![r] = [tag |-> pending[r], from |-> from]]
  /\ pending' = [pending EXCEPT ![r] = 0]
  /\ UNCHANGED lines

Next == \E r \in Requesters : Ask(r) \/ \E from \in 0..MaxReq : Return(r, from)

Spec == Init /\ [][Next]_vars
=============================================================================
