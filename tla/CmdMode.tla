------------------------------ MODULE CmdMode -------------------------------
(***************************************************************************)
(* Command mode: one command on the selected servers (ssh/cmd.go,          *)
(* sshlib/cmd.go), with standard input for all of them (output.go) and     *)
(* their output on one terminal.  The processes are the main goroutine, a  *)
(* goroutine per command, the one that pushes input, the ones the ssh      *)
(* library copies input with, and the printers.                            *)
(***************************************************************************)
EXTENDS Integers, Sequences, FiniteSets, SequencesExt

CONSTANTS
  ServerLists,  \* selections: sequences of server names
  ID,           \* a server's ID; hosts of one template share it
  Chunks,       \* pieces of standard input, then its end
  Window        \* pieces a session takes before the remote side reads

ASSUME BoundsAssumption ==
  /\ ServerLists \subseteq Seq(DOMAIN ID)
  /\ Chunks \in Nat /\ Window \in Nat \ {0}

IDs == {ID[s] : s \in DOMAIN ID}
Modes == [parallel : BOOLEAN, piped : BOOLEAN, term : BOOLEAN, filter : BOOLEAN, list : ServerLists]

VARIABLES
  mode,       \* -p, standard input is a pipe, -t, the command reads to the end of its input; r.ServerList
  pc,         \* the main goroutine
  todo,       \* servers to connect to, then IDs to run the command on
  at,         \* the ID it works on
  connMap,    \* IDs with a connection
  session,    \* ID -> its session
  writers,    \* standard inputs to push to, in order
  push,       \* the pushing goroutine: what it does, the piece, the writers left
  next,       \* the next piece of standard input
  copier,     \* ID -> the library's copy of standard input: on, the piece it holds (0: none)
  inbox,      \* ID -> pieces sent, not read by the command
  got,        \* ID -> pieces the command has read
  closed,     \* ID -> its standard input was closed
  signals,    \* goroutines that send on finished
  received,   \* signals taken
  ran,        \* ID -> how often the command was started
  unseen      \* ID -> lines printed by the command, not yet on the terminal

main == <<pc, todo, at, connMap, session, writers, received, ran, signals>>
input == <<push, next, copier, inbox, closed>>
vars == <<mode, main, input, got, unseen>>

Multi == Len(mode.list) > 1
Pushed == mode.parallel /\ Multi
Given == Multi /\ ~mode.parallel /\ mode.piped /\ Chunks > 0  \* stdinData is read first
Live(id) == session[id] \in {"ready", "running"}
Off == [on |-> FALSE, piece |-> 0]

Init ==
  /\ mode \in Modes
  /\ pc = "connect" /\ todo = mode.list /\ at = 0
  /\ connMap = {} /\ writers = <<>>
  /\ session = [id \in IDs |-> "none"]
  /\ push = [doing |-> "off", piece |-> 0, left |-> <<>>]
  /\ next = 1
  /\ copier = [id \in IDs |-> Off]
  /\ inbox = [id \in IDs |-> <<>>] /\ got = [id \in IDs |-> <<>>]
  /\ closed = [id \in IDs |-> FALSE]
  /\ signals = {} /\ received = 0
  /\ ran = [id \in IDs |-> 0] /\ unseen = [id \in IDs |-> 0]

-----------------------------------------------------------------------------
(* createConnMap: a server without a password or a connection is left out. *)
(* The connection is kept under the ID.                                    *)
createConnMap ==
  /\ pc = "connect"
  /\ IF todo = <<>>
     THEN \E order \in SetToSeqs(connMap) :  \* a map is walked in any order
            /\ pc' = "create" /\ todo' = order /\ connMap' = connMap
     ELSE /\ connMap' \in {connMap, connMap \cup {ID[Head(todo)]}}
          /\ todo' = Tail(todo) /\ pc' = pc
  /\ UNCHANGED <<mode, at, session, writers, received, ran, signals, input, got, unseen>>

(* createWriter: a session for each connection, and its standard input to  *)
(* push to.  An error is dropped; the nil session is not.                  *)
createWriter ==
  /\ pc = "create" /\ todo # <<>>
  /\ \E ok \in BOOLEAN :
       /\ session' = [session EXCEPT ![Head(todo)] = IF ok THEN "ready" ELSE "nil"]
       /\ pc' = IF ~ok /\ Pushed THEN "panic" ELSE pc
  /\ writers' = IF Pushed THEN Append(writers, Head(todo)) ELSE writers
  /\ todo' = Tail(todo)
  /\ UNCHANGED <<mode, at, connMap, received, ran, signals, input, got, unseen>>

(* cmd starts the pushing goroutine, or reads all of standard input.       *)
startInput ==
  /\ pc = "create" /\ todo = <<>>
  /\ \E order \in SetToSeqs(connMap) : todo' = order
  /\ pc' = "run"
  /\ push' = IF Pushed THEN [push EXCEPT !.doing = "read"] ELSE push
  /\ next' = IF Given THEN Chunks + 1 ELSE next
  /\ UNCHANGED <<mode, at, connMap, session, writers, received, ran, signals, copier, inbox, closed, got, unseen>>

(* runCommand, with Command: in a goroutine when pushed to or given all    *)
(* the input, else in the main one.  A session that was nil is tried once  *)
(* more.  setOption's tty, agent and X11 requests change nothing here.     *)
Started(id) ==
  /\ ran' = [ran EXCEPT ![id] = @ + 1]
  /\ session' = [session EXCEPT ![id] = "running"]
  /\ copier' = IF Pushed \/ Given THEN copier ELSE [copier EXCEPT ![id].on = TRUE]
NotStarted(id) ==
  /\ ran' = [ran EXCEPT ![id] = @ + 1]
  /\ session' = [session EXCEPT ![id] = "done"]
  /\ copier' = copier

runCommand ==
  /\ pc = "run" /\ todo # <<>>
  /\ LET id == Head(todo)
     IN /\ at' = id
        /\ todo' = Tail(todo)
        /\ IF session[id] = "nil" /\ Given
           THEN pc' = "panic" /\ UNCHANGED <<session, ran, copier, signals>>
           ELSE \/ /\ Started(id)
                   /\ pc' = IF mode.parallel THEN pc ELSE IF Given THEN "feed" ELSE "runs"
                   /\ signals' = signals
                \/ /\ session[id] = "nil"
                   /\ NotStarted(id)
                   /\ signals' = signals \cup {id}
                   /\ pc' = pc
  /\ UNCHANGED <<mode, connMap, writers, received, push, next, inbox, closed, got, unseen>>

(* The main goroutine copies stdinData to the session and closes it, or    *)
(* gives up when the session has ended.                                    *)
LeftOpen(id) == closed  \* deviation: the session's input is not closed
Close(id) == [closed EXCEPT ![id] = TRUE]

feed ==
  /\ pc = "feed"
  /\ LET sent == Len(got[at]) + Len(inbox[at])
     IN \/ /\ Live(at) /\ sent < Chunks /\ Len(inbox[at]) < Window
           /\ inbox' = [inbox EXCEPT ![at] = Append(@, sent + 1)]
           /\ UNCHANGED <<pc, closed>>
        \/ /\ sent = Chunks \/ ~Live(at)
           /\ closed' = Close(at)
           /\ pc' = "run"
           /\ inbox' = inbox
  /\ UNCHANGED <<mode, todo, at, connMap, session, writers, received, ran, signals, push, next, copier, got, unseen>>

(* All are started: wait for as many signals as there are connections,     *)
(* close exitInput, sleep 300 ms for the output.                           *)
OneLess == Cardinality(connMap) - 1  \* deviation
Awaited == Cardinality(connMap)

waitFinished ==
  /\ pc \in {"run", "wait"} /\ todo = <<>>
  /\ IF received = Awaited
     THEN pc' = "sleep" /\ UNCHANGED <<signals, received>>
     ELSE /\ \E id \in signals : signals' = signals \ {id}
          /\ received' = received + 1
          /\ pc' = "wait"
  /\ UNCHANGED <<mode, todo, at, connMap, session, writers, ran, input, got, unseen>>

exit ==
  /\ pc = "sleep"
  /\ pc' = "over"
  /\ UNCHANGED <<mode, todo, at, connMap, session, writers, received, ran, signals, input, got, unseen>>

-----------------------------------------------------------------------------
(* PushPipeWriter (a pipe) and PushInput (a terminal).  Both write a piece *)
(* to one session after the other, and wait where the window is full.      *)
PushRead ==
  /\ push.doing = "read" /\ next <= Chunks
  /\ push' = [doing |-> "write", piece |-> next, left |-> writers]
  /\ next' = next + 1
  /\ UNCHANGED <<mode, main, copier, inbox, closed, got, unseen>>

PushFirst ==  \* deviation: one session gets the piece
  /\ push.doing = "write" /\ push.left # <<>>
  /\ LET id == Head(push.left)
     IN /\ Live(id) => Len(inbox[id]) < Window
        /\ inbox' = IF Live(id) THEN [inbox EXCEPT ![id] = Append(@, push.piece)] ELSE inbox
  /\ push' = [push EXCEPT !.left = <<>>]
  /\ UNCHANGED <<mode, main, next, copier, closed, got, unseen>>
PushWrite ==
  /\ push.doing = "write" /\ push.left # <<>>
  /\ LET id == Head(push.left)
     IN /\ Live(id) => Len(inbox[id]) < Window
        /\ inbox' = IF Live(id) THEN [inbox EXCEPT ![id] = Append(@, push.piece)] ELSE inbox
  /\ push' = [push EXCEPT !.left = Tail(@)]
  /\ UNCHANGED <<mode, main, next, copier, closed, got, unseen>>

ExitInput == pc \in {"sleep", "over"}
PushWritten ==
  /\ push.doing = "write" /\ push.left = <<>>
  /\ push' = [push EXCEPT !.doing = IF ~mode.piped /\ ExitInput THEN "close" ELSE "read"]
  /\ UNCHANGED <<mode, main, next, copier, inbox, closed, got, unseen>>

(* The end of a pipe ends the loop; the end of a terminal's input does     *)
(* not: PushInput looks for exitInput every 10 ms.                         *)
PushEnd ==
  /\ push.doing = "read" /\ next > Chunks
  /\ mode.piped \/ ExitInput
  /\ push' = [push EXCEPT !.doing = "close"]
  /\ UNCHANGED <<mode, main, next, copier, inbox, closed, got, unseen>>

PushClose ==
  /\ push.doing = "close"
  /\ closed' = [id \in IDs |-> closed[id] \/ id \in ToSet(writers)]
  /\ push' = [push EXCEPT !.doing = "off"]
  /\ UNCHANGED <<mode, main, next, copier, inbox, got, unseen>>

-----------------------------------------------------------------------------
(* golang.org/x/crypto/ssh copies standard input to the session; Command   *)
(* does so itself with -t, and does not close it then.  A copier that      *)
(* waits for input outlives its session.                                   *)
CopyRead(id) ==
  /\ copier[id].on /\ copier[id].piece = 0 /\ next <= Chunks
  /\ copier' = [copier EXCEPT ![id].piece = next]
  /\ next' = next + 1
  /\ UNCHANGED <<mode, main, push, inbox, closed, got, unseen>>

CopyWrite(id) ==
  /\ copier[id].on /\ copier[id].piece # 0
  /\ IF Live(id)
     THEN /\ Len(inbox[id]) < Window
          /\ inbox' = [inbox EXCEPT ![id] = Append(@, copier[id].piece)]
          /\ copier' = [copier EXCEPT ![id].piece = 0]
     ELSE inbox' = inbox /\ copier' = [copier EXCEPT ![id] = Off]
  /\ UNCHANGED <<mode, main, push, next, closed, got, unseen>>

CopyEnd(id) ==
  /\ copier[id].on /\ copier[id].piece = 0 /\ next > Chunks
  /\ copier' = [copier EXCEPT ![id] = Off]
  /\ closed' = [closed EXCEPT ![id] = @ \/ ~(mode.term /\ ~Multi)]
  /\ UNCHANGED <<mode, main, push, next, inbox, got, unseen>>

-----------------------------------------------------------------------------
(* The remote command reads a piece and prints a line; it ends when it     *)
(* likes, or at the end of its input if it is a filter.                    *)
Read(id) ==
  /\ session[id] = "running" /\ inbox[id] # <<>>
  /\ got' = [got EXCEPT ![id] = Append(@, Head(inbox[id]))]
  /\ inbox' = [inbox EXCEPT ![id] = Tail(@)]
  /\ unseen' = [unseen EXCEPT ![id] = @ + 1]
  /\ UNCHANGED <<mode, main, push, next, copier, closed>>

(* Session.Run returns; the goroutine, or the main one, signals.           *)
Returned(id) ==
  /\ session' = [session EXCEPT ![id] = "done"]
  /\ signals' = signals \cup {id}
  /\ pc' = IF pc = "runs" /\ at = id THEN "run" ELSE pc
  /\ UNCHANGED <<mode, todo, at, connMap, writers, received, ran, input, got, unseen>>
End(id) ==
  /\ session[id] = "running"
  /\ mode.filter => closed[id] /\ inbox[id] = <<>>
  /\ Returned(id)
Lost(id) ==
  /\ session[id] = "running"
  /\ Returned(id)

(* Printer: a line, with the server's name in front of it.                 *)
Printer(id) ==
  /\ unseen[id] > 0 /\ pc # "over"
  /\ unseen' = [unseen EXCEPT ![id] = @ - 1]
  /\ UNCHANGED <<mode, main, input, got>>

MainStep == createConnMap \/ createWriter \/ startInput \/ runCommand \/ feed \/ waitFinished \/ exit
PushStep == PushRead \/ PushWrite \/ PushWritten \/ PushEnd \/ PushClose
CopyStep(id) == CopyRead(id) \/ CopyWrite(id) \/ CopyEnd(id)

Next ==
  \/ pc \notin {"over", "panic"} /\ \/ MainStep \/ PushStep
                                    \/ \E id \in IDs : CopyStep(id) \/ Read(id) \/ End(id) \/ Lost(id) \/ Printer(id)
  \/ pc \in {"over", "panic"} /\ UNCHANGED vars

(* Goroutines run; a remote command reads what it is sent and ends.        *)
Fairness ==
  /\ WF_vars(MainStep) /\ WF_vars(PushStep)
  /\ \A id \in IDs : WF_vars(CopyStep(id)) /\ WF_vars(Read(id)) /\ WF_vars(End(id))

Spec == Init /\ [][Next]_vars /\ Fairness

-----------------------------------------------------------------------------
(* Whatever the speed of the servers, each is sent standard input from the *)
(* beginning, in order and without a gap (output.go:206-262, cmd.go:148),  *)
(* and sees the end of it after all of it.  A session that is fed by a     *)
(* copier of its own gets its pieces in order, but an earlier session's    *)
(* copier may have taken some.                                             *)
InputInOrder ==
  \A id \in IDs :
    LET sent == got[id] \o inbox[id]
    IN /\ Pushed \/ Given => sent = [i \in 1..Len(sent) |-> i]
       /\ \A i, j \in DOMAIN sent : i < j => sent[i] < sent[j]
       /\ (Pushed \/ Given) /\ closed[id] /\ Live(id) => Len(sent) = Chunks

(* The command is started once on each connection, and a signal is waited  *)
(* for from each (cmd.go:52-60).                                           *)
RunOnce ==
  /\ \A id \in IDs : ran[id] <= 1 /\ (ran[id] = 1 => id \in connMap)
  /\ pc \in {"wait", "sleep", "over"} => \A id \in connMap : ran[id] = 1
  /\ pc \in {"sleep", "over"} => \A id \in connMap : session[id] = "done"

(* bssh ends: with input from a pipe, or with a command that does not wait *)
(* for the end of its input (cmd.go:57, output.go:223).  Without -t, which *)
(* leaves the input open.                                                  *)
Ends == (mode.piped /\ ~mode.term) \/ ~mode.filter ~> pc \in {"over", "panic"}
=============================================================================
