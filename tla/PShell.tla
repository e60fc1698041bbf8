------------------------------- MODULE PShell -------------------------------
(***************************************************************************)
(* The parallel shell (ssh/pshell.go, pshell_parse.go, pshell_executor.go, *)
(* pshell_cmd.go): a line of statements, each a pipeline of remote, local  *)
(* and built-in commands that run at the same time, are joined by io.Pipe, *)
(* tell the executor that they are done over ch, and are interrupted over  *)
(* kill.                                                                   *)
(*                                                                         *)
(* A command is [kind, op]; op is the operator after it.  The kinds:       *)
(*   remote, local    prints some lines, at each server its own, and ends  *)
(*   rfilter, lfilter prints what it reads, to the end of its input        *)
(*   head             local, reads one line and ends                       *)
(*   show             %history, %outlist, %out: prints some lines          *)
(*   silent           clear, %out with no number, %history with no file    *)
(*   exit             exit, quit                                           *)
(***************************************************************************)
EXTENDS Integers, Sequences, FiniteSets, Order

CONSTANTS
  Servers,   \* servers that are connected
  Inputs,    \* lines the user may type: sequences of statements
  Outputs,   \* numbers of lines a command may print
  Window,    \* lines a session with closed writers takes from its command:
             \* the first it copies, and what the ssh window holds (2 MB)
  MaxLines,  \* bound on lines typed
  MaxSignals \* bound on Ctrl-C

Kinds == {"remote", "local", "rfilter", "lfilter", "head", "show", "silent", "exit"}
Command == [kind : Kinds, op : STRING]

ASSUME PShellAssumption ==
  /\ Servers # {} /\ IsFiniteSet(Servers)
  /\ Inputs \subseteq Seq(Seq(Command)) \ {<<>>}  \* an empty line is not run
  /\ Outputs \subseteq Nat /\ Outputs # {} /\ Window \in Nat /\ MaxLines \in Nat /\ MaxSignals \in Nat

VARIABLES
  pc,       \* prompt, run (wait(len(pline), ch)), exit, panic
  line,     \* statements of this line, joined
  k,        \* the one that runs
  st,       \* its commands: running, worked, enter, signal, close, gone
  left,     \* command -> who runs it -> lines still to print
  taken,     \* command -> who runs it -> lines printed that its session has taken
  out,      \* command -> who has not returned
  eof,      \* command -> its input has ended
  pipe,     \* command -> the pipe behind it: a write is pending, it is closed
  fed,      \* history: command -> lines written to it, lines read by it
  killed,   \* commands that were told to end
  received, \* signals taken from ch
  killer,   \* statement -> its killer goroutine: idle, or sends left
  armed,    \* statement -> commands with a goroutine waiting on kill
  lost,     \* history: a remote command printed a line that is neither shown nor kept
  typed, signals

cmds == <<st, left, taken, out, eof, pipe, fed, killed, received>>
kills == <<killer, armed>>
vars == <<pc, line, k, cmds, kills, lost, typed, signals>>

BuiltIn(c) == c.kind \in {"show", "silent", "exit"}
Local(c) == c.kind \in {"local", "lfilter", "head"}
Remote(c) == ~BuiltIn(c) /\ ~Local(c)
Filter(c) == c.kind \in {"rfilter", "lfilter"}

-----------------------------------------------------------------------------
(* joinPipeLine: remote commands in a row become one, run by the servers'  *)
(* own shells; it reads its input if its first does.                       *)
joinPipeLine(stmt) ==
  LET joined == {i \in DOMAIN stmt : i > 1 /\ Remote(stmt[i - 1]) /\ Remote(stmt[i])}
      first == InOrder(DOMAIN stmt \ joined)
      last == InOrder({i \in DOMAIN stmt : i + 1 \notin joined})
  IN [i \in DOMAIN first |-> [stmt[first[i]] EXCEPT !.op = stmt[last[i]].op]]

Current == line[k]
N == Len(Current)
Piped(i) == i \in 1..N /\ Current[i].op = "|"  \* the command writes to a pipe
FromPipe(i) == Piped(i - 1)
Workers(c) == IF Remote(c) THEN Servers ELSE {"localhost"}

(* What the commands of statement s begin with.  How much a command prints *)
(* depends on who runs it.                                                 *)
Started(s) ==
  /\ st' = [i \in DOMAIN s |-> "running"]
  /\ \E lines \in [Servers \cup {"localhost"} -> Outputs] :
       left' = [i \in DOMAIN s |-> [w \in Workers(s[i]) |->
                  IF s[i].kind \in {"remote", "local", "show"} THEN lines[w] ELSE 0]]
  /\ taken' = [i \in DOMAIN s |-> [w \in Workers(s[i]) |-> 0]]
  /\ out' = [i \in DOMAIN s |-> Workers(s[i])]
  /\ eof' = [i \in DOMAIN s |-> FALSE]
  /\ pipe' = [i \in DOMAIN s |-> [pending |-> FALSE, closed |-> FALSE]]
  /\ fed' = [i \in DOMAIN s |-> [written |-> 0, read |-> 0]]
  /\ killed' = {}
  /\ received' = 0

(* The goroutines that wait for kill, and the killer, of statement s.      *)
Arm(ks, as, s) ==
  /\ killer' = Append(ks, 0)
  /\ armed' = Append(as, {i \in DOMAIN s : ~BuiltIn(s[i])})

NoCommands == [i \in {} |-> 0]
Init ==
  /\ pc = "prompt" /\ line = <<>> /\ k = 0
  /\ st = NoCommands /\ left = NoCommands /\ taken = NoCommands /\ out = NoCommands /\ eof = NoCommands
  /\ pipe = NoCommands /\ fed = NoCommands /\ killed = {} /\ received = 0
  /\ killer = <<>> /\ armed = <<>>
  /\ lost = FALSE /\ typed = 0 /\ signals = 0

-----------------------------------------------------------------------------
(* Executor, and the first statement of parseExecutor.                     *)
Executor(in) ==
  /\ pc = "prompt" /\ typed < MaxLines
  /\ typed' = typed + 1
  /\ line' = [i \in DOMAIN in |-> joinPipeLine(in[i])]
  /\ k' = 1 /\ pc' = "run"
  /\ Started(line'[1])
  /\ Arm(<<>>, <<>>, line'[1])
  /\ UNCHANGED <<lost, signals>>

(* wait: one signal of each command.                                       *)
wait(i) ==
  /\ pc = "run" /\ st[i] = "signal"
  /\ received < N
  /\ received' = received + 1
  /\ st' = [st EXCEPT ![i] = IF Remote(Current[i]) THEN "close" ELSE "gone"]
  /\ UNCHANGED <<pc, line, k, left, taken, out, eof, pipe, fed, killed, kills, lost, typed, signals>>

NotAll == received > 0  \* deviation: the first signal is enough
AllDone == received = N

NextStatement ==
  /\ pc = "run" /\ AllDone /\ k < Len(line)
  /\ k' = k + 1
  /\ Started(line[k + 1])
  /\ Arm(killer, armed, line[k + 1])
  /\ UNCHANGED <<pc, line, lost, typed, signals>>

(* The end of parseExecutor closes every kill and killExit of the line:    *)
(* the goroutines that wait there go away, and one that still sends        *)
(* panics.                                                                 *)
Return ==
  /\ pc = "run" /\ AllDone /\ k = Len(line)
  /\ pc' = IF \E s \in DOMAIN killer : killer[s] > 0 THEN "panic" ELSE "prompt"
  /\ killer' = <<>> /\ armed' = <<>>
  /\ UNCHANGED <<line, k, cmds, lost, typed, signals>>

-----------------------------------------------------------------------------
(* A command prints.  A write to a pipe is over when it has been read.     *)
(* executeRemotePipeLine has closed the writers to the terminal and to the *)
(* history before the command starts (261, 262): the session's io.Copy     *)
(* ends at its first write, nobody reads the channel any more, and the     *)
(* command blocks when the window is full.                                 *)
CanWrite(i) == Piped(i) => ~pipe[i].pending
AtTerminal(i) == Remote(Current[i]) /\ ~Piped(i)
Full(i, w) == AtTerminal(i) /\ taken[i][w] >= Window
Say(i, w) ==
  /\ pc = "run" /\ st[i] = "running" /\ w \in out[i] /\ left[i][w] > 0
  /\ CanWrite(i) /\ ~Full(i, w)
  /\ left' = [left EXCEPT ![i][w] = @ - 1]
  /\ IF Piped(i)
     THEN /\ pipe' = [pipe EXCEPT ![i].pending = TRUE]
          /\ fed' = [fed EXCEPT ![i + 1].written = @ + 1]
          /\ UNCHANGED <<taken, lost>>
     ELSE /\ lost' = (lost \/ Remote(Current[i]))
          /\ taken' = IF AtTerminal(i) THEN [taken EXCEPT ![i][w] = @ + 1] ELSE taken
          /\ UNCHANGED <<pipe, fed>>
  /\ UNCHANGED <<pc, line, k, st, out, eof, killed, received, kills, typed, signals>>

(* A command reads from the pipe: PushPipeWriter for a remote one, for as  *)
(* long as the pipe is open; exec's copy to a local one, to the first      *)
(* write after the process has ended.  A built-in reads nothing.           *)
Echo(i, f) == IF Filter(Current[i]) THEN [w \in DOMAIN f |-> IF w \in out[i] THEN f[w] + 1 ELSE f[w]] ELSE f
Read(i) ==
  /\ pc = "run" /\ FromPipe(i) /\ pipe[i - 1].pending
  /\ \/ Remote(Current[i])
     \/ Local(Current[i]) /\ st[i] \in {"running", "worked"}
  /\ pipe' = [pipe EXCEPT ![i - 1].pending = FALSE]
  /\ fed' = [fed EXCEPT ![i].read = @ + 1]
  /\ left' = [left EXCEPT ![i] = Echo(i, @)]
  /\ eof' = [eof EXCEPT ![i] = @ \/ (Local(Current[i]) /\ st[i] = "worked")]
  /\ UNCHANGED <<pc, line, k, st, taken, out, killed, received, kills, lost, typed, signals>>

ReadEnd(i) ==
  /\ pc = "run" /\ FromPipe(i) /\ ~BuiltIn(Current[i])
  /\ pipe[i - 1].closed /\ ~eof[i]
  /\ eof' = [eof EXCEPT ![i] = TRUE]
  /\ UNCHANGED <<pc, line, k, st, left, taken, out, pipe, fed, killed, received, kills, lost, typed, signals>>

(* The user ends the terminal's input: a local command sees it, PushInput  *)
(* does not pass it on, and a remote command with a pipe behind it is not  *)
(* given any input.                                                        *)
UserEnd(i) ==
  /\ pc = "run" /\ ~FromPipe(i) /\ Local(Current[i]) /\ ~eof[i]
  /\ eof' = [eof EXCEPT ![i] = TRUE]
  /\ UNCHANGED <<pc, line, k, st, left, taken, out, pipe, fed, killed, received, kills, lost, typed, signals>>

(* A remote session returns, or a local process ends.  One that was told   *)
(* to end prints no more, but returns only when its last write was read.   *)
EndsEarly(i, w) == TRUE  \* deviation: a session counts as done while it prints
Done(i, w) ==
  \/ i \in killed
  \/ /\ left[i][w] = 0
     /\ Filter(Current[i]) => eof[i]
     /\ Current[i].kind = "head" => fed[i].read > 0 \/ eof[i]
Work(i, w) ==
  /\ pc = "run" /\ st[i] = "running" /\ w \in out[i]
  /\ ~BuiltIn(Current[i])
  /\ Done(i, w) /\ CanWrite(i)
  /\ out' = [out EXCEPT ![i] = @ \ {w}]
  /\ st' = IF out[i] = {w} THEN [st EXCEPT ![i] = "worked"] ELSE st
  /\ UNCHANGED <<pc, line, k, left, taken, eof, pipe, fed, killed, received, kills, lost, typed, signals>>

(* After its work a remote command that has the terminal for itself waits  *)
(* for Enter (exitInput <- true), and signals before it closes its pipe; a *)
(* local one waits until its input was copied, and closes first.           *)
Signal(i) ==
  /\ pc = "run" /\ st[i] = "worked"
  /\ Local(Current[i]) /\ FromPipe(i) => eof[i]
  /\ st' = [st EXCEPT ![i] = IF Remote(Current[i]) /\ ~FromPipe(i) /\ ~Piped(i) THEN "enter" ELSE "signal"]
  /\ pipe' = IF Local(Current[i]) /\ Piped(i) THEN [pipe EXCEPT ![i].closed = TRUE] ELSE pipe
  /\ UNCHANGED <<pc, line, k, left, taken, out, eof, fed, killed, received, kills, lost, typed, signals>>

Enter(i) ==
  /\ pc = "run" /\ st[i] = "enter"
  /\ st' = [st EXCEPT ![i] = "signal"]
  /\ UNCHANGED <<pc, line, k, left, taken, out, eof, pipe, fed, killed, received, kills, lost, typed, signals>>

Forget(i) ==  \* deviation: the pipe is left open
  /\ pc = "run" /\ st[i] = "close"
  /\ st' = [st EXCEPT ![i] = "gone"]
  /\ UNCHANGED <<pc, line, k, left, taken, out, eof, pipe, fed, killed, received, kills, lost, typed, signals>>
Close(i) ==
  /\ pc = "run" /\ st[i] = "close"
  /\ st' = [st EXCEPT ![i] = "gone"]
  /\ pipe' = IF Piped(i) THEN [pipe EXCEPT ![i].closed = TRUE] ELSE pipe
  /\ UNCHANGED <<pc, line, k, left, taken, out, eof, fed, killed, received, kills, lost, typed, signals>>

(* Built-in commands: buildinHistory, buildinOutlist and buildinOut close  *)
(* the pipe and signal; clear and those with an error just return.         *)
NoSignal(c) == c.kind = "silent"
BuiltInRun(i) ==
  /\ pc = "run" /\ st[i] = "running" /\ BuiltIn(Current[i])
  /\ Current[i].kind = "show" => left[i]["localhost"] = 0 /\ CanWrite(i)
  /\ pc' = IF Current[i].kind = "exit" THEN "exit" ELSE pc
  /\ st' = [st EXCEPT ![i] = IF NoSignal(Current[i]) THEN "gone" ELSE "signal"]
  /\ pipe' = IF Current[i].kind = "show" /\ Piped(i) THEN [pipe EXCEPT ![i].closed = TRUE] ELSE pipe
  /\ UNCHANGED <<line, k, left, taken, out, eof, fed, killed, received, kills, lost, typed, signals>>

-----------------------------------------------------------------------------
(* Ctrl-C: ps.Signal has no buffer, so one of the killers that wait takes  *)
(* it, of this statement or of an earlier one of the line, or nobody.      *)
Interrupt ==
  /\ pc = "run" /\ signals < MaxSignals
  /\ signals' = signals + 1
  /\ IF \E s \in DOMAIN killer : killer[s] = 0
     THEN \E s \in DOMAIN killer : /\ killer[s] = 0
                                   /\ killer' = [killer EXCEPT ![s] = Len(line[s])]
     ELSE killer' = killer
  /\ UNCHANGED <<pc, line, k, cmds, armed, lost, typed>>

OnlyRemote(s, i) == IF s = k /\ Remote(Current[i]) THEN {i} ELSE {}  \* deviation: local processes live on
Told(s, i) == IF s = k THEN {i} ELSE {}

(* kill <- true, to a goroutine that signals and closes the sessions, or   *)
(* kills the process.  A killer that has sent all is gone.                 *)
Kill(s, i) ==
  /\ pc = "run" /\ killer[s] > 0 /\ i \in armed[s]
  /\ killer' = [killer EXCEPT ![s] = IF @ = 1 THEN -1 ELSE @ - 1]
  /\ armed' = [armed EXCEPT ![s] = @ \ {i}]
  /\ killed' = killed \cup Told(s, i)
  /\ UNCHANGED <<pc, line, k, st, left, taken, out, eof, pipe, fed, received, lost, typed, signals>>

Running == pc = "run"
Step(i) == \/ wait(i) \/ Read(i) \/ ReadEnd(i) \/ Signal(i) \/ Enter(i) \/ Close(i) \/ BuiltInRun(i)
           \/ \E w \in Servers \cup {"localhost"} : Say(i, w) \/ Work(i, w)

(* Goroutines run, remote and local commands go on, and the user presses   *)
(* Enter when asked to; a line has finitely many such steps.  Nobody has   *)
(* to type, or to press Ctrl-C or Ctrl-D.                                  *)
Progress ==
  \/ NextStatement \/ Return
  \/ Running /\ \E i \in 1..N : Step(i)
  \/ Running /\ \E s \in DOMAIN killer : \E i \in armed[s] : Kill(s, i)

Next ==
  \/ \E in \in Inputs : Executor(in)
  \/ Progress
  \/ Running /\ \E i \in 1..N : UserEnd(i)
  \/ Interrupt

Spec == Init /\ [][Next]_vars /\ WF_vars(Progress)

-----------------------------------------------------------------------------
(* A statement begins when all commands of the one before it have sent     *)
(* their signal (pshell_executor.go:119).                                  *)
StatementsInOrder == [][pc = "run" /\ k' # k => \A i \in 1..N : st[i] \in {"close", "gone"}]_vars

(* A command behind a pipe sees the end of its input after all the lines   *)
(* of the command before it, unless that was interrupted                   *)
(* (pshell_cmd.go:319-323, 382-387).                                       *)
PipeWhole ==
  Running => \A i \in 1..N : FromPipe(i) /\ pipe[i - 1].closed =>
               /\ fed[i].read = fed[i].written
               /\ i - 1 \notin killed => \A w \in DOMAIN left[i - 1] : left[i - 1][w] = 0

(* Every line comes back to the prompt, or ends the shell, if each of its  *)
(* commands signals, none reads the terminal to its end, and none leaves a *)
(* pipe unread: a built-in reads none, and a local command that ends early *)
(* stops reading (pshell_executor.go:119, pshell_cmd.go:73).  Otherwise it *)
(* is interrupted, or a remote command has printed more onto the terminal  *)
(* than the window holds (pshell_cmd.go:261).                              *)
Signals(s) == \A i \in DOMAIN s : s[i].kind # "silent"
Reads(s) == \A i \in DOMAIN s : i > 1 /\ s[i - 1].op = "|" => ~BuiltIn(s[i]) /\ s[i].kind # "head"
Fed(s) == \A i \in DOMAIN s : Filter(s[i]) \/ s[i].kind = "head" => i > 1 /\ s[i - 1].op = "|"
Always(P(_)) == \A s \in DOMAIN line : P(line[s])
Interrupted == \E s \in DOMAIN killer : killer[s] # 0
Stuck == \E i \in 1..N : \E w \in out[i] : Full(i, w) /\ left[i][w] > 0
LineEnds ==
  Running /\ Always(Signals) /\ Always(Reads) /\ Always(Fed) ~> pc \in {"prompt", "exit"} \/ Interrupted \/ Stuck

(* Ctrl-C ends a line of one command that is not built-in, whether or not  *)
(* it would end by itself, and also one that is stuck                      *)
(* (pshell_executor.go:107, pshell_cmd.go:297, 371).  Only if the command  *)
(* ended by itself before it was told to may the shell panic instead: kill *)
(* is closed (pshell_executor.go:68) while the killer sends (111).  Of     *)
(* several commands, one may be left writing to a pipe that nobody reads.  *)
InterruptWorks ==
  Running /\ Len(line) = 1 /\ N = 1 /\ ~BuiltIn(Current[1]) /\ killer[1] # 0
    ~> pc = "prompt" \/ (pc = "panic" /\ killed = {})

(* pshell_complete.go offers "%out [num], show history result.": what a    *)
(* command printed on the terminal was shown and kept.                      *)
OutputShown == ~lost
=============================================================================
