------------------------------- MODULE Capture -------------------------------
(***************************************************************************)
(* How bssh runs a command of its own inside the user's interactive shell  *)
(* and takes the answer out of the terminal's output (sshlib/interrupt.go, *)
(* executeCmd in sshlib/dl.go, ShellInitial in sshlib/shell.go).           *)
(*                                                                         *)
(* A requester types "echo open:T; cmd; echo close:T" into the session,    *)
(* hands the tag T over on the unbuffered channel notifyC and waits for    *)
(* the answer on the unbuffered channel notifyRspC.  The goroutine that    *)
(* copies the remote output to the screen (interruptWriter.Read) looks for *)
(* a waiting notification each time it has read a chunk of output; once it *)
(* has one it swallows the output until the answer is complete or 15       *)
(* seconds have gone.                                                      *)
(*                                                                         *)
(* Two goroutines make requests: "main" asks once for the host information *)
(* after the first prompt, "reader" runs what the user types after Ctrl-K  *)
(* Ctrl-K.  Their time.After starts some time after the writer has taken   *)
(* the notification, less than a tick of the clock.                        *)
(*                                                                         *)
(* The remote shell is external: it runs the lines it is sent one by one,  *)
(* in order, and may print other output at any time.  The terminal has     *)
(* ECHO on (connect.go): a line that comes while a command runs is echoed  *)
(* into the output of that command.                                        *)
(***************************************************************************)
EXTENDS Integers, Sequences, FiniteSets

CONSTANTS
  Commands,       \* commands the reader may run: subset of {"dl", "hostinfo", "up"}
  Window,         \* how long the writer keeps swallowing output (15 s)
  ShortTimeout,   \* the time out of a .dl request (3 s)
  LongTimeout,    \* the time out of a host information request (15 s)
  PromptTimeout,  \* how long main waits for the first prompt (2 s)
  MaxReq,         \* bound on the number of requests
  MaxNoise        \* bound on the output nobody asked for

ASSUME CaptureAssumption ==
  /\ Commands \subseteq {"dl", "hostinfo", "up"}
  /\ Window \in Nat \ {0}
  /\ ShortTimeout \in Nat /\ ShortTimeout < Window
  /\ LongTimeout \in Nat
  /\ PromptTimeout \in Nat \ {0}
  /\ MaxReq \in Nat
  /\ MaxNoise \in Nat

VARIABLES
  pc,         \* where each requester is
  cmd,        \* the command of each requester's request
  tag,        \* the tag of each requester's request, 0 before the first
  timer,      \* what is left of the time.After of each requester's select
  result,     \* what each requester's last request returned
  lines,      \* the commands that were typed; the n-th carries tag n
  input,      \* tags of the lines the remote shell has not finished, 0 for an empty one
  shell,      \* the remote shell: "login", "prompt" or "run"
  printed,    \* tags of the commands that printed something
  noise,      \* how much other output there was
  out,        \* remote output that was not read yet
  wpc,        \* the writer: "read", or "send" when it blocks on notifyRspC
  notifyTag,  \* the tag the writer looks for, 0 for none
  window,     \* what is left of the writer's 15 seconds
  buf,        \* the output swallowed since the notification
  rsp,        \* the answer the writer hands over
  screen,     \* the pieces of answers that were displayed
  ready,      \* InitialPromptReady
  existing,   \* the host information when the session started
  saved       \* the host information on disk

remoteVars == <<input, shell, printed, noise>>
requestVars == <<cmd, tag, timer, result, lines>>
writerVars == <<wpc, notifyTag, window, buf, rsp>>
hostInfoVars == <<existing, saved>>
vars == <<pc, requestVars, remoteVars, out, writerVars, screen, ready, hostInfoVars>>

Requesters == {"main", "reader"}
Places == {"boot", "checked", "prompt", "idle", "wrote", "notify", "wait", "ran", "done"}

(***************************************************************************)
(* Pieces of remote output.  The echo of a command line holds "close:T"    *)
(* followed by the end of the line, but "open:T" followed by ";".          *)
(***************************************************************************)
Kinds == {"echo", "open", "body", "close", "prompt", "noise"}
Token == [k : Kinds, t : 0..MaxReq]
Tok(k, t) == [k |-> k, t |-> t]
Prompt == Tok("prompt", 0)
Noise == Tok("noise", 0)

(* The host information of an earlier session. *)
OldInfo == <<Tok("body", 0)>>

TokensOf(s) == {s[i] : i \in DOMAIN s}

Result == [tag : 0..MaxReq, from : 0..MaxReq, body : Seq(Token)]
NoResult == [tag |-> 0, from |-> 0, body |-> <<>>]

-----------------------------------------------------------------------------
(* The text an answer is cut out of: clearTag and the test before it. *)

HoldsClose(x, t) == x.k \in {"echo", "close"} /\ x.t = t

Contains(b, t) == \E i \in DOMAIN b : HoldsClose(b[i], t)

openPos(t, b) ==
  CHOOSE i \in DOMAIN b :
    /\ b[i] = Tok("open", t)
    /\ \A j \in 1..(i - 1) : b[j] # Tok("open", t)

(* Deviation: the closing tag is looked for from the start of the text. *)
closePosFromStart(t, b) ==
  CHOOSE j \in DOMAIN b :
    /\ HoldsClose(b[j], t)
    /\ \A i \in 1..(j - 1) : ~HoldsClose(b[i], t)

closePos(t, b) ==
  CHOOSE j \in DOMAIN b :
    /\ j > openPos(t, b)
    /\ HoldsClose(b[j], t)
    /\ \A i \in (openPos(t, b) + 1)..(j - 1) : ~HoldsClose(b[i], t)

closeFound(t, b) ==
  \E i, j \in DOMAIN b : i < j /\ b[i] = Tok("open", t) /\ HoldsClose(b[j], t)

clearTag(t, b) == SubSeq(b, openPos(t, b) + 1, closePos(t, b) - 1)

-----------------------------------------------------------------------------
Timed(c) == c # "up"

TimeoutOf(c) == IF c = "dl" THEN ShortTimeout ELSE LongTimeout

(* r is in its select (or, for .up, at its receive). *)
Listening(r) == pc[r] = "wait"

Init ==
  /\ existing \in {<<>>, OldInfo}
  /\ saved = existing
  /\ \E main \in IF existing = <<>> THEN {"boot", "done"} ELSE {"done"} :
       pc = [r \in Requesters |-> IF r = "main" THEN main ELSE "idle"]
  /\ cmd = [r \in Requesters |-> "hostinfo"]
  /\ tag = [r \in Requesters |-> 0]
  /\ timer = [r \in Requesters |-> 0]
  /\ result = [r \in Requesters |-> NoResult]
  /\ lines = <<>>
  /\ input = <<>>
  /\ shell = "login"
  /\ printed = {}
  /\ noise = 0
  /\ out = <<>>
  /\ wpc = "read"
  /\ notifyTag = 0
  /\ window = 0
  /\ buf = <<>>
  /\ rsp = <<>>
  /\ screen = {}
  /\ ready = FALSE

-----------------------------------------------------------------------------
(* The requesters. *)

(* main, after the initial commands: the first Load of Wait. *)
CheckPrompt ==
  /\ pc["main"] = "boot"
  /\ pc' = [pc EXCEPT !["main"] = IF ready THEN "idle" ELSE "checked"]
  /\ UNCHANGED <<requestVars, remoteVars, out, writerVars, screen, ready, hostInfoVars>>

(* main arrives at the select of Wait: a wake-up before this is lost. *)
AwaitPrompt ==
  /\ pc["main"] = "checked"
  /\ pc' = [pc EXCEPT !["main"] = "prompt"]
  /\ timer' = [timer EXCEPT !["main"] = PromptTimeout]
  /\ UNCHANGED <<cmd, tag, result, lines, remoteVars, out, writerVars, screen, ready, hostInfoVars>>

(* The time out of Wait: the flag is loaded again. *)
WaitedInVain == FALSE  \* deviation: the flag is not loaded again
Waited == ready

PromptTimedOut ==
  /\ pc["main"] = "prompt"
  /\ timer["main"] = 0
  /\ pc' = [pc EXCEPT !["main"] = IF Waited THEN "idle" ELSE "done"]
  /\ UNCHANGED <<requestVars, remoteVars, out, writerVars, screen, ready, hostInfoVars>>

(* The tag of a request is new. *)
LastTag(r) == IF tag[r] = 0 THEN Len(lines) + 1 ELSE tag[r]  \* deviation: it is kept
FreshTag(r) == Len(lines) + 1

(* What the terminal echoes at once: a line that comes while a command is  *)
(* running, or the login, and not the shell reads.                         *)
EchoNow(t) == IF shell = "prompt" THEN <<>> ELSE <<Tok("echo", t)>>

(* The first half of a request: the tag, and the line for the shell.  A    *)
(* .dl and a .up make one request after the other.                         *)
Ask(r, c) ==
  /\ \/ pc[r] = "idle" /\ c \in IF r = "main" THEN {"hostinfo"} ELSE Commands
     \/ pc[r] = "ran" /\ c = cmd[r] /\ c \in {"dl", "up"}
  /\ Len(lines) < MaxReq
  /\ lines' = Append(lines, c)
  /\ tag' = [tag EXCEPT ![r] = FreshTag(r)]
  /\ cmd' = [cmd EXCEPT ![r] = c]
  /\ input' = Append(input, FreshTag(r))
  /\ out' = out \o EchoNow(FreshTag(r))
  /\ pc' = [pc EXCEPT ![r] = "wrote"]
  /\ UNCHANGED <<timer, result, shell, printed, noise, writerVars, screen, ready, hostInfoVars>>

(* The requester arrives at its send on notifyC and blocks. *)
Notify(r) ==
  /\ pc[r] = "wrote"
  /\ pc' = [pc EXCEPT ![r] = "notify"]
  /\ UNCHANGED <<requestVars, remoteVars, out, writerVars, screen, ready, hostInfoVars>>

(* main waits for the end of the session after its request; the reader's   *)
(* command makes another one or ends.                                      *)
AfterRequest(r) == IF r = "main" THEN "done" ELSE "ran"

(* The end of a reader's command: an empty line, for a new prompt. *)
EndCommand ==
  /\ pc["reader"] = "ran"
  /\ pc' = [pc EXCEPT !["reader"] = "idle"]
  /\ input' = Append(input, 0)
  /\ UNCHANGED <<requestVars, shell, printed, noise, out, writerVars, screen, ready, hostInfoVars>>

(* What a requester does with the text it was given: the updater of a      *)
(* .hostinfo saves any text that differs from what was on disk when the    *)
(* session started, main saves a text that is not empty.                   *)
SaveHostInfo(r, text) ==
  saved' = IF cmd[r] = "hostinfo" /\ text # existing /\ (r = "main" => text # <<>>)
           THEN text
           ELSE saved

TimedOut(r) ==
  /\ pc[r] = "wait"
  /\ Timed(cmd[r])
  /\ timer[r] = 0
  /\ pc' = [pc EXCEPT ![r] = AfterRequest(r)]
  /\ result' = [result EXCEPT ![r] = [tag |-> tag[r], from |-> 0, body |-> <<>>]]
  /\ UNCHANGED <<cmd, tag, timer, lines, remoteVars, out, writerVars, screen, ready, hostInfoVars>>

(* The writer's state once its answer was taken. *)
KeepCapture == UNCHANGED <<buf, notifyTag, window>>  \* deviation: no reset
ResetCapture == buf' = <<>> /\ notifyTag' = 0 /\ window' = 0

(* The rendezvous on notifyRspC, and what both sides do after it. *)
Deliver(r) ==
  /\ wpc = "send"
  /\ Listening(r)
  /\ pc' = [pc EXCEPT ![r] = AfterRequest(r)]
  /\ result' = [result EXCEPT ![r] = [tag |-> tag[r], from |-> notifyTag, body |-> rsp]]
  /\ SaveHostInfo(r, rsp)
  /\ timer' = [timer EXCEPT ![r] = 0]
  /\ wpc' = "read"
  /\ rsp' = <<>>
  /\ ResetCapture
  /\ UNCHANGED <<cmd, tag, lines, existing, remoteVars, out, screen, ready>>

-----------------------------------------------------------------------------
(* interruptWriter.Read: one chunk of output. *)

Capturing == notifyTag # 0 /\ window > 0

(* InitialPromptReadyChecker.Read: the flag is set by the first chunk that  *)
(* ends in a prompt; the wake-up is lost unless main is in its select.      *)
PromptSeen(chunk) == ~ready /\ chunk[Len(chunk)] = Prompt
WakesMain(chunk) == PromptSeen(chunk) /\ pc["main"] = "prompt" /\ timer["main"] > 0
AfterPrompt(chunk) == IF WakesMain(chunk) THEN [pc EXCEPT !["main"] = "idle"] ELSE pc
TimerAfterPrompt(chunk) == IF WakesMain(chunk) THEN [timer EXCEPT !["main"] = 0] ELSE timer

(* What Read returns: the whole chunk, or none of it. *)
Displayed(chunk) ==
  screen' = screen \cup {x \in TokensOf(chunk) : x.k \in {"open", "body", "close"}}
Swallowed(chunk) == UNCHANGED screen

(* While a tag is looked for, and for 15 seconds, the chunk is swallowed. *)
Swallow(chunk) ==
  /\ Capturing
  /\ buf' = buf \o chunk
  /\ pc' = AfterPrompt(chunk)
  /\ IF Contains(buf \o chunk, notifyTag) /\ closeFound(notifyTag, buf \o chunk)
     THEN wpc' = "send" /\ rsp' = clearTag(notifyTag, buf \o chunk)
     ELSE UNCHANGED <<wpc, rsp>>
  /\ timer' = TimerAfterPrompt(chunk)
  /\ Swallowed(chunk)
  /\ UNCHANGED <<notifyTag, window>>

(* Whether Read gets as far as its select on notifyC. *)
AlwaysSelects == TRUE  \* deviation: also while an answer is looked for
Selects == ~Capturing

(* Otherwise a requester that is blocked on notifyC is let go. *)
Accept(chunk, r) ==
  /\ Selects
  /\ pc[r] = "notify"
  /\ notifyTag' = tag[r]
  /\ window' = Window
  /\ buf' = chunk
  /\ pc' = [AfterPrompt(chunk) EXCEPT ![r] = "wait"]
  /\ timer' = [TimerAfterPrompt(chunk) EXCEPT ![r] = IF Timed(cmd[r]) THEN TimeoutOf(cmd[r]) ELSE 0]
  /\ Swallowed(chunk)
  /\ UNCHANGED <<wpc, rsp>>

(* And without one the chunk is displayed. *)
Display(chunk) ==
  /\ Selects
  /\ \A r \in Requesters : pc[r] # "notify"
  /\ Displayed(chunk)
  /\ pc' = AfterPrompt(chunk)
  /\ timer' = TimerAfterPrompt(chunk)
  /\ UNCHANGED writerVars

Read(n) ==
  /\ wpc = "read"
  /\ n \in 1..Len(out)
  /\ LET chunk == SubSeq(out, 1, n)
     IN  /\ out' = SubSeq(out, n + 1, Len(out))
         /\ ready' = (ready \/ PromptSeen(chunk))
         /\ \/ Swallow(chunk)
            \/ \E r \in Requesters : Accept(chunk, r)
            \/ Display(chunk)
  /\ UNCHANGED <<cmd, tag, result, lines, remoteVars, hostInfoVars>>

-----------------------------------------------------------------------------
(* The remote shell (external) and the clock. *)

Login ==
  /\ shell = "login"
  /\ shell' = "prompt"
  /\ out' = Append(out, Prompt)
  /\ UNCHANGED <<pc, requestVars, input, printed, noise, writerVars, screen, ready, hostInfoVars>>

ShellEnter ==
  /\ shell = "prompt"
  /\ input # <<>>
  /\ Head(input) = 0
  /\ input' = Tail(input)
  /\ out' = Append(out, Prompt)
  /\ UNCHANGED <<pc, requestVars, shell, printed, noise, writerVars, screen, ready, hostInfoVars>>

(* The shell edits its lines itself and echoes each when it reads it.      *)
ShellStart ==
  /\ shell = "prompt"
  /\ input # <<>>
  /\ Head(input) # 0
  /\ shell' = "run"
  /\ out' = out \o <<Tok("echo", Head(input)), Tok("open", Head(input))>>
  /\ UNCHANGED <<pc, requestVars, input, printed, noise, writerVars, screen, ready, hostInfoVars>>

ShellFinish(prints) ==
  /\ shell = "run"
  /\ shell' = "prompt"
  /\ input' = Tail(input)
  /\ printed' = IF prints THEN printed \cup {Head(input)} ELSE printed
  /\ out' = out \o (IF prints THEN <<Tok("body", Head(input))>> ELSE <<>>)
                \o <<Tok("close", Head(input)), Prompt>>
  /\ UNCHANGED <<pc, requestVars, noise, writerVars, screen, ready, hostInfoVars>>

(* Output nobody asked for: the echo of what the user types and of an empty *)
(* line, a job's output.                                                    *)
Chatter ==
  /\ shell # "login"
  /\ noise < MaxNoise
  /\ noise' = noise + 1
  /\ out' = Append(out, Noise)
  /\ UNCHANGED <<pc, requestVars, input, shell, printed, writerVars, screen, ready, hostInfoVars>>

PastZero(n) == n - 1  \* deviation: the clock of what is over runs on
Decrement(n) == IF n > 0 THEN n - 1 ELSE 0

(* A timer at 0 runs out before the next tick: it started that much after  *)
(* the notification was taken, so that its select may outlast the window.  *)
Overdue(r) == pc[r] = "wait" /\ Timed(cmd[r]) /\ timer[r] = 0
Tick ==
  /\ window > 0 \/ \E r \in Requesters : timer[r] > 0
  /\ \A r \in Requesters : ~Overdue(r)
  /\ window' = Decrement(window)
  /\ timer' = [r \in Requesters |-> Decrement(timer[r])]
  /\ UNCHANGED <<pc, cmd, tag, result, lines, remoteVars, out, wpc, notifyTag,
                 buf, rsp, screen, ready, hostInfoVars>>

-----------------------------------------------------------------------------
RequesterNext ==
  \/ CheckPrompt
  \/ AwaitPrompt
  \/ PromptTimedOut
  \/ EndCommand
  \/ \E r \in Requesters :
       \/ \E c \in {"dl", "hostinfo", "up"} : Ask(r, c)
       \/ Notify(r)
       \/ TimedOut(r)
       \/ Deliver(r)

RemoteNext ==
  \/ Login
  \/ ShellEnter
  \/ ShellStart
  \/ \E prints \in BOOLEAN : ShellFinish(prints)
  \/ Chatter

Next ==
  \/ RequesterNext
  \/ \E n \in 1..Len(out) : Read(n)
  \/ RemoteNext
  \/ Tick

(* Goroutines that can go on do so, and time passes; the remote owes nothing. *)
Fairness ==
  /\ WF_vars(\E n \in 1..Len(out) : Read(n))
  /\ WF_vars(CheckPrompt \/ AwaitPrompt \/ PromptTimedOut)
  /\ \A r \in Requesters : WF_vars(Notify(r)) /\ WF_vars(TimedOut(r)) /\ WF_vars(Deliver(r))
  /\ WF_vars(Tick)

Spec == Init /\ [][Next]_vars
FairSpec == Spec /\ Fairness

-----------------------------------------------------------------------------
(* Every variable holds a value of its kind. *)
TypeOK ==
  /\ pc \in [Requesters -> Places]
  /\ cmd \in [Requesters -> {"dl", "hostinfo", "up"}]
  /\ tag \in [Requesters -> 0..MaxReq]
  /\ timer \in [Requesters -> Nat]
  /\ result \in [Requesters -> Result]
  /\ lines \in Seq({"dl", "hostinfo", "up"})
  /\ Len(lines) <= MaxReq
  /\ input \in Seq(0..MaxReq)
  /\ shell \in {"login", "prompt", "run"}
  /\ shell = "run" => input # <<>> /\ Head(input) # 0
  /\ printed \subseteq 1..MaxReq
  /\ noise \in 0..MaxNoise
  /\ out \in Seq(Token)
  /\ wpc \in {"read", "send"}
  /\ notifyTag \in 0..MaxReq
  /\ window \in 0..Window
  /\ buf \in Seq(Token)
  /\ rsp \in Seq(Token)
  /\ screen \subseteq Token
  /\ ready \in BOOLEAN
  /\ existing \in {<<>>, OldInfo}
  /\ saved \in Seq(Token)

(* A .dl that gets an answer gets the one to its own command, even when     *)
(* both goroutines have requests under way, requests time out and late      *)
(* answers arrive.  The others may get the answer to another request: .up   *)
(* waits without end, and a host information request, whose clock of 15 s   *)
(* started after the writer's, may wait on while the writer looks for the   *)
(* next tag (dl.go:131).                                                    *)
ResponseIsOwn ==
  \A r \in Requesters : result[r].from \notin {0, result[r].tag} => lines[result[r].tag] # "dl"

(* An answer that is handed over is all its command printed.  What else is  *)
(* in it is output nobody asked for and echoes of lines that came while the *)
(* command ran: never the echo of its own line, a tag, a prompt, or what    *)
(* another command printed, however the output was cut into chunks.         *)
AnswerIsWhole ==
  \A r \in Requesters :
    LET res == result[r]
    IN  res.from # 0 =>
          /\ (Tok("body", res.from) \in TokensOf(res.body)) = (res.from \in printed)
          /\ \A x \in TokensOf(res.body) :
               x \in {Tok("body", res.from), Noise} \/ (x.k = "echo" /\ x.t # res.from)

(* The answer a requester was given did not also appear on the screen. *)
AnswerIsHidden ==
  \A r \in Requesters :
    result[r].from # 0 =>
      \A k \in {"open", "body", "close"} : Tok(k, result[r].from) \notin screen

(* A prompt that was read while main waits for it, or is about to, is not   *)
(* missed: main goes on to its request, though the wake-up of TrySend is    *)
(* lost when main is between the first Load of Wait and its select.         *)
PromptNotMissed ==
  (ready /\ pc["main"] \in {"boot", "checked", "prompt"}) ~> (pc["main"] = "idle")

(* What is saved as host information was printed by a host information     *)
(* command, never by a .dl request that was under way at the same time.    *)
(* With both time outs of 15 s it need not be (CaptureSaved).              *)
HostInfoIsHostInfo ==
  \A x \in TokensOf(saved) :
    x.k = "body" /\ x.t # 0 => lines[x.t] = "hostinfo"

(* The writer holds an answer, and nobody receives it. *)
Frozen == wpc = "send" /\ \A r \in Requesters : ~Listening(r)

(* The request whose answer the writer looks for was given up. *)
GivenUp(r) == pc[r] # "wait" /\ result[r].tag = notifyTag /\ result[r].from = 0

(* The writer blocks for ever only with the answer to a request that timed *)
(* out before it: never with a second copy of an answer, and never because *)
(* the other requester took what was meant for this one.                   *)
FreezeNeedsTimeout == Frozen => \E r \in Requesters : GivenUp(r)

(* Remote output does not stay unread for ever unless a request has timed  *)
(* out: swallowing, handing over and waiting for notifications end.        *)
FlowsUntilTimeout ==
  (out # <<>>) ~> (out = <<>> \/ \E r \in Requesters : result[r].tag # 0 /\ result[r].from = 0)

(* Remote output never stays unread for ever: the terminal goes on.  It is *)
(* what README.md promises with "like a normal ssh command".               *)
TerminalKeepsFlowing == (out # <<>>) ~> (out = <<>>)

(* What the callers of executeCmd see is the abstract request. *)
Pending == [r \in Requesters |-> IF pc[r] \in {"wrote", "notify", "wait"} THEN tag[r] ELSE 0]
Outcome == [r \in Requesters |-> [tag |-> result[r].tag, from |-> result[r].from]]
Abstract == INSTANCE Request WITH
  Lines <- {"dl", "hostinfo", "up"}, pending <- Pending, result <- Outcome

(* Every step of the goroutines is a step of the abstract request or none. *)
ImplementsRequest == Abstract!Spec
=============================================================================
