# bssh: specifications, model checking and proofs

bssh is an ssh, scp and sftp client with a list to choose servers from, proxies, port forwarding, a parallel shell,
and commands of its own inside an interactive session. This directory holds TLA+ specifications of its core, the TLC
configurations that check them on small instances, and TLAPS proofs of what matters most for every instance.
`PROJECT.json` has the machine-readable index: components, runs, mutants, the lines each definition stands for,
findings, hazards and theorems.

## 1. Inventory

| Component | State it keeps | Operations | Talks to | What is hard | What makes it correct |
|---|---|---|---|---|---|
| **Requests inside the interactive shell** (`sshlib/interrupt.go`, `dl.go`, `up.go`, `shell.go`, `ssh/shell.go`) | the tag looked for, a 15 s window, swallowed output; `InitialPromptReady`; the host information on disk | `executeCmd`, `.dl`, `.up`, `.hostinfo`, `.ps`; `interruptWriter.Read`; `Wait` for the first prompt | remote shell by text; two unbuffered channels between three goroutines | two requesters share the channels; time outs race late answers; output arrives in arbitrary chunks; a wake-up may be lost | the answer to a `.dl` goes to the one who asked; every answer is whole and stays off the screen; the terminal never stops; the first prompt is not missed |
| **Server list** (`list/`) | keyword, filtered rows, cursor, selection, select-all flag | one per key, mouse click | terminal | long key sequences, paging arithmetic, shrinking views, an empty view | the cursor is on a row, the view matches the keyword, selections survive filtering, no panic |
| **Proxy routes, auth, connecting** (`ssh/connect.go`, `auth.go`, `run.go`, `sshlib/proxy.go`) | route, auth method map, current dialer | `getProxyRoute`, `CreateAuthMethodMap`, `createAuthMethodMapForServer`, `CreateSSHConnect` | configuration, network | two recursions over the same configuration that must agree, cycles, the order of dialling | the route is the configured chain, auth methods are there before a hop is dialled, the tunnel goes through every hop |
| **Port and X11 forwarding** (`sshlib/forward.go`) | accept loop, two copies per connection | accept, dial, copy, close | callers, services, ssh channels | directions end independently, failures in the accept loop, half close | nothing is cut off, connections are closed, callers are accepted, an end is passed on |
| **Keep-alive** (`sshlib/connect.go`) | counter of errors | `SendKeepAlive` | ssh session | waits for each reply without a time out | a dead session is closed after `max` failures in a row |
| **Parallel shell** (`ssh/pshell*.go`) | connections, history, running pipelines | `Executor`, `parseExecutor`, `run`, `executeRemotePipeLine`, `executeLocalPipeLine`, built-ins | ssh sessions, local processes, pipes | pipelines of goroutines that signal each other, interrupts | every pipeline ends, output goes down the pipe in order |
| **Command mode and output** (`ssh/cmd.go`, `sshlib/cmd.go`, `output/`) | sessions, pipes, exit flags | run on one or many servers, `Printer`, `PushPipeWriter` | ssh sessions, stdin | one slow server blocks the others' input | every server gets all the input, output lines carry their server's name |
| **scp** (`scp/main.go`) | clients, shared source readers | push, pull, remote to remote | sftp clients | several targets read one source | every target gets every file |
| **sftp shell** (`sftp/`) | one working directory per client | `cd`, `get`, `put`, `rm`, `ls`, ... | sftp clients | one command on several clients that partly fails | directories stay consistent, removal is complete |
| **Configuration** (`conf/`, `check/`) | servers, proxies, temporary hosts, files on disk | `ReadConf`, includes, templates, groups, `WriteTempHosts` | files | precedence, rewriting in place | an explicit value wins over an inherited one, the file survives |
| **Known hosts** (`sshlib/knownhosts.go`) | known_hosts file | verify, ask, write | user | answers to the question, changed keys | a changed key is never accepted silently |
| **Terminal log** (`sshlib/log.go`) | logging flag | `ToggleLogging`, `SetLog` | shell | toggled by other goroutines | bssh's own commands are not logged |
| **Command line** (`app/`, `cmd/`, `common/`) | none | flags, `ParseForwardPort`, `ParseArgs` | all of the above | parsing | accepted forms mean what the help says |
| **Agent, keys, web tools** (`sshlib/auth.go`, `agent.go`, `internal/`) | none of their own | library calls, files, sockets | | | |

The hazards in `PROJECT.json` list, line by line, where this can go wrong, and which property would show it.

## 2. Modules

| Module | Models | Proofs |
|---|---|---|
| `Request` | what callers of `executeCmd` may rely on: one request per requester at a time; it returns nothing, or an answer nobody was given before, which for a `.dl` is its own | |
| `Capture` | requesters, writer, prompt checker, host information, remote shell, clock; implements `Request` | `CaptureProofs` |
| `Order` | a set of rows or commands in ascending order, as a loop over a slice visits them | |
| `ListView` (`MCListView` for TLC) | every key of the list, the mouse, filtering, drawing | `ListProofs` |
| `ProxyRoute` | route, auth methods, dialling | `ProxyProofs` |
| `Forward` | local, remote and X11 forwards | `ForwardProofs` |
| `Conf` | configuration files as operators: sections, inheritance, templates, looking hosts up, encrypting in place | |
| `CmdLine` | the command line as operators: sub-command, `ParseArgs`, flags | |
| `Login` (`MCLogin`), over `Conf` and `CmdLine` | bssh from its command line to the first session, in several processes that share their files | `LoginProofs` |
| `CmdMode` (`MCCmdMode`) | one command on the selected servers, and standard input for all of them | `CmdModeProofs` |
| `PShell` (`MCPShell`) | the parallel shell | `PShellProofs` |
| `FileTree` | the files of a machine as an sftp server or the operating system keeps them (external) | |
| `Files` (`MCFiles`), over `FileTree` | `bssh scp` and the shell of `bssh ftp` | `FilesProofs` |

An operator marked *deviation* in a module is a plausible mistake in that place of the code. The specifications do not
use it; replacing the definition after it by it must violate the property it is listed with under `mutants`.

### Capture

`Ask` and `Notify` are the two halves of `executeCmd` before its `select` (typing the line, then blocking on
`notifyC`). `Deliver` is the rendezvous on `notifyRspC`, with what both sides do right after it; `TimedOut` the other
branch of the `select`. `Read(n)` is one call of `interruptWriter.Read` with a chunk of `n` tokens: it swallows the
chunk while a tag is looked for (`Swallow`), takes a waiting notification (`Accept`) or displays the chunk
(`Display`). `CheckPrompt`, `AwaitPrompt`, `PromptTimedOut` and the part of `Read` about `ready` are
`InitialPromptReadyChecker`. `Login`, `ShellEnter`, `ShellStart`, `ShellFinish` and `Chatter` are the remote shell,
which is external: it runs lines in order and prints what it likes in between.

- *Text.* Output is a sequence of tokens (echo of a command line, opening tag, answer, closing tag, prompt, other
  output), each with the tag of its command. Chunks end between tokens. A tag split between two chunks does not
  matter to the code, which searches the whole swallowed buffer; the case it would matter in, an opening tag cut in
  half by the chunk before the notification, is one in which the answer is missed, as it is for a whole one.
- *The echo.* It holds `close:T` in full but not the opening tag as `clearTag` looks for it, so the test on line 93
  holds on the echo while `clearTag` finds nothing. `HoldsClose` and `closeFound` keep that difference.
- *Who echoes.* The pty is requested with `ECHO` on (unless `SSH_ECHO` says otherwise), so a line that comes while a
  command or the login runs is echoed at once (`EchoNow`, in `Ask`), into that command's answer. At its prompt the shell
  edits its lines itself and echoes a line when it reads it (`ShellStart`), the one that was echoed before once more. A
  shell that does not edit lines would echo each once; an answer then holds no more than here.
- *Time.* A clock decrements the window and the timers of `time.After`; 15 s, 15 s and 3 s become 2, 2 and 1, and in
  `CaptureAnswers` 1, 1 and 0, which is less than a tick. `time.After` is called after the writer has gone on from the
  rendezvous, less than a tick later: a `select` whose timer is at 0 may last a while, but not into the next tick
  (`Overdue`, in `Tick`). So a host information request may still wait when the writer's window has closed, and the
  writer may by then look for the tag of the other goroutine; a `.dl` never waits that long.
- *Frozen* is final: nobody receives from `notifyRspC` outside the `select`s, and a request that comes later needs the
  blocked writer to take its notification.

### ListView

One action per branch of `keyEvent`, each with the `draw` that follows it. `view` is the set of rows in `ViewText`
after the header; `len` and `ViewText` give it the code's indices. A panic is the status `crashed`, and the guards are
the code's, so the properties see the ones that are missing. The terminal is not resized, and names hold no blank;
both are hazards or rules of the configuration. A click on one of the two head lines puts the cursor at -1 or -2: Tab
and Enter then take the header's first word or panic with rows on display, and `draw` panics at -2 when a page has one
or two rows. `headed` is a history variable for this, true from such a click until the cursor is back on a row: the two
properties say that nothing else puts the cursor above the first row or, while a row matches, panics. `allToggle` gives the result of its loop in one expression.

### ProxyRoute

`Init` ranges over every configuration. `RouteHop`/`RouteDone` are turns of `proxyLoop`; `AuthStart`, `AuthRecurse`,
`AuthRegister` and `FindServerFails` the recursion of `createAuthMethodMapForServer` with its call stack made explicit;
`DialProxy`, `DialServer` and `DialTarget` the loop in `CreateSSHConnect`. `AuthDone` is also `proxyByEnv`. The type
`http` stands for http, https, socks and socks5. A name that is not configured reads as Go's zero value. The code
computes the route twice, once for the servers and once to dial; it is a function of the configuration, so the model
keeps one. The phases `fatal` (the program ends in `findServer`), `overflow` (a stack that never stops growing) and
`failed` end a behaviour.

### Forward

`Accept`, `AcceptFails` and `Dial` are the accept loop, in the order of each kind (a remote forward dials before it
accepts); `X11Connect` the first lines of `x11forwarder`; `Copy`, `CopyFails`, `CopyEnds` each direction's `io.Copy`
with what follows it, `Close` the end of `forwarder` and `x11forwarder`. `Arrive`, `Send` and `End` are callers and
services, which may half close or go away at any moment.

### Conf, CmdLine and Login

A text of the configuration is a word, written out or encrypted; a server's name is a tuple, so that a template's first
host and a server somebody has given that very name can meet. `ReadConf` is what the function of that name returns,
with `parseConfigServers`, templates, includes and `ServerConfigDeduct`, which hands down strings and no numbers.
`EnsureSearchHost` and `Match` are the search for a host by name, pattern and part. `SubCommand` and `AppArgs` are the
choice of a program in `main`, which takes the word `ssh`, `scp` or `ftp` out of the arguments; values written in one
argument with their option are left out. `ParseArgs` keeps the flag that the code never clears.

Both rewrites of the file work on its text. `updatePromptPwd` replaces the line of a host wherever it stands: each
template has its `line` and the lines it `holds`, its own and those that are part of it. `autoEncryptPwd` replaces a
password wherever it stands between delimiters. A text that is a password is encrypted; one with such a part (`Parts`) is
`Spoilt`. What stands outside the modelled texts is `elsewhere`: a hit there may change nothing the model keeps, give a
server another name, or make the file one that cannot be read (a number, the path of an include, on which
`readIncludeFiles` panics, the passphrase). Such a file is not followed any further, as one that two processes spoilt.
The main file's own list of `hosts` lines is not modelled.

A process of `Login` goes through `Launch`, `Load` (or `CreateConf`, `Broken`), `Expand` or `Choose`, `Collect`, `Ask`,
`Encrypt`, `Truncate`, `Write`, `Dial`, `WriteTempHosts` and `HandOver`, in the order of `lsshAction`, `Run.Start` and
`CreateSSHConnect`. `os.WriteFile` is the two steps `Truncate` and `Write`; `Killed` may happen between any two steps.
A file that is read while it is truncated is empty, which is how `toml.DecodeFile` takes it; two processes that write
at the same time leave a mixed one. `cut` remembers that a process was killed while the file was truncated, or that two
wrote at a time: both lose the configuration, and so may a password that stands `elsewhere`; `ConfigSurvives` says that
nothing else does.

### CmdMode

`createConnMap`, `createWriter`, `startInput`, `runCommand`, `feed`, `waitFinished` and `exit` are the main goroutine of
`Run.cmd`; `PushRead`, `PushWrite`, `PushWritten`, `PushEnd` and `PushClose` the goroutine of `PushPipeWriter` or
`PushInput`; `CopyRead`, `CopyWrite` and `CopyEnd` the ssh library's copy of standard input for a session that was given
it; `Read`, `End` and `Lost` the remote command and its connection. Connections are kept under the server's ID, so two
hosts of a template are one. A session takes `Window` pieces of input before the remote side reads.

### PShell

A command is of a kind (prints, filters, reads one line, built-in) with the operator behind it. `joinPipeLine` is the
code's; `Executor`, `wait`, `NextStatement` and `Return` are the main goroutine, `Say`, `Read`, `ReadEnd`, `Work`,
`Signal`, `Enter` and `Close` a command's goroutines in the order of `executeRemotePipeLine` and `executeLocalPipeLine`,
`BuiltInRun` those of `run`. A write to an `io.Pipe` is over when it is read. `Interrupt` and `Kill` are the two
unbuffered channels Ctrl-C goes through. Servers that could not be connected to are not in `Servers` (the code would
panic on them). A remote command at the terminal writes to a session whose writers are closed: `io.Copy` ends at the
first write, nobody reads the channel after it, and the command blocks when the ssh window (2 MB) is full. `taken` counts
what such a session has taken, `Window` is what it takes at most, and only Ctrl-C, which closes the session, ends a
command that is stuck there. What is *read* by a stuck filter is not limited: the window of its input is never full.
A statement draws from `Outputs` how much is printed by each server and by this machine. `lost` remembers that a line printed by a remote command reached neither the terminal nor the history.

### FileTree and Files

`lscpAction`, `lsftpAction` and `Executor` are what a user starts or types; `createConnect` and `Connected` the
connecting goroutines; `rmdir`, `getAction` and `ViaStep` the loops over clients or paths; the others are the goroutine
of one server for one command (`Start`, `Copy`, `Chunk`, `CopyEnd`, `CopyFails`, `doRM`, `Request`, `Finish`) and the
channel `exit`. A copy is a walk taken when the goroutine starts, then one chunk at a time.

- *Progress bars.* A bar completes when it has counted up to the size it was given (`BarSays` is "done"), or at the end of
  the file ("end"). That size is what `Lstat` or the walk said: for a link the link's own, which is less than a chunk, so
  its bar says done after the first one (`Total`). A read or a write that fails leaves the bar as it is. `put` and `get`
  wait for all bars, and then for ever (`Hangs`); `scp` waits for none.
- A chunk is written whole or not at all.
- A link to a directory opens like a file: the target is created or truncated, and the first read fails.

- The login directory is the root of the modelled tree, and a link leads to what is no link. Names need no escaping.
- A lost connection stays lost; it stands for any request that fails. A silent peer would hang the program.
- A copy between servers has targets other than its source. A source that is also a target would truncate its file.
- An open file's data is a snapshot. That matters only for the goroutines `get` leaves behind when a directory cannot
  be made; `DoneIsWhole` and `InStep` claim nothing about those.
- `alike` remembers that the servers' trees were equal at first, `shown` what a server answered to `ls`, `pwd` or `df`.

## 3. Runs

| Run | Bounds | Shows |
|---|---|---|
| `CaptureOwn` | 2 requests, `.dl` and the host information, late answers, selects that outlast the window | `ResponseIsOwn` of a `.dl`, `FreezeNeedsTimeout`, `ImplementsRequest` hold; `PromptNotMissed` although `TrySend` may drop the wake-up; `FlowsUntilTimeout`: the terminal goes on at least until a request times out |
| `CaptureAnswers` | 2 requests, `.up` and the host information, 2 pieces of other output, lines echoed while a command runs, every chunking | `TypeOK`, `AnswerIsWhole`, `AnswerIsHidden` hold |
| `ListKeys` | 4 rows, pages of 2, keywords up to 3 runes, clicks on both head lines and on rows of both pages, single and multiple selection | view, cursor, panics and selection as stated |
| `ProxyRoutes` | 3 servers, a proxy with the name of one of them, an unknown name, all configurations | route, auth, tunnel; `RouteEnds` without cycles |
| `Forwards` | local and X11, 2 callers, 1 unit of data each way | `NothingLost`, `EndedIsClosed`, `X11EndPassedOn`, `X11CallersAccepted` hold |
| `Login` | 2 processes; a file with `common`, a server with a text a password is part of, three templates of which one is contained in another, and an include; one with a server named like its password; none; a spoilt one; with and without saved addresses | `ConfigSurvives`, `PasswordUsed`, `NotSavedAgain`, `CommandKept` hold |
| `LoginTemplate` | 1 process, the same files | **violated**: no password for the hosts of a template |
| `Commands` | 1 or 2 servers, also with one ID, 2 pieces of input, a window of 1; `-p`, `-t`, pipe or terminal, commands that read and that do not | `InputInOrder`, `RunOnce`, `Ends` hold |
| `PShell` | 11 lines of up to 3 commands, 2 servers, each with 1 or 2 lines of output, a window of 1, Ctrl-C twice | `PipeWhole`, `StatementsInOrder`, `LineEnds`, `InterruptWorks` hold |
| `PShellOutput` | the same lines, no Ctrl-C | **violated**: what remote commands print is lost |
| `Files` | 2 servers, alike or different, 8 calls of scp, 25 lines of the shell, two of them in a row, 1 connection lost | `DoneIsWhole`, `Together`, `InStep`, `CommandEnds` hold |
| `FilesVia` | 3 servers, one copied from | **violated**: each of two targets gets a part of a file |

Six more configurations can be run by hand; each is violated too: `CaptureFreeze` (`TerminalKeepsFlowing`),
`CaptureSaved` (`HostInfoIsHostInfo`), `ListHeader` (`ChosenAreRows`, of `MCListView`), `ProxyHttp` (`DocumentedProxiesFound`), `ForwardEnd` (`EndPassedOn`) and
`ForwardStop` (`CallersAccepted`).

*Bounds.* Two requests are enough for both goroutines to have one under way, or for one to follow one that timed out,
which is where answers get mixed up: a `.up`, which has no time out, may take what the host information stopped waiting
for; the theorems remove the bound for all three properties of an answer. Four rows with pages of two give a
full second page, a half one under a keyword, an empty view, and a first and last page that differ. Three servers give
a route of two proxies, cycles with and without the target, and hops whose types differ; `MaxRoute` (5) is longer than
any route without a repetition. Two callers let a second one arrive after the first's dial failed; with one unit of
data per direction a copy can be ahead of, level with or behind the end of the stream. A remote forward copies and
closes as a local one does; it is in `ForwardEnd`, and in the theorems, which are for all kinds.
Two processes are enough for one to read what the other has truncated, for both to write, and for one to find an address
the other has just saved. Two servers with two pieces of input and a window of one make a slow one block the other.
Pipelines of three have a command that both reads and writes a pipe; two lines of output make a writer wait for the
reader of its first. In `Files`, two lines after the start let a command follow `cd`, `lcd` or one that failed; files
of one to three chunks are shorter and longer than the ones they replace; the second set of trees has a link where the
other server has a directory, and a local file where `get` needs a directory.

*Deadlock* is not checked: each of these systems may stop (the session is idle, the list returns, the connection
stands or failed, the callers have gone).

*Fairness.* A goroutine that can move does (Go's scheduler is fair to runnable goroutines), and time passes. In
`Capture` it is weak fairness of the writer's read, of each requester's own steps and of the clock; in `Forward` of the
accept loop, of connecting to the display, of each copy and of the final close; in `ProxyRoute`, a sequential program,
of `Next`. In `PShell` and `Files` it is weak fairness of all steps of the program together: a line or a command has
finitely many of them, so as long as one is possible one is taken, and in `PShell` the user presses Enter when asked to.
In `CmdMode` it is weak fairness of each goroutine, and of a remote command that reads its input. `Login` has none. Users, remote shells, callers and services owe nothing: no fairness for `Ask`, `ShellFinish`, `Login`,
`Arrive`, `Send` or `End` of a forward, nor for typing a line, Ctrl-C, Ctrl-D, or the loss of a connection.

## 4. What the violated runs show

1. `LoginTemplate`: the hosts of a template keep the template's ID. Their passwords are registered under their names and
   looked up by ID, so the user is asked for a password that is in the file.
2. `PShellOutput`: `executeRemotePipeLine` closes the writers to the terminal and to the history before the command runs.
3. `FilesVia`: `viaPushPath` opens a source file once, and the goroutines of all targets read from it.

And the ones run by hand:

4. `CaptureFreeze`: a `.dl` request waits 3 s, the writer looks for its answer for 15 s; an answer in between is sent
   on an unbuffered channel nobody receives from, and the terminal shows nothing any more.
5. `CaptureSaved`: main's 15 s begin later than the writer's; the writer, whose window has closed, takes the tag of a
   `.dl`, main receives its answer and saves it as the host information.
6. `ListHeader`: with no matching row Tab selects the header's first word; after another selection it is returned.
7. `ProxyHttp`: `createAuthMethodMapForServer` looks up every proxy among the servers, so the http and socks5 proxies
   of the documentation end the program.
8. `ForwardEnd`: `forwarder` does not half close as `x11forwarder` and `ssh -L` do.
9. `ForwardStop`: a refused connection ends the accept loop while the port stays open.

What the properties leave out on purpose, because the code does not ensure it: whose answer a `.up` and a host
information request are given (`ResponseIsOwn`, `AnswerIsWhole`), echoes of other lines in an answer (`AnswerIsWhole`); a file cut by a kill or by two writers, or with
a password outside of the texts (`ConfigSurvives`); a command after an option with a value (`CommandKept`); input an earlier session's copier has taken,
and `-t`, which leaves the input open (`InputInOrder`, `Ends`); lines with `clear`, a wrong `%out`, a built-in or `!head`
behind a pipe, which hang, and a remote command stuck on a full ssh window (`LineEnds`); Ctrl-C on a pipeline, which may
hang, or panic, as it may on a single command that ends by itself at that moment (`InterruptWorks`); goroutines
that `get` leaves behind, and several targets of a copy between servers (`DoneIsWhole`, `InStep`); a link whose bar says
done before its end (`DoneIsWhole`); `put` and `get` after a copy that failed amid a file, which hang (`CommandEnds`); files that are copied
to one place (`DoneIsWhole`); servers that differ, on which a loop stops at the first failure (`InStep`).

## 5. Proofs

| Theorem | For every | Rests on |
|---|---|---|
| `CaptureProofs!TypeCorrect` | time out, bound, set of commands | lemmas on `clearTag`: the positions it takes exist |
| `CaptureProofs!AnswersAreOwn` | the same | `OwnInv`: while a `.dl` waits the writer looks for its tag, and its window is open longer than the `.dl` waits, so that no other tag is accepted; or main was given the answer, and then main is done and nobody else makes requests (`Owned`). The tags are all different, and each stands for its request's line (`TagInv`) |
| `CaptureProofs!RequestsImplemented` | the same | `OwnInv`; nobody was given what the writer looks for, or what was not handed over to it (`OnceInv`); each step is a step of `Request` or a stutter |
| `CaptureProofs!FreezesOnlyAfterTimeout` | time out, bound, set of commands | `FreezeInv`: the tag the writer looks for is that of a request somebody waits for, or of one that was given up and that nothing has followed |
| `CaptureProofs!AnswersAreWhole`, `AnswersAreHidden` | time out, bound, set of commands, chunking | `AnswerInv`: in what the writer holds plus what is unread, what a command prints comes after its echo and before all of the later ones, echoes too; a closing tag comes after its opening tag with the answer between, and a prompt after all of it (`TextInv`); no token is both on the screen and ahead (`ScreenInv`); an answer that was handed over is gone from both and whole (`ResultInv`) |
| `ListProofs!TypeCorrect` | rows, texts, page height, clicks, keywords | itself |
| `ListProofs!FilterCorrect` | rows, texts, keywords | part of `CursorInv`: a blank changes no word |
| `ListProofs!CursorStaysOnRows` | rows, page height, clicks | `CursorInv`, which places a cursor above the first row only after a click on a head line; page arithmetic; a longer keyword matches no more rows, so a deletion cannot shrink the view |
| `ListProofs!CrashesOnlyForCause` | the same | `CursorInv`; `DrawSafe` |
| `ListProofs!NoneSelectedTwice`, `HiddenRowsStay`, `SingleChoice` | rows, texts, page height, clicks, keywords | `SelectionKept`, what a key does to the selection: a name that is appended was not in it, and only displayed rows come and go |
| `ProxyProofs!TypeCorrect`, `RouteCorrect` | configuration | `ChainInv`: what was built so far is a chain that ends in `con` |
| `ProxyProofs!NoHopRepeated` | configuration, cyclic ones too | `ChainInv`: the proxies of two equal hops are equal, back to the first hop, which has none |
| `ProxyProofs!TunnelCorrect` | configuration | `PathInv`: the dialer goes through the hops dialled; a command is always first |
| `ProxyProofs!AuthCorrect` | configuration | `AuthInv`: every ssh hop is registered, on the stack or still to do |
| `ProxyProofs!SshRoutesFound` | configuration | `FoundInv`: only server names are met |
| `ForwardProofs!TypeCorrect`, `NoDataLost` | callers, amount of data, kinds | `CopyInv`: a copy that is done has written all unless its reader is gone, and an end is told only by a copy that is done |
| `LoginProofs!PasswordOffered` | processes, file, `.hosts`, command line, answer | `LoginInv`: between the steps of `Run.Start` each process keeps its server, the password among its methods (`MethodInv`) and the configuration it dials with (`ConfigInv`) |
| `LoginProofs!SavedOnce` | the same | `LoginInv`: an address that is about to be saved is none of the servers that were read |
| `LoginProofs!ConfigKept` | the same | `FileInv`: as long as no process was killed in `os.WriteFile` no two wrote at a time and no password stands elsewhere, the file, and what each process is going to write, says what the first one said up to encryption and answers (`Similar`) |
| `LoginProofs!CommandsKept` | command line | an induction along the arguments, for `ParseArgs` and for the flag package: options without a value stay that, and from the first word on nothing changes; the program's name is taken out where it is the first argument, and nothing elsewhere (`AppArgsMeant`) |
| `CmdModeProofs!RunsOnce` | list of servers, IDs that coincide | `RunInv`: each session has run its command as often as it has begun, and the signals received and waiting are those of the sessions that have ended |
| `CmdModeProofs!InputCorrect` | the same, amount of input, window | `InputInv`: what each writer has been given is what was read, without a gap but for the piece that is being written (`PushInv`, `SentInv`) |
| `PShellProofs!StatementsOrdered` | line, number of servers | `PShellInv`: as many signals are received as commands have sent theirs, so the last one is received when all have |
| `PShellProofs!PipesWhole` | the same | `PShellInv`: what was written to a pipe and not read is the one write that is pending (`FedInv`), and a command closes its pipe when none is (`CloseInv`) and its workers have done all their work (`LeftInv`) |
| `FilesProofs!AllTogether` | trees, lines, order of the clients | `TogetherInv`: no server joins after the first line |
| `FilesProofs!SourcesAreKept` | trees, calls of `bssh scp` | `ScpInv`: the goroutines are those of one command, and the server copied from is none of those copied to |
| `FilesProofs!DoneFilesAreWhole` | servers, trees, chunks, calls, lines, connections lost | `WholeInv`: what is still to be copied is below its source and goes below that source's place (`ItemsInv`); what the walk said of a file is what it holds (`SeenInv`), so that a bar that has counted it has counted all of it; an open file is at the target as far as it was read (`OpenInv`); a file that is done is there, and is not copied again (`BarsInv`). A step of a copy makes a tree only grow, and changes the data of one file (`Grown`), which is no other goroutine's (`Places`) |
| `FilesProofs!ServersStayAlike` | servers, trees, calls, lines, order of the goroutines | `EvenInv`: the clients' goroutines are all on one track, some ahead of others (`OnTrack`). What a goroutine does next (`Moves`) follows from its own state, its server's tree, the clients' one directory and the local tree (`WorkerMoves`), and there is one such step at most (`OneMove`), because the order in which a walk visits paths is total (`PathOrder`); the loop of `rmdir` can do on the clients that are left what it did on the others (`Rmdired`) |

The assumptions on constants are `CaptureAssumption`, `ListAssumption`, `RouteAssumption`, `ForwardAssumption`,
`LoginAssumption`, `BoundsAssumption` (of `CmdMode`), `PShellAssumption`, `NamesAssumption` and `FilesAssumption`. They say what kind of
value a constant is, and: the time out of a `.dl` is shorter than the window (3 s and 15 s); the blank is not a
letter; nobody types an empty password; no part of an empty text is a password; no included file has a server named like the hash of an address; an empty line
is not run; this machine is none of the servers; `get`, `put`, `rename` and `symlink` name one source; `Names` lists, in
alphabetical order, the names that occur in a path.

Three of the theorems state properties that no run has: `SingleChoice` (a list for one server returns at most one),
`SourcesAreKept` and `NoHopRepeated`.

*What the proofs showed.* `ConfigSurvives` had to count the passwords of the included file and of the saved addresses
among those a process may encrypt: with the first file's alone it is not inductive. `CommandKept` took `-lH db` for
options without a value, since it looked at `-lH` and not at `-H`, which `ParseArgs` makes of it; it now looks at the
letters, and only at the options before the command. `DoneIsWhole` is not true of every tree: with a local link from
`t/s1` to `t/s2` the files of two servers meet, and the last one written is there. It now says when no two meet
(`Apart`: the sources go to different places, none in another, and no link below such a place leads elsewhere), and then
claims each file, from the moment its bar says done. `InStep` did not except two cases in which servers become
different, which the instance does not reach: goroutines that a failed `get` has left behind change the local files
while these are put on one server and then on the next; and of several targets of a copy between servers each gets its
own part of a file, as `FilesVia` shows.

*Only model-checked.* Liveness (`FlowsUntilTimeout`, `PromptNotMissed`, `RouteEnds`, `EndedIsClosed`, `X11EndPassedOn`,
`X11CallersAccepted`, `Ends`, `LineEnds`, `InterruptWorks`, `CommandEnds`), which is out of the prover's reach. Every
other property of a passing run is a theorem.

## 6. Plan

Components that are modelled in part can be modelled further: the rest of the sftp shell's and the configuration's
commands, and the requests that a shell makes at its start.

## 7. Not modelled

Agents, key files, PKCS#11, the web explorer, `tmpjson` and `stash` call libraries, files and sockets and keep no state
of their own. Colours, columns, progress bars and messages are layout. Dynamic forwarding is a SOCKS library's. Reading
the X authority file and `ParseForwardPort` are parsing without state. Keep-alive is a counter in a loop that waits for
each reply without end. The known hosts code is
unreachable: nothing sets `CheckKnownHosts`. The terminal log is a flag around a file.
`.dl` and `.up` decode and write what `Capture` delivers. The sftp shell's completion, `lls`, `lpwd` and `help` change
nothing; groups of servers order the list; redirections of the parallel shell are words of the command.
