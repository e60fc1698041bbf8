------------------------------- MODULE Files -------------------------------
(***************************************************************************)
(* `bssh scp' (app/scp.go, scp/main.go) and the shell of `bssh ftp'        *)
(* (sftp/*.go).  Both connect to the chosen servers at the same time, run  *)
(* one goroutine per connected server for a command and wait for as many   *)
(* messages on exit.  A copy reads a chunk, writes it, and so on to the    *)
(* end of the file.  Its progress bar says done there, or before, when it  *)
(* has counted as much as the size it was given.  put and get wait for the *)
(* bars too.  A connection may be lost at any time: requests then fail.    *)
(***************************************************************************)
EXTENDS FileTree

CONSTANTS
  Servers,   \* the servers, named by strings
  Trees,     \* the file trees the machines may begin with
  ScpLines,  \* arguments of bssh scp: [from, to, hosts]
  SftpLines, \* lines typed in the shell: [op, src, dst]
  Hidden,    \* names that begin with a dot
  MaxLines,  \* bound on commands: bssh itself and the lines typed
  MaxLosses  \* bound on connections lost

Here == "local"
Machines == Servers \cup {Here}
Workers == (1..MaxLines) \X Servers

(* This machine is none of the servers, and bssh itself is a command.      *)
ASSUME FilesAssumption ==
  /\ Servers \subseteq Range(Names) /\ Here \notin Servers
  /\ \A t \in Trees : DOMAIN t = Machines /\ \A m \in Machines : IsTree(t[m])
  /\ \A a \in ScpLines :
       /\ a.from \in Seq([remote : BOOLEAN, p : Path]) /\ a.to \in [remote : BOOLEAN, p : Path]
       /\ a.hosts \subseteq Servers
  /\ \A l \in SftpLines :
       /\ l.op \notin {"push", "pull", "via"}  \* what bssh scp does
       /\ l.src \in Seq(PathArg) /\ l.dst \in PathArg
       /\ l.op \in {"get", "put", "rename", "symlink"} => Len(l.src) = 1
  /\ MaxLines \in Nat \ {0}

VARIABLES
  fs,     \* machine -> its tree
  phase,  \* start, connect, begin, via, wait, prompt, rmdir, spawn, end
  prog,   \* scp or sftp
  n,      \* commands so far
  line,   \* command -> [op, src, dst, from, to], from and to sets of servers
  conn,   \* server -> none, up, failed, lost
  told,   \* servers whose goroutine has sent to ch
  pwd,    \* server -> client.Pwd, and the working directory of bssh
  left,   \* clients the loop of the command has still to visit
  walk,   \* items left of viaPushPath's walk
  offset, \* of the file that viaPushPath has open
  work,   \* worker -> its goroutine
  bars,   \* progress bars of this line whose copy is over: [on, from, to, kind, says]
  shown,  \* server -> what it answered to a question of this line
  alike,  \* history: the servers' trees were equal at first
  losses

session == <<phase, prog, n, line, conn, told, pwd, left, walk, alike, losses>>
vars == <<fs, session, offset, work, bars, shown>>

NoItem == [i |-> 0, from |-> <<>>, to |-> <<>>, stat |-> Directory]
Idle == [at |-> "off", todo |-> {}, item |-> NoItem, data |-> <<>>, pos |-> 0]
Started == [Idle EXCEPT !.at = "start"]
NoLine == [op |-> "none", src |-> <<>>, dst |-> Arg(TRUE, <<>>), from |-> {}, to |-> {}]

Nothing == [s \in Servers |-> {}]

Init ==
  /\ fs \in Trees
  /\ phase = "start" /\ prog = "none" /\ n = 1 /\ losses = 0
  /\ line = [i \in 1..MaxLines |-> NoLine]
  /\ conn = [s \in Servers |-> "none"] /\ told = {}
  /\ pwd = [m \in Machines |-> Arg(FALSE, <<>>)]
  /\ left = {} /\ walk = {} /\ offset = 0
  /\ work = [w \in Workers |-> Idle] /\ bars = {} /\ shown = Nothing
  /\ alike = (\A s, t \in Servers : fs[s] = fs[t])

Cmd == line[n]
Alive(m) == IF m = Here THEN TRUE ELSE conn[m] = "up"
Clients == {s \in Servers : conn[s] \in {"up", "lost"}}  \* r.Client: those that were connected
Targets == IF prog = "sftp" THEN Clients
           ELSE Clients \cap (IF Cmd.op = "pull" THEN Cmd.from ELSE Cmd.to)
Join(m, a) == IF a.abs THEN a ELSE Arg(pwd[m].abs, pwd[m].p \o a.p)

-----------------------------------------------------------------------------
(* lscpAction.  TypeError ends the program, and so does a local path that  *)
(* does not exist.  With no host given the servers are chosen in the list, *)
(* one to copy from and some others to copy to between servers.            *)
FromRemote(a) == \E i \in DOMAIN a.from : a.from[i].remote
FromLocal(a) == \E i \in DOMAIN a.from : ~a.from[i].remote
TypeError(a) ==
  \/ FromRemote(a) /\ FromLocal(a)
  \/ ~FromRemote(a) /\ ~a.to.remote
  \/ FromRemote(a) /\ a.to.remote /\ a.hosts # {}
NotFound(a) ==
  \E i \in DOMAIN a.from : ~a.from[i].remote /\ Real(fs[Here], a.from[i].p) \notin DOMAIN fs[Here]
parseFromToServer(a, chosen, source) ==
  LET hosts == IF a.hosts # {} THEN a.hosts ELSE chosen
  IN [op |-> IF ~FromRemote(a) THEN "push" ELSE IF ~a.to.remote THEN "pull" ELSE "via",
      src |-> [i \in DOMAIN a.from |-> Arg(TRUE, a.from[i].p)],
      dst |-> Arg(TRUE, a.to.p),
      from |-> IF ~FromRemote(a) THEN {} ELSE IF a.to.remote THEN {source} ELSE hosts,
      to |-> IF a.to.remote THEN hosts ELSE {}]

lscpAction(a) ==
  /\ phase = "start"
  /\ prog' = "scp"
  /\ \/ /\ TypeError(a) \/ NotFound(a)
        /\ phase' = "end" /\ line' = line
     \/ /\ ~TypeError(a) /\ ~NotFound(a)
        /\ phase' = "connect"
        /\ \E chosen \in SUBSET Servers \ {{}}, source \in Servers :
             /\ FromRemote(a) /\ a.to.remote => source \notin chosen
             /\ line' = [line EXCEPT ![1] = parseFromToServer(a, chosen, source)]
  /\ UNCHANGED <<fs, n, conn, told, pwd, left, walk, offset, work, bars, shown, alike, losses>>

lsftpAction ==
  /\ phase = "start"
  /\ prog' = "sftp" /\ phase' = "connect"
  /\ \E chosen \in SUBSET Servers \ {{}} :
       line' = [line EXCEPT ![1] = [NoLine EXCEPT !.to = chosen]]
  /\ UNCHANGED <<fs, n, conn, told, pwd, left, walk, offset, work, bars, shown, alike, losses>>

(* createScpConnects, createSftpConnect: a goroutine for each server, which *)
(* tells ch that it is done whether or not it is connected.                *)
Wanted == Cmd.from \cup Cmd.to
Silent(s) ==  \* deviation: a server that cannot be reached returns without a message
  /\ phase = "connect" /\ s \in Wanted /\ conn[s] = "none"
  /\ Cmd.op = "via" /\ s \notin Cmd.from => Cmd.from \subseteq told
  /\ \/ conn' = [conn EXCEPT ![s] = "up"] /\ told' = told \cup {s}
     \/ conn' = [conn EXCEPT ![s] = "failed"] /\ told' = told
  /\ UNCHANGED <<fs, phase, prog, n, line, pwd, left, walk, offset, work, bars, shown, alike, losses>>
createConnect(s) ==
  /\ phase = "connect" /\ s \in Wanted /\ conn[s] = "none"
  /\ Cmd.op = "via" /\ s \notin Cmd.from => Cmd.from \subseteq told
  /\ \E c \in {"up", "failed"} : conn' = [conn EXCEPT ![s] = c]
  /\ told' = told \cup {s}
  /\ UNCHANGED <<fs, phase, prog, n, line, pwd, left, walk, offset, work, bars, shown, alike, losses>>

Source == CHOOSE s \in Cmd.from : TRUE

(* The paths of a walk of the i-th source path in tree t, with their part  *)
(* below base put below dst, and the order in which they are visited.      *)
Items(i, t, paths, base, dst) ==
  {[i |-> i, from |-> p, to |-> dst \o Rel(base, p), stat |-> t[Entry(t, p)]] : p \in paths}
Earlier(x, y) == x.i < y.i \/ (x.i = y.i /\ Before(x.from, y.from))
First(x, items) == \A y \in items : ~Earlier(y, x)
Deepest(x, items) == \A y \in items : ~Earlier(x, y)

Spawn(S) == [w \in Workers |-> IF w[1] = n /\ w[2] \in S THEN Started ELSE work[w]]
Visible(base, q) == Rel(base, q) = <<>> \/ Rel(base, q)[1] \notin Hidden  \* common.IsHidden
Connected ==
  /\ phase = "connect" /\ told = Wanted
  /\ phase' = IF prog = "sftp" THEN "prompt"
              ELSE IF Targets = {} \/ (Cmd.op = "via" /\ Cmd.from \cap Clients = {}) THEN "end"
              ELSE IF Cmd.op = "via" THEN "via" ELSE "wait"
  /\ IF phase' = "wait" THEN work' = Spawn(Targets) ELSE work' = work
  /\ walk' = IF phase' # "via" THEN {}
             ELSE UNION {Items(i, fs[Source], {q \in Walk(fs[Source], Cmd.src[i].p) : Visible(Cmd.src[i].p, q)}, <<>>, <<>>)
                           : i \in DOMAIN Cmd.src}
  /\ UNCHANGED <<fs, prog, n, line, conn, told, pwd, left, offset, bars, shown, alike, losses>>

Lose(s) ==
  /\ conn[s] = "up" /\ losses < MaxLosses
  /\ conn' = [conn EXCEPT ![s] = "lost"] /\ losses' = losses + 1
  /\ UNCHANGED <<fs, phase, prog, n, line, told, pwd, left, walk, offset, work, bars, shown, alike>>

-----------------------------------------------------------------------------
(* Executor: a line typed in the sftp shell.  What the loops over r.Client *)
(* and the goroutines do is below; the rest is done here.                  *)
Alone == {"mkdir", "mkdirp", "rm", "rename", "symlink", "chmod", "chown", "chgrp", "ls", "pwd"}

(* cd: every client has to find a directory, through at most one link;     *)
(* then all get the path of the client that came last in the map's order.  *)
CdPath(s, a) ==
  LET p == Join(s, a)
      e == Entry(fs[s], p.p)
  IN IF Is(fs[s], e, "link") THEN fs[s][e].to ELSE p
CdFinds(s, a) == Alive(s) /\ Is(fs[s], Entry(fs[s], CdPath(s, a).p), "dir")
EachMoves(a) ==  \* deviation: a client that finds the directory moves, the others stay
  pwd' = [m \in Machines |-> IF m \in Clients /\ CdFinds(m, a) THEN CdPath(m, a) ELSE pwd[m]]
cd(a) ==
  IF \A s \in Clients : CdFinds(s, a)
  THEN \/ Clients = {} /\ pwd' = pwd
       \/ \E s \in Clients : pwd' = [m \in Machines |-> IF m \in Clients THEN CdPath(s, a) ELSE pwd[m]]
  ELSE pwd' = pwd
cdHome == pwd' = [m \in Machines |-> IF m \in Clients THEN Arg(FALSE, <<>>) ELSE pwd[m]]
lcd(a) ==
  LET p == Join(Here, a)
  IN pwd' = IF Is(fs[Here], Real(fs[Here], p.p), "dir") THEN [pwd EXCEPT ![Here] = p] ELSE pwd

lmkdir(l, t) ==
  LET p == Join(Here, l.dst).p
  IN IF l.op = "lmkdirp" THEN MkdirAll(t, p) ELSE Mkdir(t, p)
parseTarget(l, t) == MkdirAll(t, Join(Here, l.dst).p)

(* df: a loop over the clients, which goes on after an error.              *)
getRemoteStat(a) ==
  [s \in Servers |-> IF s \in Clients /\ Alive(s) /\ Real(fs[s], Join(s, a).p) \in DOMAIN fs[s]
                     THEN {Join(s, a).p} ELSE {}]

(* Local paths are made absolute before the goroutines begin.              *)
Typed(l) ==
  [op |-> l.op, from |-> {}, to |-> {},
   src |-> IF l.op = "put" THEN <<Join(Here, l.src[1])>> ELSE l.src,
   dst |-> IF l.op = "get" THEN Join(Here, l.dst) ELSE l.dst]

Executor(l) ==
  /\ phase = "prompt" /\ n < MaxLines
  /\ n' = n + 1
  /\ line' = [line EXCEPT ![n + 1] = Typed(l)]
  /\ bars' = {}
  /\ shown' = IF l.op = "df" THEN getRemoteStat(l.dst) ELSE Nothing
  /\ CASE l.op = "cd" -> cd(l.dst) [] l.op = "cdhome" -> cdHome [] l.op = "lcd" -> lcd(l.dst) [] OTHER -> pwd' = pwd
  /\ LET t == fs[Here]
         gets == l.op = "get" /\ CanMkdirAll(t, Join(Here, l.dst).p)
         puts == l.op = "put" /\ Entry(t, Join(Here, l.src[1]).p) \in DOMAIN t
         all == puts \/ l.op \in Alone \cup {"rmr"}
     IN /\ fs' = [fs EXCEPT ![Here] = CASE gets -> parseTarget(l, t)
                                        [] l.op \in {"lmkdir", "lmkdirp"} -> lmkdir(l, t)
                                        [] OTHER -> t]
        /\ phase' = CASE l.op = "exit" -> "end"
                      [] (gets \/ l.op = "rmdir") /\ Clients # {} -> IF gets THEN "spawn" ELSE "rmdir"
                      [] all -> "wait"
                      [] OTHER -> "prompt"
        /\ left' = IF phase' \in {"spawn", "rmdir"} THEN Clients ELSE {}
        /\ work' = [w \in Workers |-> IF all /\ w[1] = n' /\ w[2] \in Clients THEN Started ELSE work[w]]
  /\ UNCHANGED <<prog, conn, told, walk, offset, alike, losses>>

OneOnly(s, ok) == {}  \* deviation: the loop ends with the first client
Remaining(s, ok) == IF ok THEN left \ {s} ELSE {}

(* The loop of rmdir, which stops at the first client that fails.  The     *)
(* path is not joined with client.Pwd.                                     *)
rmdir(s) ==
  LET t == fs[s]
      ok == Alive(s) /\ CanRemove(t, Cmd.dst.p) /\ Is(t, Entry(t, Cmd.dst.p), "dir")
  IN /\ phase = "rmdir" /\ s \in left
     /\ fs' = IF ok THEN [fs EXCEPT ![s] = Removed(t, Cmd.dst.p)] ELSE fs
     /\ left' = Remaining(s, ok)
     /\ phase' = IF left' = {} THEN "prompt" ELSE phase
     /\ UNCHANGED <<prog, n, line, conn, told, pwd, walk, offset, work, bars, shown, alike, losses>>

(* Each server's files have a directory of their own when there are        *)
(* several.                                                                *)
Several(l) == Cardinality(IF l.op = "pull" THEN l.from ELSE Clients) > 1
LocalBase(l, s) == IF Several(l) THEN Append(l.dst.p, s) ELSE l.dst.p

(* The loop of getAction.  When a directory cannot be made it returns, and *)
(* nobody waits for the goroutines that it has begun.                      *)
getAction(s) ==
  LET ok == ~Several(Cmd) \/ CanMkdirAll(fs[Here], LocalBase(Cmd, s))
  IN /\ phase = "spawn" /\ s \in left
     /\ fs' = IF Several(Cmd) THEN [fs EXCEPT ![Here] = MkdirAll(@, LocalBase(Cmd, s))] ELSE fs
     /\ left' = IF ok THEN left \ {s} ELSE {}
     /\ work' = IF ok THEN Spawn({s}) ELSE work
     /\ phase' = IF ~ok THEN "prompt" ELSE IF left' = {} THEN "wait" ELSE phase
     /\ UNCHANGED <<prog, n, line, conn, told, pwd, walk, offset, bars, shown, alike, losses>>

(* <-exit, once for each client.                                           *)
Exit(w) ==
  /\ phase = "wait" /\ w[1] = n /\ work[w].at = "exit"
  /\ work' = [work EXCEPT ![w].at = "gone"]
  /\ UNCHANGED <<fs, session, offset, bars, shown>>
(* put and get then wait for the bars, and one that its copy has left      *)
(* without completing it never lets them go on.                            *)
Hangs == Cmd.op \in {"put", "get"} /\ \E b \in bars : b.says = "cut"
Waited ==
  /\ phase = "wait" /\ \A s \in Targets : work[<<n, s>>].at = "gone"
  /\ ~Hangs
  /\ phase' = CASE prog = "sftp" -> "prompt" [] Cmd.op = "via" -> "via" [] OTHER -> "end"
  /\ UNCHANGED <<fs, prog, n, line, conn, told, pwd, left, walk, offset, work, bars, shown, alike, losses>>

(* viaPushPath: directories are made by the walk itself; a file is opened  *)
(* once and read by the goroutines of all targets.                         *)
ViaStep ==
  /\ phase = "via"
  /\ \E x \in walk :
       LET p == x.from
           t == fs[Source]
       IN /\ First(x, walk)
          /\ walk' = walk \ {x}
          /\ CASE Alive(Source) /\ x.stat.kind = "dir" ->
                    /\ fs' = [m \in Machines |-> IF m \in Targets /\ Alive(m) THEN Mkdir(fs[m], p) ELSE fs[m]]
                    /\ UNCHANGED <<phase, offset, work>>
               [] Alive(Source) /\ x.stat.kind # "dir" /\ Real(t, p) \in DOMAIN t ->
                    /\ offset' = 0 /\ phase' = "wait"
                    /\ work' = [w \in Workers |-> IF w[1] = n /\ w[2] \in Targets
                                  THEN [Idle EXCEPT !.at = "next", !.todo = {x}] ELSE work[w]]
                    /\ fs' = fs
               [] OTHER -> UNCHANGED <<fs, phase, offset, work>>
  /\ UNCHANGED <<prog, n, line, conn, told, pwd, left, bars, shown, alike, losses>>
ViaEnd ==
  /\ phase = "via" /\ walk = {}
  /\ phase' = "end"
  /\ UNCHANGED <<fs, prog, n, line, conn, told, pwd, left, walk, offset, work, bars, shown, alike, losses>>

-----------------------------------------------------------------------------
(* The goroutines.  Of is the command a worker is for.                     *)
Of(w) == line[w[1]]
Server(w) == w[2]
Copies == {"push", "pull", "via", "put", "get"}
Reads(w) == IF Of(w).op \in {"push", "put"} THEN Here
            ELSE IF Of(w).op = "via" THEN Source ELSE Server(w)
Writes(w) == IF Of(w).op \in {"pull", "get"} THEN Here ELSE Server(w)

(* What is copied where, below base to below dst.  WalkDir and pullPath    *)
(* leave out what is hidden, get does not.                                 *)
pushItems(i, p, dst) == Items(i, fs[Here], {q \in Walk(fs[Here], p) : Visible(p, q)}, Dir(p), dst)
tryEvalPath(s, p) == IF Alive(s) /\ Real(fs[s], p) \in DOMAIN fs[s] THEN Walk(fs[s], p) ELSE {}
pullItems(i, s, p, dst) ==
  Items(i, fs[s], {q \in tryEvalPath(s, p) : Visible(Dir(p), q)}, Dir(p), dst)
WalkOn(s, p) == IF Alive(s) THEN Walk(fs[s], p) ELSE {}

push(l) == UNION {pushItems(i, l.src[i].p, l.dst.p) : i \in DOMAIN l.src}
putAction(l, s) == pushItems(1, l.src[1].p, Join(s, l.dst).p)
pull(l, s) == UNION {pullItems(i, s, l.src[i].p, LocalBase(l, s)) : i \in DOMAIN l.src}
getItems(l, s) ==
  LET p == Join(s, l.src[1]).p
  IN Items(1, fs[s], WalkOn(s, p), Dir(p), LocalBase(l, s))
rmItems(l, s) == Items(1, fs[s], WalkOn(s, Join(s, l.dst).p), <<>>, <<>>)

Todo(w) ==
  LET l == Of(w)  s == Server(w)
  IN CASE l.op = "push" -> push(l)
       [] l.op = "put" -> putAction(l, s)
       [] l.op = "pull" -> pull(l, s)
       [] l.op = "get" -> getItems(l, s)
       [] l.op = "rmr" -> rmItems(l, s)

Start(w) ==
  /\ work[w].at = "start" /\ Of(w).op \in Copies \cup {"rmr"}
  /\ work' = [work EXCEPT ![w].at = "next", ![w].todo = Todo(w)]
  /\ fs' = IF Of(w).op = "pull" /\ Several(Of(w))
           THEN [fs EXCEPT ![Here] = MkdirAll(@, LocalBase(Of(w), Server(w)))] ELSE fs
  /\ UNCHANGED <<session, offset, bars, shown>>

Finish(w) ==
  /\ work[w].at = "next" /\ work[w].todo = {}
  /\ work' = [work EXCEPT ![w].at = "exit"]
  /\ UNCHANGED <<fs, session, offset, bars, shown>>

Without(w, x) == [work EXCEPT ![w] = [Idle EXCEPT !.at = "next", !.todo = work[w].todo \ {x}]]

(* A progress bar completes at the end of the file ("end"), or when it has *)
(* counted up to its size ("done"): that of a link is the link's own, less *)
(* than one chunk.  It is left as it is when a read or a write fails.      *)
Total(item) == IF item.stat.kind = "link" THEN 1 ELSE Len(item.stat.data)
BarSays(item, pos) == IF Total(item) > 0 /\ pos >= Total(item) THEN "done" ELSE "cut"
Bar(w, item, says) ==
  [on |-> Server(w), from |-> item.from, to |-> item.to, kind |-> item.stat.kind, says |-> says]
With(w, item, says) == IF w[1] = n THEN bars \cup {Bar(w, item, says)} ELSE bars

(* One path: a directory is made and gets the mode of its original; a file *)
(* is opened, for which push and put make its directories.  A walk that    *)
(* has lost its server, and an error, go on with the next.  pull sets the  *)
(* mode even then.  A link to a directory opens like a file, and the first *)
(* read fails.  An open file holds data: nobody writes to it, unless a     *)
(* goroutine of get was left behind, of whose file nothing is claimed.     *)
SetMode(t, item) == Chmod(t, item.to, item.stat.mode)
PushDir(t, item) == IF CanMkdirAll(t, item.to) THEN SetMode(MkdirAll(t, item.to), item) ELSE t
PullDir(t, item) == SetMode(MkdirAll(t, item.to), item)
PutDir(t, item) == SetMode(Mkdir(t, item.to), item)
GetDir(t, item) == SetMode(Mkdir(t, item.to), item)
CopyDir(w, item) ==
  LET op == Of(w).op
      t == fs[Writes(w)]
  IN /\ fs' = [fs EXCEPT ![Writes(w)] = CASE op = "push" -> PushDir(t, item) [] op = "pull" -> PullDir(t, item)
                                          [] op = "put" -> PutDir(t, item) [] op = "get" -> GetDir(t, item)]
     /\ work' = Without(w, item)
NoTruncate(t, p) ==  \* deviation: a file that exists is opened without O_TRUNC
  IF Real(t, p) \in DOMAIN t THEN t ELSE Truncated(t, p)
OpenFile(t, p) == Truncated(t, p)
CopyFile(w, item) ==
  LET src == fs[Reads(w)]
      from == Real(src, item.from)
      t == fs[Writes(w)]
  IN \E d \in {IF from \in DOMAIN src /\ Writes(w) # Here THEN MkdirAll(t, Dir(item.to)) ELSE t} :
     \E opened \in {IF from \in DOMAIN src /\ CanWrite(d, item.to) THEN OpenFile(d, item.to) ELSE d} :
       IF Is(src, from, "file") /\ CanWrite(d, item.to)
       THEN /\ fs' = [fs EXCEPT ![Writes(w)] = opened]
            /\ work' = [work EXCEPT ![w].at = "copy", ![w].item = item, ![w].data = src[from].data]
            /\ bars' = bars
       ELSE /\ fs' = [fs EXCEPT ![Writes(w)] = IF Of(w).op = "pull" THEN SetMode(opened, item) ELSE opened]
            /\ work' = Without(w, item)
            /\ bars' = IF from \in DOMAIN src /\ CanWrite(d, item.to) THEN With(w, item, "cut") ELSE bars

Copy(w) ==
  /\ work[w].at = "next" /\ Of(w).op \in Copies
  /\ \E item \in work[w].todo :
       /\ First(item, work[w].todo)
       /\ IF ~Alive(Reads(w)) \/ ~Alive(Writes(w)) THEN fs' = fs /\ work' = Without(w, item) /\ bars' = bars
          ELSE IF item.stat.kind = "dir" THEN CopyDir(w, item) /\ bars' = bars
          ELSE CopyFile(w, item)
  /\ UNCHANGED <<session, offset, shown>>

(* ProgressPrinter: a Read of the TeeReader takes the next chunk and       *)
(* writes it, or fails.  At the end of the file the mode is set, not by    *)
(* viaPushPath.                                                            *)
Chunk(w) ==
  LET item == work[w].item
      data == work[w].data
      via == Of(w).op = "via"
      at == IF via THEN offset ELSE work[w].pos
  IN /\ work[w].at = "copy"
     /\ Alive(Reads(w)) /\ at < Len(data)
     /\ offset' = IF via THEN offset + 1 ELSE offset
     /\ IF Alive(Writes(w))
        THEN /\ fs' = [fs EXCEPT ![Writes(w)] = Written(@, item.to, work[w].pos, data[at + 1])]
             /\ work' = [work EXCEPT ![w].pos = @ + 1]
             /\ bars' = bars
        ELSE fs' = fs /\ work' = Without(w, item) /\ bars' = With(w, item, BarSays(item, work[w].pos))
     /\ UNCHANGED <<session, shown>>
CopyEnd(w) ==
  LET item == work[w].item
      via == Of(w).op = "via"
      at == IF via THEN offset ELSE work[w].pos
  IN /\ work[w].at = "copy"
     /\ Alive(Reads(w)) /\ at >= Len(work[w].data)
     /\ bars' = With(w, item, "end")
     /\ fs' = IF via \/ ~Alive(Writes(w)) THEN fs
              ELSE [fs EXCEPT ![Writes(w)] = SetMode(@, item)]
     /\ work' = Without(w, item)
     /\ UNCHANGED <<session, offset, shown>>
CopyFails(w) ==
  /\ work[w].at = "copy" /\ ~Alive(Reads(w))
  /\ fs' = IF Of(w).op # "pull" THEN fs
           ELSE [fs EXCEPT ![Here] = SetMode(@, work[w].item)]
  /\ work' = Without(w, work[w].item)
  /\ bars' = With(w, work[w].item, BarSays(work[w].item, work[w].pos))
  /\ UNCHANGED <<session, offset, shown>>

(* rm -r: what is deepest goes first; an error ends it.                    *)
doRM(w) ==
  /\ work[w].at = "next" /\ Of(w).op = "rmr"
  /\ \E x \in work[w].todo :
       /\ Deepest(x, work[w].todo)
       /\ IF Alive(Server(w)) /\ CanRemove(fs[Server(w)], x.from)
          THEN /\ fs' = [fs EXCEPT ![Server(w)] = Removed(@, x.from)]
               /\ work' = Without(w, x)
          ELSE fs' = fs /\ work' = [work EXCEPT ![w].at = "exit"]
  /\ UNCHANGED <<session, offset, bars, shown>>

(* The commands of one request.  rename does not join with client.Pwd;     *)
(* chown and chgrp keep the other of the two, as Lstat shows it.           *)
mkdir(l, s, t) ==
  LET p == Join(s, l.dst).p
  IN IF l.op = "mkdirp" THEN MkdirAll(t, p) ELSE Mkdir(t, p)
rm(l, s, t) == Removed(t, Join(s, l.dst).p)
rename(l, t) == Rename(t, l.src[1].p, l.dst.p)
symlink(l, s, t) == Symlink(t, Join(s, l.src[1]), Join(s, l.dst).p)
chmod(l, s, t) == Chmod(t, Join(s, l.dst).p, "x")
chown(l, s, t) ==
  LET p == Join(s, l.dst).p
      e == Entry(t, p)
  IN IF e \in DOMAIN t THEN Chown(t, p, <<"v", t[e].own[2]>>) ELSE t
chgrp(l, s, t) ==
  LET p == Join(s, l.dst).p
      e == Entry(t, p)
  IN IF e \in DOMAIN t THEN Chown(t, p, <<t[e].own[1], "h">>) ELSE t
Answer(l, s, t) ==
  CASE l.op \in {"mkdir", "mkdirp"} -> mkdir(l, s, t)
    [] l.op = "rm" -> rm(l, s, t)
    [] l.op = "rename" -> rename(l, t)
    [] l.op = "symlink" -> symlink(l, s, t)
    [] l.op = "chmod" -> chmod(l, s, t)
    [] l.op = "chown" -> chown(l, s, t)
    [] l.op = "chgrp" -> chgrp(l, s, t)
    [] OTHER -> t

(* ls follows a link as cd does; what is hidden is left out.               *)
getRemoteLsData(s, a) ==
  LET e == Entry(fs[s], CdPath(s, a).p)
  IN IF Is(fs[s], e, "dir") THEN {q \in DOMAIN fs[s] : q # <<>> /\ Front(q) = e} ELSE {e} \cap DOMAIN fs[s]
doLs(s, a) == {q[Len(q)] : q \in getRemoteLsData(s, a)} \ Hidden
pwdOf(s) == {pwd[s].p}
Shows(l, s) ==
  CASE l.op = "pwd" -> pwdOf(s) [] l.op = "ls" /\ Alive(s) -> doLs(s, l.dst) [] OTHER -> {}
Request(w) ==
  LET s == Server(w)
  IN /\ work[w].at = "start" /\ Of(w).op \in Alone
     /\ fs' = IF Alive(s) THEN [fs EXCEPT ![s] = Answer(Of(w), s, @)] ELSE fs
     /\ shown' = [shown EXCEPT ![s] = Shows(Of(w), s)]
     /\ work' = [work EXCEPT ![w].at = "exit"]
     /\ UNCHANGED <<session, offset, bars>>

-----------------------------------------------------------------------------
Worker(w) == \/ Start(w) \/ Finish(w) \/ Copy(w) \/ Chunk(w) \/ CopyEnd(w) \/ CopyFails(w)
             \/ doRM(w) \/ Request(w) \/ Exit(w)
Main == \/ Connected \/ Waited \/ ViaStep \/ ViaEnd
        \/ \E s \in Servers : createConnect(s) \/ rmdir(s) \/ getAction(s)
Progress == Main \/ \E w \in Workers : Worker(w)

Next ==
  \/ \E a \in ScpLines : lscpAction(a)
  \/ lsftpAction
  \/ \E l \in SftpLines : Executor(l)
  \/ Progress
  \/ \E s \in Servers : Lose(s)

(* The program runs, and requests are answered or fail.  Nobody has to     *)
(* type a line, and no connection has to break.  A command has finitely    *)
(* many steps, so that one of them is taken as long as there is one.       *)
Spec == Init /\ [][Next]_vars /\ WF_vars(Progress)

-----------------------------------------------------------------------------
Rest == phase \in {"prompt", "end"}
Abandoned == \E w \in Workers : w[1] < n /\ work[w].at \notin {"off", "gone"}
Single == Cmd.op = "via" => \A s, u \in Targets : s = u

(* Where the worker of server s puts the i-th source of command l.         *)
Sources(l) == IF l.op \in {"put", "get"} THEN {1} ELSE DOMAIN l.src
From(l, s, i) == IF l.op = "get" THEN Join(s, l.src[1]).p ELSE l.src[i].p
To(l, s, i) ==
  LET p == From(l, s, i)
      dst == CASE l.op \in {"pull", "get"} -> LocalBase(l, s)
               [] l.op = "put" -> Join(s, l.dst).p
               [] OTHER -> l.dst.p
  IN IF l.op = "via" THEN p ELSE dst \o Rel(Dir(p), p)

(* No two files are copied to one: the sources are put at different places *)
(* of the target, none in another, and no link below them leads elsewhere. *)
Apart ==
  \A s, u \in Targets, i, j \in Sources(Cmd) :
    LET m == Writes(<<n, s>>)
        p == To(Cmd, s, i)
    IN /\ \A q \in DOMAIN fs[m] : q # p /\ IsPrefix(p, q) => ~Is(fs[m], q, "link")
       /\ m = Writes(<<n, u>>) /\ <<s, i>> # <<u, j>>
            => ~IsPrefix(Real(fs[m], p), Real(fs[m], To(Cmd, u, j)))

(* The bars that say done: those of the copies that are over, and those of *)
(* open files that have counted up to their size.  The bar of a link says  *)
(* so too early, unless it has come to the end.                            *)
Counted ==
  {Bar(w, work[w].item, BarSays(work[w].item, work[w].pos)) : w \in {v \in Workers : v[1] = n /\ work[v].at = "copy"}}
Done == {b \in bars \cup Counted : b.says = "end" \/ (b.says = "done" /\ b.kind = "file")}

(* A file whose progress bar says done is at the target as it is at the    *)
(* source: whatever was there before, whatever the other servers do, and   *)
(* whichever connection is lost, then or later.  Of a link this is so at   *)
(* the end of the file only.  Between servers, when there is one target.   *)
DoneIsWhole ==
  ~Abandoned /\ Cmd.op \in Copies /\ Apart /\ Single
    => \A b \in Done :
         LET w == <<n, b.on>>
             src == fs[Reads(w)]
             t == fs[Writes(w)]
         IN t[Real(t, b.to)].data = src[Real(src, b.from)].data

(* The same between servers, with any number of targets: README.md:316-335 *)
(* "remote => remote(multiple)".                                           *)
ViaIsWhole ==
  Rest /\ Cmd.op = "via" => \A b \in Done : fs[b.on][b.to].data = fs[Source][b.from].data

(* The clients have one and the same current directory, though each server *)
(* is asked for it and some may not have it (cd).                          *)
Together == \A s, t \in Clients : pwd[s] = pwd[t]

(* Servers that begin alike stay alike: once a command has ended, what it  *)
(* did on one connected server it has done on all, and all have shown the  *)
(* same (ls, pwd, df), unless a connection was lost, or goroutines that an *)
(* earlier get has left behind change the files that are put meanwhile.    *)
(* Between servers, when there is one target.                              *)
InStep ==
  alike /\ Rest /\ losses = 0 /\ ~Abandoned /\ Single
    => \A s, t \in Targets : fs[s] = fs[t] /\ shown[s] = shown[t]

(* A command ends, whichever servers cannot be reached, and whichever      *)
(* connections are lost meanwhile; but put and get may hang when one is    *)
(* lost amid a file, or a link leads to a directory (output.go:184-185).   *)
CommandEnds == [](phase \notin {"start", "prompt", "end"} => <>(Rest \/ Hangs \/ Abandoned))
=============================================================================
