---------------------------- MODULE FilesProofs -----------------------------
(***************************************************************************)
(* What `bssh scp' and the shell of `bssh ftp' do in Files, for any        *)
(* servers, file trees and commands, and however many connections fail:    *)
(*   AllTogether     the servers of a session are in the same directory    *)
(*   SourcesAreKept  a copy of bssh scp changes no machine it copies from  *)
(*   DoneFilesAreWhole  a file whose bar says done is at the target what   *)
(*                   it is at the source                                   *)
(*   ServersStayAlike  servers that begin alike stay alike                 *)
(***************************************************************************)
EXTENDS Files, SequenceTheorems, WellFoundedInduction, TLAPS

(* As long as the servers are being connected to, all of them are where    *)
(* they were; later, no server is added.                                   *)
Home == [abs |-> FALSE, p |-> <<>>]
TogetherInv ==
  /\ DOMAIN pwd = Machines
  /\ phase \in {"start", "connect"} => \A s \in Servers : pwd[s] = Home
  /\ Together

-----------------------------------------------------------------------------
(* cd, in whichever order the clients answer.                              *)
LEMMA CdTogether ==
  ASSUME TogetherInv, NEW a, cd(a)
  PROVE  DOMAIN pwd' = Machines /\ \A s, t \in Clients : pwd'[s] = pwd'[t]
<1>1. Clients \subseteq Machines
  BY DEF Clients, Machines
<1>2. CASE pwd' = pwd
  BY <1>2 DEF TogetherInv, Together
<1>3. ASSUME NEW r \in Clients, pwd' = [m \in Machines |-> IF m \in Clients THEN CdPath(r, a) ELSE pwd[m]]
      PROVE  DOMAIN pwd' = Machines /\ \A s, t \in Clients : pwd'[s] = pwd'[t]
  <2>1. PICK path : path = CdPath(r, a)
    OBVIOUS
  <2> QED BY <1>1, <1>3, <2>1
<1>4. pwd' = pwd \/ \E r \in Clients : pwd' = [m \in Machines |-> IF m \in Clients THEN CdPath(r, a) ELSE pwd[m]]
  BY Zenon DEF cd
<1> QED BY <1>2, <1>3, <1>4

(* Every line that is typed.                                               *)
LEMMA TypedTogether ==
  ASSUME TogetherInv, NEW l, Executor(l)
  PROVE  TogetherInv'
<1>1. phase = "prompt" /\ conn' = conn
  BY DEF Executor
<1>2. Clients' = Clients /\ Clients \subseteq Servers
  BY <1>1 DEF Clients
<1>3. phase' \notin {"start", "connect"}
  BY <1>1 DEF Executor
<1>4. DOMAIN pwd' = Machines /\ \A s, t \in Clients : pwd'[s] = pwd'[t]
  <2>1. CASE cd(l.dst)
    BY <2>1, CdTogether
  <2>2. CASE cdHome
    <3>1. PICK home : home = Arg(FALSE, <<>>)
      OBVIOUS
    <3>2. pwd' = [m \in Machines |-> IF m \in Clients THEN home ELSE pwd[m]]
      BY <2>2, <3>1 DEF cdHome
    <3> QED BY <1>2, <3>2 DEF Machines
  <2>3. CASE lcd(l.dst)
    <3>1. pwd' = pwd \/ \E p : pwd' = [pwd EXCEPT ![Here] = p]
      BY <2>3, Zenon DEF lcd
    <3>2. Here \notin Servers
      BY FilesAssumption DEF FilesAssumption
    <3>3. DOMAIN pwd' = DOMAIN pwd /\ \A s \in Servers : pwd'[s] = pwd[s]
      BY <3>1, <3>2 DEF TogetherInv, Machines
    <3> QED BY <1>2, <3>3 DEF TogetherInv, Together
  <2>4. CASE pwd' = pwd
    BY <2>4 DEF TogetherInv, Together
  <2>5. cd(l.dst) \/ cdHome \/ lcd(l.dst) \/ pwd' = pwd
    BY DEF Executor
  <2> QED BY <2>1, <2>2, <2>3, <2>4, <2>5
<1> QED BY <1>2, <1>3, <1>4 DEF TogetherInv, Together

LEMMA TogetherInit == Init => TogetherInv
BY DEF Init, TogetherInv, Together, Home, Arg, Machines, Clients

LEMMA TogetherStep == TogetherInv /\ [Next]_vars => TogetherInv'
<1> SUFFICES ASSUME TogetherInv, [Next]_vars
             PROVE  TogetherInv'
  OBVIOUS
<1>1. ASSUME NEW l, Executor(l)
      PROVE  TogetherInv'
  BY <1>1, TypedTogether
<1>2. ASSUME pwd' = pwd, Clients' = Clients, phase' \in {"start", "connect"} => phase \in {"start", "connect"}
      PROVE  TogetherInv'
  BY <1>2 DEF TogetherInv, Together
<1>3. ASSUME NEW s \in Servers, createConnect(s)
      PROVE  TogetherInv'
  <2>1. phase = "connect" /\ pwd' = pwd /\ phase' = phase
    BY <1>3 DEF createConnect
  <2>2. \A t \in Clients' : pwd[t] = Home
    BY <2>1 DEF TogetherInv, Clients
  <2> QED BY <2>1, <2>2 DEF TogetherInv, Together
<1>4. ASSUME NEW s \in Servers, Lose(s)
      PROVE  TogetherInv'
  <2>1. conn[s] = "up" /\ conn' = [conn EXCEPT ![s] = "lost"] /\ pwd' = pwd /\ phase' = phase
    BY <1>4 DEF Lose
  <2>2. Clients' \subseteq Clients
    BY <2>1 DEF Clients
  <2> QED BY <2>1, <2>2 DEF TogetherInv, Together
<1>5. CASE (\E a \in ScpLines : lscpAction(a)) \/ lsftpAction \/ Connected
  BY <1>2, <1>5 DEF lscpAction, lsftpAction, Connected, Clients
<1>6. CASE Waited \/ ViaEnd \/ \E s \in Servers : rmdir(s) \/ getAction(s)
  BY <1>2, <1>6 DEF Waited, ViaEnd, rmdir, getAction, Clients
<1>7. CASE ViaStep
  <2>1. pwd' = pwd /\ conn' = conn /\ phase = "via"
    BY <1>7 DEF ViaStep
  <2>2. phase' = "wait" \/ phase' = phase
    BY <1>7, Zenon DEF ViaStep
  <2> QED BY <1>2, <2>1, <2>2 DEF Clients
<1>8. CASE \E w \in Workers : Worker(w)
  BY <1>2, <1>8 DEF Worker, Start, Finish, Copy, Chunk, CopyEnd, CopyFails, doRM, Request, Exit, session, Clients
<1>9. CASE UNCHANGED vars
  BY <1>2, <1>9 DEF vars, session, Clients
<1> QED BY <1>1, <1>3, <1>4, <1>5, <1>6, <1>7, <1>8, <1>9, Zenon DEF Next, Progress, Main

(* The clients have one and the same current directory, though each server *)
(* is asked for it and some may not have it (sftp/cmd_cd.go): for any      *)
(* number of servers and whatever their files are.                         *)
THEOREM AllTogether == Spec => []Together
<1>1. TogetherInv => Together
  BY DEF TogetherInv
<1> QED BY <1>1, TogetherInit, TogetherStep, PTL DEF Spec

-----------------------------------------------------------------------------
(* The machines that a copy of bssh scp reads, and those it writes to.     *)
Senders == IF Cmd.op = "push" THEN {Here} ELSE Cmd.from
Receivers == IF Cmd.op = "pull" THEN {Here} ELSE Cmd.to
SourcesKept ==
  [][prog = "scp" => \A m \in Machines : fs'[m] # fs[m] => m \in Receivers \ Senders]_vars

(* bssh scp is one command: its goroutines are for the servers it names,   *)
(* and the server it copies from is none of those it copies to.            *)
ScpCommand(l) ==
  \/ l.op = "push" /\ l.from = {}
  \/ l.op = "pull" /\ l.to = {} /\ Here \notin l.from
  \/ l.op = "via" /\ \E s \in Servers \ l.to : l.from = {s}
ScpInv ==
  /\ n \in 1..MaxLines /\ DOMAIN line = 1..MaxLines
  /\ DOMAIN work = Workers /\ DOMAIN fs = Machines
  /\ prog = "none" <=> phase = "start"
  /\ prog \in {"none", "scp", "sftp"}
  /\ prog = "none" => n = 1 /\ \A w \in Workers : work[w] = Idle
  /\ prog = "scp" =>
       /\ n = 1 /\ phase \in {"connect", "via", "wait", "end"}
       /\ phase # "end" => ScpCommand(line[1])
       /\ phase = "via" => line[1].op = "via"
       /\ \A w \in Workers : work[w].at # "off" =>
            /\ w[1] = 1 /\ ScpCommand(line[1])
            /\ w[2] \in (IF line[1].op = "pull" THEN line[1].from ELSE line[1].to)

(* A goroutine keeps to itself and to the machine it writes to.            *)
LEMMA WorkerFacts ==
  ASSUME DOMAIN work = Workers, DOMAIN fs = Machines, NEW w \in Workers, Worker(w)
  PROVE  /\ UNCHANGED <<prog, n, line>> /\ phase' = phase
         /\ DOMAIN work' = Workers /\ work[w].at # "off"
         /\ \A v \in Workers : v # w => work'[v] = work[v]
         /\ DOMAIN fs' = Machines
         /\ \A m \in Machines : m # Writes(w) => fs'[m] = fs[m]
<1>1. UNCHANGED <<prog, n, line>> /\ phase' = phase
  BY DEF Worker, Start, Finish, Copy, Chunk, CopyEnd, CopyFails, doRM, Request, Exit, session
<1>2. work[w].at # "off"
  BY DEF Worker, Start, Finish, Copy, Chunk, CopyEnd, CopyFails, doRM, Request, Exit
<1> DEFINE Own == /\ DOMAIN work' = Workers
                  /\ \A v \in Workers : v # w => work'[v] = work[v]
           Disk == fs' = fs \/ \E t : fs' = [fs EXCEPT ![Writes(w)] = t]
<1>3. SUFFICES Own /\ Disk
  BY <1>1, <1>2
<1>4. ASSUME NEW x, work' = Without(w, x)
      PROVE  Own
  BY <1>4 DEF Without
<1>5. CASE Start(w)
  <2>1. Own
    <3>1. PICK todo : work' = [work EXCEPT ![w].at = "next", ![w].todo = todo]
      BY <1>5 DEF Start
    <3> QED BY <3>1
  <2>2. Disk
    <3>1. \/ fs' = fs
          \/ Of(w).op = "pull" /\ \E t : fs' = [fs EXCEPT ![Here] = t]
      BY <1>5 DEF Start
    <3> QED BY <3>1 DEF Writes
  <2> QED BY <2>1, <2>2
<1>6. CASE Finish(w)
  BY <1>6 DEF Finish
<1>7. CASE Copy(w)
  <2>1. PICK item : \/ fs' = fs /\ work' = Without(w, item)
                    \/ CopyDir(w, item)
                    \/ CopyFile(w, item)
    BY <1>7 DEF Copy
  <2>2. CASE fs' = fs /\ work' = Without(w, item)
    BY <1>4, <2>2
  <2>3. CASE CopyDir(w, item)
    BY <1>4, <2>3, Zenon DEF CopyDir
  <2>4. CASE CopyFile(w, item)
    <3>1. /\ Disk
          /\ \/ work' = Without(w, item)
             \/ \E data : work' = [work EXCEPT ![w].at = "copy", ![w].item = item, ![w].data = data]
      BY <2>4, Zenon DEF CopyFile
    <3>2. ASSUME NEW data, work' = [work EXCEPT ![w].at = "copy", ![w].item = item, ![w].data = data]
          PROVE  Own
      BY <3>2
    <3> QED BY <1>4, <3>1, <3>2
  <2> QED BY <2>1, <2>2, <2>3, <2>4
<1>8. CASE Chunk(w)
  <2>1. \/ work' = Without(w, work[w].item) /\ fs' = fs
        \/ work' = [work EXCEPT ![w].pos = @ + 1] /\ \E t : fs' = [fs EXCEPT ![Writes(w)] = t]
    BY <1>8 DEF Chunk
  <2> QED BY <1>4, <2>1
<1>9. CASE CopyEnd(w)
  BY <1>4, <1>9 DEF CopyEnd
<1>10. CASE CopyFails(w)
  <2>1. \/ fs' = fs
        \/ Of(w).op = "pull" /\ \E t : fs' = [fs EXCEPT ![Here] = t]
    BY <1>10 DEF CopyFails
  <2>2. Disk
    BY <2>1 DEF Writes
  <2> QED BY <1>4, <1>10, <2>2 DEF CopyFails
<1>11. CASE doRM(w)
  <2>1. Of(w).op = "rmr"
    BY <1>11 DEF doRM
  <2>2. Writes(w) = Server(w)
    BY <2>1 DEF Writes
  <2>3. PICK x : \/ /\ \E t : fs' = [fs EXCEPT ![Server(w)] = t]
                    /\ work' = Without(w, x)
                 \/ fs' = fs /\ work' = [work EXCEPT ![w].at = "exit"]
    BY <1>11 DEF doRM
  <2> QED BY <1>4, <2>2, <2>3
<1>12. CASE Request(w)
  <2>1. Of(w).op \in Alone
    BY <1>12 DEF Request
  <2>2. Writes(w) = Server(w)
    BY <2>1 DEF Writes, Alone
  <2>3. /\ fs' = fs \/ \E t : fs' = [fs EXCEPT ![Server(w)] = t]
        /\ work' = [work EXCEPT ![w].at = "exit"]
    BY <1>12 DEF Request
  <2> QED BY <2>2, <2>3
<1>13. CASE Exit(w)
  BY <1>13 DEF Exit
<1> HIDE DEF Own, Disk
<1> QED BY <1>5, <1>6, <1>7, <1>8, <1>9, <1>10, <1>11, <1>12, <1>13, Zenon DEF Worker

(* The arguments of bssh scp are a copy of one of three kinds.             *)
LEMMA ScpArguments ==
  ASSUME ScpInv, NEW a \in ScpLines, lscpAction(a)
  PROVE  ScpInv'
<1>1. /\ phase = "start" /\ prog = "none" /\ n = 1 /\ prog' = "scp" /\ n' = n /\ work' = work /\ fs' = fs
      /\ \A w \in Workers : work[w] = Idle
  BY DEF lscpAction, ScpInv
<1>2. \A w \in Workers : work'[w].at = "off"
  BY <1>1 DEF Idle
<1>3. CASE phase' = "end" /\ line' = line
  BY <1>1, <1>2, <1>3 DEF ScpInv
<1>4. CASE ~TypeError(a) /\ phase' = "connect"
  <2>1. PICK chosen \in SUBSET Servers \ {{}}, source \in Servers :
          /\ FromRemote(a) /\ a.to.remote => source \notin chosen
          /\ line' = [line EXCEPT ![1] = parseFromToServer(a, chosen, source)]
    BY <1>1, <1>4, Zenon DEF lscpAction
  <2>2. PICK l : l = parseFromToServer(a, chosen, source)
    OBVIOUS
  <2>3. PICK hosts : hosts = IF a.hosts # {} THEN a.hosts ELSE chosen
    OBVIOUS
  <2>4. hosts \subseteq Servers /\ Here \notin hosts
    BY <2>3, FilesAssumption DEF FilesAssumption
  <2>5. /\ l.op = IF ~FromRemote(a) THEN "push" ELSE IF ~a.to.remote THEN "pull" ELSE "via"
        /\ l.from = IF ~FromRemote(a) THEN {} ELSE IF a.to.remote THEN {source} ELSE hosts
        /\ l.to = IF a.to.remote THEN hosts ELSE {}
    <3>1. PICK op, from, to :
            /\ op = IF ~FromRemote(a) THEN "push" ELSE IF ~a.to.remote THEN "pull" ELSE "via"
            /\ from = IF ~FromRemote(a) THEN {} ELSE IF a.to.remote THEN {source} ELSE hosts
            /\ to = IF a.to.remote THEN hosts ELSE {}
      OBVIOUS
    <3>2. PICK src, dst : src = [i \in DOMAIN a.from |-> Arg(TRUE, a.from[i].p)] /\ dst = Arg(TRUE, a.to.p)
      OBVIOUS
    <3>3. l = [op |-> op, src |-> src, dst |-> dst, from |-> from, to |-> to]
      BY <2>2, <2>3, <3>1, <3>2 DEF parseFromToServer
    <3> QED BY <3>1, <3>3
  <2>6. ScpCommand(l)
    <3>1. CASE ~FromRemote(a)
      BY <2>5, <3>1 DEF ScpCommand
    <3>2. CASE FromRemote(a) /\ ~a.to.remote
      BY <2>4, <2>5, <3>2 DEF ScpCommand
    <3>3. CASE FromRemote(a) /\ a.to.remote
      <4>1. a.hosts = {}
        BY <1>4, <3>3 DEF TypeError
      <4>2. source \notin hosts
        BY <2>1, <2>3, <3>3, <4>1
      <4> QED BY <2>5, <3>3, <4>2 DEF ScpCommand
    <3> QED BY <3>1, <3>2, <3>3
  <2>7. DOMAIN line' = 1..MaxLines /\ line'[1] = l
    <3>1. 1 \in 1..MaxLines
      BY FilesAssumption DEF FilesAssumption
    <3> QED BY <2>1, <2>2, <3>1 DEF ScpInv
  <2> QED BY <1>1, <1>2, <1>4, <2>6, <2>7 DEF ScpInv
<1> QED BY <1>3, <1>4 DEF lscpAction

LEMMA ScpInit == Init => ScpInv
<1> SUFFICES ASSUME Init
             PROVE  ScpInv
  OBVIOUS
<1>1. 1 \in 1..MaxLines /\ DOMAIN fs = Machines
  BY FilesAssumption DEF FilesAssumption, Init
<1>2. /\ phase = "start" /\ prog = "none" /\ n = 1
      /\ line = [i \in 1..MaxLines |-> NoLine] /\ work = [w \in Workers |-> Idle]
  BY DEF Init
<1> QED BY <1>1, <1>2 DEF ScpInv

LEMMA ScpStep == ScpInv /\ [Next]_vars => ScpInv'
<1> SUFFICES ASSUME ScpInv, [Next]_vars
             PROVE  ScpInv'
  OBVIOUS
<1>1. CASE \E a \in ScpLines : lscpAction(a)
  BY <1>1, ScpArguments
<1>2. CASE lsftpAction
  <2>1. /\ prog' = "sftp" /\ phase' = "connect" /\ UNCHANGED <<fs, n, work>>
        /\ \E l : line' = [line EXCEPT ![1] = l]
    BY <1>2 DEF lsftpAction
  <2> QED BY <2>1 DEF ScpInv
<1>3. ASSUME NEW l, Executor(l)
      PROVE  ScpInv'
  <2>1. phase = "prompt" /\ prog = "sftp" /\ n \in 1..MaxLines
    BY <1>3 DEF Executor, ScpInv
  <2>2. /\ prog' = prog /\ n' = n + 1 /\ n < MaxLines /\ phase' # "start"
        /\ \E t : line' = [line EXCEPT ![n + 1] = t]
        /\ \E t : fs' = [fs EXCEPT ![Here] = t]
        /\ DOMAIN work' = Workers
    BY <1>3, <2>1 DEF Executor
  <2>3. n' \in 1..MaxLines
    BY <2>1, <2>2, FilesAssumption DEF FilesAssumption
  <2> QED BY <2>1, <2>2, <2>3 DEF ScpInv
<1>4. CASE Connected
  <2>1. phase = "connect" /\ UNCHANGED <<fs, prog, n, line>>
    BY <1>4 DEF Connected
  <2>2. /\ prog = "sftp" => phase' = "prompt"
        /\ prog = "scp" => phase' \in {"end", "wait"} \/ (phase' = "via" /\ Cmd.op = "via")
    BY <1>4 DEF Connected
  <2>3. work' = work \/ work' = Spawn(Targets)
    BY <1>4 DEF Connected
  <2>4. DOMAIN work' = Workers
    BY <2>3 DEF Spawn, ScpInv
  <2>5. prog \in {"scp", "sftp"}
    BY <2>1 DEF ScpInv
  <2>6. ASSUME prog = "scp", NEW w \in Workers, work'[w].at # "off"
        PROVE  w[1] = 1 /\ w[2] \in (IF line[1].op = "pull" THEN line[1].from ELSE line[1].to)
    <3>1. n = 1
      BY <2>6 DEF ScpInv
    <3>2. work'[w] = work[w] \/ (w[1] = 1 /\ w[2] \in Targets)
      BY <2>3, <3>1 DEF Spawn
    <3> QED BY <2>6, <3>1, <3>2 DEF ScpInv, Targets, Cmd
  <2> QED BY <2>1, <2>2, <2>4, <2>5, <2>6 DEF ScpInv, Cmd
<1>5. CASE Waited \/ ViaEnd
  <2>1. UNCHANGED <<fs, prog, n, line, work>> /\ phase \in {"wait", "via"}
    BY <1>5 DEF Waited, ViaEnd
  <2>2. \/ phase' = "prompt" /\ prog = "sftp"
        \/ phase' = "via" /\ Cmd.op = "via"
        \/ phase' = "end"
    BY <1>5 DEF Waited, ViaEnd
  <2> QED BY <2>1, <2>2 DEF ScpInv, Cmd
<1>6. CASE ViaStep
  <2>1. UNCHANGED <<prog, n, line>> /\ phase = "via"
    BY <1>6 DEF ViaStep
  <2>2. PICK x : \/ /\ fs' = [m \in Machines |-> IF m \in Targets /\ Alive(m) THEN Mkdir(fs[m], x.from) ELSE fs[m]]
                    /\ phase' = phase /\ work' = work
                 \/ /\ phase' = "wait" /\ fs' = fs
                    /\ work' = [w \in Workers |-> IF w[1] = n /\ w[2] \in Targets
                                  THEN [Idle EXCEPT !.at = "next", !.todo = {x}] ELSE work[w]]
                 \/ UNCHANGED <<fs, phase, work>>
    BY <1>6, Zenon DEF ViaStep
  <2>3. DOMAIN work' = Workers /\ DOMAIN fs' = Machines /\ phase' \in {"via", "wait"}
    BY <2>1, <2>2 DEF ScpInv
  <2>4. ASSUME prog = "scp", NEW w \in Workers, work'[w].at # "off"
        PROVE  w[1] = 1 /\ w[2] \in (IF line[1].op = "pull" THEN line[1].from ELSE line[1].to)
    <3>1. n = 1
      BY <2>4 DEF ScpInv
    <3>2. work'[w] = work[w] \/ (w[1] = 1 /\ w[2] \in Targets)
      BY <2>2, <3>1
    <3> QED BY <2>1, <2>4, <3>1, <3>2 DEF ScpInv, Targets, Cmd
  <2> QED BY <2>1, <2>3, <2>4 DEF ScpInv
<1>7. ASSUME NEW s \in Servers, createConnect(s) \/ Lose(s)
      PROVE  ScpInv'
  BY <1>7 DEF createConnect, Lose, ScpInv
<1>8. ASSUME NEW s \in Servers, rmdir(s) \/ getAction(s)
      PROVE  ScpInv'
  <2>1. phase \in {"rmdir", "spawn"} /\ prog = "sftp"
    BY <1>8 DEF rmdir, getAction, ScpInv
  <2>2. /\ UNCHANGED <<prog, n, line>> /\ phase' # "start"
        /\ fs' = fs \/ \E m, t : fs' = [fs EXCEPT ![m] = t]
        /\ work' = work \/ work' = Spawn({s})
    BY <1>8 DEF rmdir, getAction
  <2>3. DOMAIN work' = Workers /\ DOMAIN fs' = Machines
    BY <2>2 DEF ScpInv, Spawn
  <2> QED BY <2>1, <2>2, <2>3 DEF ScpInv
<1>9. ASSUME NEW w \in Workers, Worker(w)
      PROVE  ScpInv'
  <2>1. /\ UNCHANGED <<prog, n, line>> /\ phase' = phase
        /\ DOMAIN work' = Workers /\ work[w].at # "off"
        /\ \A v \in Workers : v # w => work'[v] = work[v]
        /\ DOMAIN fs' = Machines
    BY <1>9, WorkerFacts DEF ScpInv
  <2>2. prog # "none"
    BY <2>1 DEF ScpInv, Idle
  <2> QED BY <2>1, <2>2 DEF ScpInv
<1>10. CASE UNCHANGED vars
  BY <1>10 DEF vars, session, ScpInv
<1> QED BY <1>1, <1>2, <1>3, <1>4, <1>5, <1>6, <1>7, <1>8, <1>9, <1>10, Zenon DEF Next, Progress, Main

(* A copy of bssh scp (scp/main.go) changes the machines it copies to and  *)
(* none that it copies from, whatever fails meanwhile: not this one when   *)
(* it pushes, no server when it pulls, and not the source in between.      *)
THEOREM SourcesAreKept == Spec => SourcesKept
<1> DEFINE Kept == prog = "scp" => \A m \in Machines : fs'[m] # fs[m] => m \in Receivers \ Senders
<1>1. ASSUME ScpInv, prog = "scp", NEW w \in Workers, Worker(w)
      PROVE  Writes(w) \in Receivers \ Senders
  <2>1. work[w].at # "off"
    BY <1>1, WorkerFacts DEF ScpInv
  <2>2. /\ n = 1 /\ w[1] = 1 /\ ScpCommand(Cmd) /\ Of(w) = Cmd
        /\ w[2] \in (IF Cmd.op = "pull" THEN Cmd.from ELSE Cmd.to)
    BY <1>1, <2>1 DEF ScpInv, Cmd, Of
  <2>3. w[2] \in Servers /\ Here \notin Servers
    BY FilesAssumption DEF FilesAssumption, Workers
  <2>4. CASE Cmd.op = "push"
    BY <2>2, <2>3, <2>4 DEF Writes, Server, Receivers, Senders
  <2>5. CASE Cmd.op = "pull" /\ Here \notin Cmd.from
    BY <2>2, <2>5 DEF Writes, Receivers, Senders
  <2>6. CASE Cmd.op = "via" /\ \E s \in Servers \ Cmd.to : Cmd.from = {s}
    BY <2>2, <2>6 DEF Writes, Server, Receivers, Senders
  <2> QED BY <2>2, <2>4, <2>5, <2>6 DEF ScpCommand
<1>2. ASSUME ScpInv, prog = "scp", ViaStep, NEW m \in Machines, fs'[m] # fs[m]
      PROVE  m \in Receivers \ Senders
  <2>1. m \in Targets
    <3>1. fs' = fs \/ \E p : fs' = [r \in Machines |-> IF r \in Targets /\ Alive(r) THEN Mkdir(fs[r], p) ELSE fs[r]]
      BY <1>2, Zenon DEF ViaStep
    <3> QED BY <1>2, <3>1
  <2>2. Cmd.op = "via" /\ ScpCommand(Cmd)
    BY <1>2 DEF ScpInv, ViaStep, Cmd
  <2> QED BY <1>2, <2>1, <2>2 DEF ScpCommand, Targets, Receivers, Senders
<1>3. ScpInv /\ [Next]_vars => [Kept]_vars
  <2> SUFFICES ASSUME ScpInv, Next, prog = "scp", NEW m \in Machines, fs'[m] # fs[m]
               PROVE  m \in Receivers \ Senders
    OBVIOUS
  <2>1. CASE \E w \in Workers : Worker(w)
    <3>1. PICK w \in Workers : Worker(w)
      BY <2>1
    <3>2. m = Writes(w)
      BY <3>1, WorkerFacts DEF ScpInv
    <3> QED BY <1>1, <3>1, <3>2
  <2>2. CASE ViaStep
    BY <1>2, <2>2
  <2>3. phase # "start" /\ phase \notin {"prompt", "rmdir", "spawn"}
    BY DEF ScpInv
  <2>4. /\ \A a \in ScpLines : ~lscpAction(a)
        /\ \A l \in SftpLines : ~Executor(l)
        /\ \A s \in Servers : ~rmdir(s) /\ ~getAction(s)
        /\ ~lsftpAction
    BY <2>3 DEF lscpAction, lsftpAction, Executor, rmdir, getAction
  <2>5. ~Connected /\ ~Waited /\ ~ViaEnd /\ \A s \in Servers : ~createConnect(s) /\ ~Lose(s)
    BY DEF Connected, Waited, ViaEnd, createConnect, Lose
  <2> QED BY <2>1, <2>2, <2>4, <2>5, Zenon DEF Next, Progress, Main
<1> QED BY <1>3, ScpInit, ScpStep, PTL DEF Spec, SourcesKept
-----------------------------------------------------------------------------
(* A set of numbers has a least one.                                       *)
LEMMA LeastNumber ==
  ASSUME NEW T, T \subseteq Nat, T # {}
  PROVE  \E x \in T : \A y \in T : x <= y
<1> DEFINE R == OpToRel(<, Nat)
<1>1. IsWellFoundedOn(R, Nat)
  BY NatLessThanWellFounded, Zenon
<1>2. \A a, b \in Nat : a < b => <<a, b>> \in R
  BY DEF OpToRel
<1> HIDE DEF R
<1>3. PICK x \in T : \A y \in T : ~(<<y, x>> \in R)
  BY <1>1, WFMin
<1>4. \A y \in T : ~(y < x)
  BY <1>2, <1>3, Zenon
<1>5. \A y \in T : x <= y
  BY <1>4
<1> QED
  BY <1>5

-----------------------------------------------------------------------------
(* Paths.                                                                  *)
LEMMA PathPart ==
  ASSUME NEW p \in Path, NEW i \in 0..Len(p)
  PROVE  /\ SubSeq(p, 1, i) \in Path /\ Len(SubSeq(p, 1, i)) = i
         /\ SubSeq(p, i + 1, Len(p)) \in Path
         /\ p = SubSeq(p, 1, i) \o SubSeq(p, i + 1, Len(p))
<1>1. SubSeq(p, 1, i) \in Path /\ Len(SubSeq(p, 1, i)) = i
  BY DEF Path
<1>2. SubSeq(p, i + 1, Len(p)) \in Path
  BY DEF Path
<1>3. p = SubSeq(p, 1, i) \o SubSeq(p, i + 1, Len(p))
  <2>1. 1 \in 1..Len(p) + 1 /\ i \in 1 - 1..Len(p) /\ Len(p) \in i..Len(p)
    BY DEF Path
  <2> QED BY <2>1, ConcatAdjacentSubSeq, SubSeqFull DEF Path
<1> QED BY <1>1, <1>2, <1>3

(* A path below another.                                                   *)
LEMMA PathJoin ==
  ASSUME NEW p \in Path, NEW r \in Path
  PROVE  /\ p \o r \in Path /\ Len(p \o r) = Len(p) + Len(r)
         /\ Rel(p, p \o r) = r
         /\ \A i \in 0..Len(p) : SubSeq(p \o r, 1, i) = SubSeq(p, 1, i)
         /\ \A i \in 0..Len(p) : SubSeq(p \o r, i + 1, Len(p \o r)) = SubSeq(p, i + 1, Len(p)) \o r
         /\ \A i \in 0..Len(r) : SubSeq(p \o r, 1, Len(p) + i) = p \o SubSeq(r, 1, i)
<1>1. p \o r \in Path /\ Len(p \o r) = Len(p) + Len(r)
  BY DEF Path
<1>2. Rel(p, p \o r) = r
  BY DEF Path, Rel
<1>3. \A i \in 0..Len(p) : SubSeq(p \o r, 1, i) = SubSeq(p, 1, i)
  BY DEF Path
<1>4. ASSUME NEW i \in 0..Len(p)
      PROVE  SubSeq(p \o r, i + 1, Len(p \o r)) = SubSeq(p, i + 1, Len(p)) \o r
  <2> DEFINE a == SubSeq(p, i + 1, Len(p))
             b == SubSeq(p \o r, i + 1, Len(p \o r))
  <2>1. a \in Path /\ Len(a) = Len(p) - i /\ \A j \in 1..Len(p) - i : a[j] = p[i + j]
    BY DEF Path
  <2>2. b \in Path /\ Len(b) = Len(p) + Len(r) - i /\ \A j \in 1..Len(p) + Len(r) - i : b[j] = (p \o r)[i + j]
    BY <1>1 DEF Path
  <2> HIDE DEF a, b
  <2>3. a \o r \in Path /\ Len(a \o r) = Len(a) + Len(r)
        /\ \A j \in 1..Len(a) + Len(r) : (a \o r)[j] = IF j <= Len(a) THEN a[j] ELSE r[j - Len(a)]
    BY <2>1, ConcatProperties DEF Path
  <2>4. \A j \in 1..Len(p) + Len(r) : (p \o r)[j] = IF j <= Len(p) THEN p[j] ELSE r[j - Len(p)]
    BY ConcatProperties DEF Path
  <2>5. ASSUME NEW j \in 1..Len(b)
        PROVE  b[j] = (a \o r)[j]
    BY <2>1, <2>2, <2>3, <2>4 DEF Path
  <2>6. Len(b) = Len(a \o r)
    BY <2>1, <2>2, <2>3 DEF Path
  <2>7. b = a \o r
    BY <2>2, <2>3, <2>5, <2>6, SeqEqual, Zenon DEF Path
  <2> QED BY <2>7 DEF a, b
<1>5. \A i \in 0..Len(r) : SubSeq(p \o r, 1, Len(p) + i) = p \o SubSeq(r, 1, i)
  BY DEF Path
<1> QED BY <1>1, <1>2, <1>3, <1>4, <1>5

(* The rest of a path below its prefix.                                    *)
LEMMA PrefixRest ==
  ASSUME NEW p \in Path, NEW q \in Path, IsPrefix(p, q)
  PROVE  Rel(p, q) \in Path /\ q = p \o Rel(p, q)
<1>1. Len(p) \in 0..Len(q) /\ SubSeq(q, 1, Len(p)) = p
  BY DEF IsPrefix, Path
<1> QED BY <1>1, PathPart DEF Rel

(* Below the directory of p, what is below p goes with it.                 *)
LEMMA RelBelow ==
  ASSUME NEW p \in Path, NEW r \in Path
  PROVE  Rel(Dir(p), p) \in Path /\ Rel(Dir(p), p \o r) = Rel(Dir(p), p) \o r
<1>1. PICK i \in 0..Len(p) : Len(Dir(p)) = i
  <2>1. CASE p = <<>>
    BY <2>1 DEF Dir, Path
  <2>2. CASE p # <<>>
    <3>1. Len(p) - 1 \in 0..Len(p)
      BY <2>2 DEF Path
    <3> QED BY <2>2, <3>1, PathPart DEF Dir, Front
  <2> QED BY <2>1, <2>2
<1> QED BY <1>1, PathJoin, PathPart DEF Rel

(* Paths are put together in any order.                                    *)
LEMMA PathAssoc ==
  ASSUME NEW p \in Path, NEW q \in Path, NEW r \in Path
  PROVE  p \o (q \o r) = (p \o q) \o r
BY ConcatAssociative DEF Path

(* Paths below two, neither of which is above the other, differ.           *)
LEMMA PathsApart ==
  ASSUME NEW p \in Path, NEW q \in Path, NEW r \in Path, NEW u \in Path,
         ~IsPrefix(p, q), ~IsPrefix(q, p)
  PROVE  p \o r # q \o u
<1> SUFFICES ASSUME p \o r = q \o u
             PROVE  FALSE
  OBVIOUS
<1>1. ASSUME Len(p) <= Len(q)
      PROVE  FALSE
  <2>1. Len(p) \in 0..Len(p) /\ Len(p) \in 0..Len(q)
    BY <1>1 DEF Path
  <2>2. SubSeq(q \o u, 1, Len(p)) = SubSeq(q, 1, Len(p)) /\ SubSeq(p \o r, 1, Len(p)) = SubSeq(p, 1, Len(p))
    BY <2>1, PathJoin
  <2> QED BY <1>1, <2>2 DEF IsPrefix
<1>2. ASSUME Len(q) <= Len(p)
      PROVE  FALSE
  <2>1. Len(q) \in 0..Len(p) /\ Len(q) \in 0..Len(q)
    BY <1>2 DEF Path
  <2>2. SubSeq(q \o u, 1, Len(q)) = SubSeq(q, 1, Len(q)) /\ SubSeq(p \o r, 1, Len(q)) = SubSeq(p, 1, Len(q))
    BY <2>1, PathJoin
  <2> QED BY <1>2, <2>2 DEF IsPrefix
<1> QED BY <1>1, <1>2 DEF Path

-----------------------------------------------------------------------------
(* Where a path leads.                                                     *)
LinkAt(t, p, i) ==
  /\ i \in 1..Len(p) /\ Is(t, SubSeq(p, 1, i), "link")
  /\ \A j \in 1..i-1 : ~Is(t, SubSeq(p, 1, j), "link")
Beyond(t, p, i) ==
  LET to == t[SubSeq(p, 1, i)].to
  IN (IF to.abs THEN <<>> ELSE SubSeq(p, 1, i - 1)) \o to.p \o SubSeq(p, i + 1, Len(p))
NoLink(t, p) == \A i \in 1..Len(p) : ~Is(t, SubSeq(p, 1, i), "link")

(* A path through links has a first one.                                   *)
LEMMA FirstLink ==
  ASSUME NEW t, NEW p \in Path
  PROVE  NoLink(t, p) \/ \E i : LinkAt(t, p, i)
<1> DEFINE T == {i \in 1..Len(p) : Is(t, SubSeq(p, 1, i), "link")}
<1> SUFFICES ASSUME ~NoLink(t, p)
             PROVE  \E i : LinkAt(t, p, i)
  OBVIOUS
<1>1. T # {} /\ T \subseteq Nat
  BY DEF NoLink
<1>2. PICK i \in T : \A j \in T : i <= j
  BY <1>1, LeastNumber
<1>3. ASSUME NEW j \in 1..i-1
      PROVE  ~Is(t, SubSeq(p, 1, j), "link")
  BY <1>2 DEF Path
<1> QED BY <1>2, <1>3 DEF LinkAt

(* Real follows the first link of a path,                                  *)
LEMMA RealAtLink ==
  ASSUME NEW t, NEW p \in Path, NEW i, LinkAt(t, p, i)
  PROVE  Real(t, p) = Beyond(t, p, i)
<1> DEFINE P(k) == /\ k \in 1..Len(p) /\ Is(t, SubSeq(p, 1, k), "link")
                   /\ \A j \in 1..k-1 : ~Is(t, SubSeq(p, 1, j), "link")
           k == CHOOSE k \in 1..Len(p) : /\ Is(t, SubSeq(p, 1, k), "link")
                                         /\ \A j \in 1..k-1 : ~Is(t, SubSeq(p, 1, j), "link")
<1>1. P(i)
  BY DEF LinkAt
<1>2. P(k)
  BY <1>1, Zenon
<1>3. ~\A j \in 1..Len(p) : ~Is(t, SubSeq(p, 1, j), "link")
  BY <1>1
<1>4. Real(t, p) = Beyond(t, p, k)
  BY <1>3, Zenon DEF Real, Beyond
<1> HIDE DEF k
<1>5. k = i
  BY <1>1, <1>2 DEF Path
<1> QED BY <1>4, <1>5

(* and leaves a path without one as it is.                                 *)
LEMMA RealNoLink ==
  ASSUME NEW t, NEW p, NoLink(t, p)
  PROVE  Real(t, p) = p
BY Zenon DEF Real, NoLink

(* The file that a path leads to is at a path.                             *)
LEMMA RealIsPath ==
  ASSUME NEW t, IsTree(t), NEW p \in Path
  PROVE  Real(t, p) \in Path /\ Entry(t, p) \in Path
<1>1. ASSUME NEW q \in Path
      PROVE  Real(t, q) \in Path
  <2>1. CASE NoLink(t, q)
    BY <2>1, RealNoLink
  <2>2. ASSUME NEW i, LinkAt(t, q, i)
        PROVE  Real(t, q) \in Path
    <3>1. i \in 1..Len(q) /\ SubSeq(q, 1, i) \in DOMAIN t
      BY <2>2 DEF LinkAt, Is
    <3>2. PICK to : to = t[SubSeq(q, 1, i)].to
      OBVIOUS
    <3>3. to.p \in Path
      BY <3>1, <3>2 DEF IsTree, IsNode, PathArg
    <3>4. i \in 0..Len(q) /\ i - 1 \in 0..Len(q)
      BY <3>1 DEF Path
    <3>5. SubSeq(q, 1, i - 1) \in Path /\ SubSeq(q, i + 1, Len(q)) \in Path /\ <<>> \in Path
      BY <3>4, PathPart DEF Path
    <3>6. Real(t, q) = (IF to.abs THEN <<>> ELSE SubSeq(q, 1, i - 1)) \o to.p \o SubSeq(q, i + 1, Len(q))
      BY <2>2, <3>2, RealAtLink DEF Beyond
    <3>7. PICK a \in Path : a = IF to.abs THEN <<>> ELSE SubSeq(q, 1, i - 1)
      BY <3>5
    <3>8. Real(t, q) = (a \o to.p) \o SubSeq(q, i + 1, Len(q))
      BY <3>6, <3>7
    <3>9. PICK b \in Path, c \in Path : b = to.p /\ c = SubSeq(q, i + 1, Len(q))
      BY <3>3, <3>5
    <3>10. PICK d \in Path : d = a \o b
      BY PathJoin
    <3>11. d \o c \in Path
      BY PathJoin
    <3> QED BY <3>8, <3>9, <3>10, <3>11
  <2> QED BY <2>1, <2>2, FirstLink
<1>2. CASE p = <<>>
  BY <1>1, <1>2 DEF Entry
<1>3. CASE p # <<>>
  <2>1. Front(p) \in Path /\ p[Len(p)] \in Range(Names)
    BY <1>3 DEF Path, Front
  <2>2. Real(t, Front(p)) \in Path
    BY <1>1, <2>1
  <2> QED BY <1>1, <1>3, <2>1, <2>2, AppendProperties DEF Entry, Path
<1> QED BY <1>1, <1>2, <1>3

(* It is the entry itself, unless that is a link.                          *)
LEMMA RealIsEntry ==
  ASSUME NEW t, IsTree(t), NEW p \in Path, ~Is(t, Entry(t, p), "link")
  PROVE  Real(t, p) = Entry(t, p)
<1>1. CASE p = <<>>
  BY <1>1, RealNoLink DEF NoLink, Entry
<1>2. CASE p # <<>>
  <2>1. PICK q, r : q = Front(p) /\ r = <<p[Len(p)]>>
    OBVIOUS
  <2>2. q \in Path /\ r \in Path /\ p = q \o r /\ Len(q) = Len(p) - 1 /\ Len(p) \in Nat /\ Len(r) = 1
    BY <1>2, <2>1 DEF Front, Path
  <2>3. Entry(t, p) = Real(t, q) \o r
    <3>1. PICK d \in Path : d = Real(t, q)
      BY <2>2, RealIsPath
    <3>2. Append(d, p[Len(p)]) = d \o r
      BY <2>1, AppendIsConcat DEF Path
    <3> QED BY <1>2, <2>1, <3>1, <3>2 DEF Entry
  <2>4. \A i \in 0..Len(q) : /\ SubSeq(p, 1, i) = SubSeq(q, 1, i)
                             /\ SubSeq(p, i + 1, Len(p)) = SubSeq(q, i + 1, Len(q)) \o r
    <3>1. \A i \in 0..Len(q) : SubSeq(q \o r, 1, i) = SubSeq(q, 1, i)
      BY <2>2, PathJoin
    <3>2. \A i \in 0..Len(q) : SubSeq(q \o r, i + 1, Len(q \o r)) = SubSeq(q, i + 1, Len(q)) \o r
      BY <2>2, PathJoin
    <3>3. q \o r = p
      BY <2>2
    <3> QED BY <3>1, <3>2, <3>3
  <2>5. CASE NoLink(t, q)
    <3>1. Entry(t, p) = p
      BY <2>2, <2>3, <2>5, RealNoLink
    <3>2. SubSeq(p, 1, Len(p)) = p
      BY DEF Path
    <3>3. \A i \in 1..Len(p) : i = Len(p) \/ (i \in 1..Len(q) /\ i \in 0..Len(q))
      BY <2>2
    <3>4. NoLink(t, p)
      BY <2>4, <2>5, <3>1, <3>2, <3>3 DEF NoLink
    <3> QED BY <3>1, <3>4, RealNoLink
  <2>6. ASSUME NEW i, LinkAt(t, q, i)
        PROVE  Real(t, p) = Entry(t, p)
    <3>1. i \in 1..Len(q) /\ i \in 0..Len(q) /\ i - 1 \in 0..Len(q) /\ \A j \in 1..i-1 : j \in 0..Len(q)
      BY <2>2, <2>6 DEF LinkAt
    <3>2. i \in 1..Len(p)
      BY <2>2, <3>1
    <3>3. LinkAt(t, p, i)
      BY <2>4, <2>6, <3>1, <3>2 DEF LinkAt
    <3>4. SubSeq(q, 1, i) \in DOMAIN t
      BY <2>6 DEF LinkAt, Is
    <3>5. PICK to : to = t[SubSeq(q, 1, i)].to
      OBVIOUS
    <3>6. PICK a \in Path : a = IF to.abs THEN <<>> ELSE SubSeq(q, 1, i - 1)
      <4>1. SubSeq(q, 1, i - 1) \in Path
        BY <2>2, <3>1, PathPart
      <4>2. <<>> \in Path
        BY DEF Path
      <4> QED BY <4>1, <4>2
    <3>7. PICK b \in Path : b = to.p
      BY <3>4, <3>5 DEF IsTree, IsNode, PathArg
    <3>8. PICK c \in Path : c = SubSeq(q, i + 1, Len(q))
      BY <2>2, <3>1, PathPart
    <3>9. SubSeq(p, 1, i) = SubSeq(q, 1, i) /\ SubSeq(p, 1, i - 1) = SubSeq(q, 1, i - 1)
          /\ SubSeq(p, i + 1, Len(p)) = c \o r
      BY <2>4, <3>1, <3>8
    <3>10. Real(t, q) = a \o b \o c
      BY <2>2, <2>6, <3>5, <3>6, <3>7, <3>8, RealAtLink DEF Beyond
    <3>11. Real(t, p) = a \o b \o (c \o r)
      <4>1. Real(t, p) = Beyond(t, p, i)
        BY <3>3, RealAtLink
      <4>2. Beyond(t, p, i) = (IF t[SubSeq(p, 1, i)].to.abs THEN <<>> ELSE SubSeq(p, 1, i - 1))
                                \o t[SubSeq(p, 1, i)].to.p \o SubSeq(p, i + 1, Len(p))
        BY DEF Beyond
      <4>3. t[SubSeq(p, 1, i)].to = to /\ SubSeq(p, 1, i - 1) = SubSeq(q, 1, i - 1)
            /\ SubSeq(p, i + 1, Len(p)) = c \o r
        BY <3>5, <3>9
      <4>4. Beyond(t, p, i) = (IF to.abs THEN <<>> ELSE SubSeq(q, 1, i - 1)) \o to.p \o (c \o r)
        BY <4>2, <4>3, Zenon
      <4> QED BY <3>6, <3>7, <4>1, <4>4, Zenon
    <3>12. PICK d \in Path : d = a \o b
      BY PathJoin
    <3>13. d \o (c \o r) = (d \o c) \o r
      BY <2>2, PathAssoc
    <3> QED BY <2>3, <3>10, <3>11, <3>12, <3>13
  <2> QED BY <2>2, <2>5, <2>6, FirstLink
<1> QED BY <1>1, <1>2

(* Below a place that has no link below it, all paths lead to one place.   *)
LEMMA RealBelow ==
  ASSUME NEW t, IsTree(t), NEW p \in Path, NEW r \in Path,
         \A q \in DOMAIN t : q # p /\ IsPrefix(p, q) => ~Is(t, q, "link")
  PROVE  Real(t, p \o r) = Real(t, p) \o r
<1>1. ASSUME NEW i \in 1..Len(p \o r), Is(t, SubSeq(p \o r, 1, i), "link")
      PROVE  i \in 1..Len(p)
  <2> SUFFICES ASSUME i > Len(p)
               PROVE  FALSE
    BY DEF Path
  <2>1. i - Len(p) \in 0..Len(r) /\ i = Len(p) + (i - Len(p))
    BY PathJoin DEF Path
  <2>2. SubSeq(p \o r, 1, i) = p \o SubSeq(r, 1, i - Len(p))
    BY <2>1, PathJoin
  <2>3. SubSeq(r, 1, i - Len(p)) \in Path /\ Len(SubSeq(r, 1, i - Len(p))) = i - Len(p)
    BY <2>1, PathPart
  <2>4. PICK u \in Path : Len(u) = i - Len(p) /\ SubSeq(p \o r, 1, i) = p \o u
    BY <2>2, <2>3
  <2>5. Len(p \o u) = Len(p) + Len(u) /\ SubSeq(p \o u, 1, Len(p)) = SubSeq(p, 1, Len(p))
    BY PathJoin DEF Path
  <2>6. p \o u # p /\ IsPrefix(p, p \o u)
    BY <2>4, <2>5 DEF IsPrefix, Path
  <2> QED BY <1>1, <2>4, <2>6 DEF Is
<1>2. \A i \in 1..Len(p) : i \in 0..Len(p) /\ i - 1 \in 0..Len(p)
  BY DEF Path
<1>3. \A i \in 1..Len(p) : SubSeq(p \o r, 1, i) = SubSeq(p, 1, i)
  BY <1>2, PathJoin
<1>4. CASE NoLink(t, p \o r)
  <2>1. \A i \in 1..Len(p) : i \in 1..Len(p \o r)
    BY PathJoin DEF Path
  <2>2. NoLink(t, p)
    BY <1>3, <1>4, <2>1 DEF NoLink
  <2> QED BY <1>4, <2>2, RealNoLink
<1>5. ASSUME NEW i, LinkAt(t, p \o r, i)
      PROVE  Real(t, p \o r) = Real(t, p) \o r
  <2>1. i \in 1..Len(p)
    BY <1>1, <1>5 DEF LinkAt
  <2>2. LinkAt(t, p, i)
    <3>1. \A j \in 1..i-1 : j \in 1..Len(p)
      BY <2>1 DEF Path
    <3> QED BY <1>3, <1>5, <2>1, <3>1 DEF LinkAt
  <2>3. PICK to : to = t[SubSeq(p, 1, i)].to
    OBVIOUS
  <2>4. PICK a : a = IF to.abs THEN <<>> ELSE SubSeq(p, 1, i - 1)
    OBVIOUS
  <2>5. a \in Path /\ to.p \in Path /\ SubSeq(p, i + 1, Len(p)) \in Path
    <3>1. to.p \in Path
      BY <2>2, <2>3 DEF LinkAt, Is, IsTree, IsNode, PathArg
    <3>2. <<>> \in Path
      BY DEF Path
    <3> QED BY <1>2, <2>1, <2>4, <3>1, <3>2, PathPart
  <2>6. Real(t, p) = a \o to.p \o SubSeq(p, i + 1, Len(p))
    BY <2>2, <2>3, <2>4, RealAtLink DEF Beyond
  <2>7. SubSeq(p \o r, 1, i - 1) = SubSeq(p, 1, i - 1)
        /\ SubSeq(p \o r, i + 1, Len(p \o r)) = SubSeq(p, i + 1, Len(p)) \o r
    BY <1>2, <2>1, PathJoin
  <2>8. Real(t, p \o r) = Beyond(t, p \o r, i)
    BY <1>5, PathJoin, RealAtLink
  <2>9. Beyond(t, p \o r, i) = a \o to.p \o (SubSeq(p, i + 1, Len(p)) \o r)
    BY <1>3, <2>1, <2>3, <2>4, <2>7, Zenon DEF Beyond
  <2>10. PICK c \in Path : c = a \o to.p
    BY <2>5, PathJoin
  <2>11. PICK x \in Path : x = SubSeq(p, i + 1, Len(p))
    BY <2>5
  <2>12. c \o (x \o r) = (c \o x) \o r
    BY PathAssoc
  <2> QED BY <2>6, <2>8, <2>9, <2>10, <2>11, <2>12
<1> QED BY <1>4, <1>5, FirstLink, PathJoin

-----------------------------------------------------------------------------
(* What a copy does to a tree: it removes nothing, makes no link, and      *)
(* changes the data of the files E only.                                   *)
Grown(t, u, E) ==
  /\ IsTree(u) /\ DOMAIN t \subseteq DOMAIN u
  /\ \A q \in DOMAIN t : /\ u[q].kind = t[q].kind /\ u[q].to = t[q].to
                         /\ q \notin E => u[q].data = t[q].data
  /\ \A q \in DOMAIN u \ DOMAIN t : u[q].kind # "link"

(* A copy leaves every path leading where it led.                          *)
LEMMA GrownLinks ==
  ASSUME NEW t, NEW u, NEW E, Grown(t, u, E)
  PROVE  /\ \A q : Is(t, q, "link") <=> Is(u, q, "link")
         /\ \A p \in Path : Real(u, p) = Real(t, p)
<1>1. \A q : Is(t, q, "link") <=> Is(u, q, "link")
  BY DEF Grown, Is
<1>2. ASSUME NEW p \in Path
      PROVE  Real(u, p) = Real(t, p)
  <2>1. CASE NoLink(t, p)
    BY <1>1, <2>1, RealNoLink DEF NoLink
  <2>2. ASSUME NEW i, LinkAt(t, p, i)
        PROVE  Real(u, p) = Real(t, p)
    <3>1. LinkAt(u, p, i)
      BY <1>1, <2>2 DEF LinkAt
    <3>2. u[SubSeq(p, 1, i)].to = t[SubSeq(p, 1, i)].to
      BY <2>2 DEF LinkAt, Is, Grown
    <3>3. Beyond(t, p, i) = Beyond(u, p, i)
      BY <3>2, Zenon DEF Beyond
    <3> QED BY <2>2, <3>1, <3>3, RealAtLink
  <2> QED BY <2>1, <2>2, FirstLink
<1> QED BY <1>1, <1>2

(* What a tree is, has grown to and may have changed.                      *)
LEMMA GrownSame ==
  ASSUME NEW t, IsTree(t), NEW E
  PROVE  Grown(t, t, E)
BY DEF Grown

LEMMA GrownTwice ==
  ASSUME NEW t, NEW u, NEW v, NEW E, Grown(t, u, E), Grown(u, v, E)
  PROVE  Grown(t, v, E)
BY DEF Grown

LEMMA GrownMore ==
  ASSUME NEW t, NEW u, NEW E, Grown(t, u, {})
  PROVE  Grown(t, u, E)
BY DEF Grown

-----------------------------------------------------------------------------
(* The nodes that requests make.                                           *)
LEMMA NewNodes ==
  /\ IsNode(Directory) /\ Directory.kind # "link"
  /\ IsNode(File(<<>>)) /\ File(<<>>).kind # "link" /\ File(<<>>).data = <<>>
  /\ \A to \in PathArg : IsNode(Link(to))
<1>1. Arg(TRUE, <<>>) \in PathArg
  BY DEF Arg, PathArg, Path
<1>2. ASSUME NEW kind, NEW to \in PathArg
      PROVE  IsNode(Node(kind, <<>>, to)) /\ Node(kind, <<>>, to).kind = kind /\ Node(kind, <<>>, to).data = <<>>
  BY DEF IsNode, Node
<1>3. IsNode(Directory) /\ Directory.kind = "dir"
  BY <1>1, <1>2 DEF Directory
<1>4. IsNode(File(<<>>)) /\ File(<<>>).kind = "file" /\ File(<<>>).data = <<>>
  BY <1>1, <1>2 DEF File
<1>5. \A to \in PathArg : IsNode(Link(to))
  BY <1>2 DEF Link
<1> QED BY <1>3, <1>4, <1>5

(* A node with another field.                                              *)
LEMMA NodeFields ==
  ASSUME NEW x, IsNode(x)
  PROVE  /\ \A d \in Seq(Nat) : LET y == [x EXCEPT !.data = d]
                                IN IsNode(y) /\ y.kind = x.kind /\ y.to = x.to /\ y.data = d
         /\ \A m : LET y == [x EXCEPT !.mode = m]
                   IN IsNode(y) /\ y.kind = x.kind /\ y.to = x.to /\ y.data = x.data
         /\ \A o : IsNode([x EXCEPT !.own = o])
<1>1. PICK kind, data, to, mode, own :
        /\ data \in Seq(Nat) /\ to \in PathArg
        /\ x = [kind |-> kind, data |-> data, to |-> to, mode |-> mode, own |-> own]
  BY DEF IsNode
<1>2. ASSUME NEW d \in Seq(Nat)
      PROVE  LET y == [x EXCEPT !.data = d]
             IN IsNode(y) /\ y.kind = x.kind /\ y.to = x.to /\ y.data = d
  <2>1. [x EXCEPT !.data = d] = [kind |-> kind, data |-> d, to |-> to, mode |-> mode, own |-> own]
    BY <1>1
  <2> QED BY <1>1, <2>1 DEF IsNode
<1>3. ASSUME NEW m
      PROVE  LET y == [x EXCEPT !.mode = m]
             IN IsNode(y) /\ y.kind = x.kind /\ y.to = x.to /\ y.data = x.data
  <2>1. [x EXCEPT !.mode = m] = [kind |-> kind, data |-> data, to |-> to, mode |-> m, own |-> own]
    BY <1>1, SMTT(60)
  <2> QED BY <1>1, <2>1 DEF IsNode
<1>4. ASSUME NEW o
      PROVE  IsNode([x EXCEPT !.own = o])
  <2>1. [x EXCEPT !.own = o] = [kind |-> kind, data |-> data, to |-> to, mode |-> mode, own |-> o]
    BY <1>1
  <2> QED BY <1>1, <2>1 DEF IsNode
<1> QED BY <1>2, <1>3, <1>4

(* One node of a tree is replaced.                                         *)
LEMMA NodeReplaced ==
  ASSUME NEW t, IsTree(t), NEW r \in DOMAIN t, NEW y, IsNode(y)
  PROVE  LET u == [t EXCEPT ![r] = y]
         IN /\ IsTree(u) /\ DOMAIN u = DOMAIN t /\ u[r] = y
            /\ y.kind = t[r].kind /\ y.to = t[r].to => Grown(t, u, {r})
            /\ y.kind = t[r].kind /\ y.to = t[r].to /\ y.data = t[r].data => Grown(t, u, {})
<1> DEFINE u == [t EXCEPT ![r] = y]
<1>1. DOMAIN u = DOMAIN t /\ u = [q \in DOMAIN t |-> u[q]] /\ u[r] = y /\ \A q \in DOMAIN t : q # r => u[q] = t[q]
  BY DEF IsTree
<1> HIDE DEF u
<1>2. IsTree(u)
  BY <1>1 DEF IsTree
<1>3. y.kind = t[r].kind /\ y.to = t[r].to => Grown(t, u, {r})
  BY <1>1, <1>2 DEF Grown
<1>4. y.kind = t[r].kind /\ y.to = t[r].to /\ y.data = t[r].data => Grown(t, u, {})
  BY <1>1, <1>2 DEF Grown
<1> QED BY <1>1, <1>2, <1>3, <1>4 DEF u

(* A tree with one more node.                                              *)
LEMMA PutGrown ==
  ASSUME NEW t, IsTree(t), NEW e \in Path, e \notin DOMAIN t, NEW x, IsNode(x)
  PROVE  /\ IsTree(Put(t, e, x)) /\ e \in DOMAIN Put(t, e, x) /\ Put(t, e, x)[e] = x
         /\ x.kind # "link" => Grown(t, Put(t, e, x), {})
<1> DEFINE u == Put(t, e, x)
<1>1. DOMAIN u = DOMAIN t \cup {e} /\ u = [q \in DOMAIN u |-> u[q]] /\ u[e] = x /\ \A q \in DOMAIN t : u[q] = t[q]
  BY DEF Put
<1> HIDE DEF u
<1>2. IsTree(u)
  BY <1>1 DEF IsTree
<1>3. x.kind # "link" => Grown(t, u, {})
  BY <1>1, <1>2 DEF Grown
<1> QED BY <1>1, <1>2, <1>3 DEF u

(* The requests of a copy: each makes a tree grow, and open and write      *)
(* change the data of one file.                                            *)
LEMMA MkdirGrown ==
  ASSUME NEW t, IsTree(t), NEW p \in Path
  PROVE  Grown(t, Mkdir(t, p), {})
<1>1. Entry(t, p) \in Path
  BY RealIsPath
<1>2. CASE CanMkdir(t, p)
  <2>1. Entry(t, p) \notin DOMAIN t
    BY <1>2 DEF CanMkdir
  <2> QED BY <1>1, <1>2, <2>1, NewNodes, PutGrown DEF Mkdir
<1> QED BY <1>2, GrownSame DEF Mkdir

LEMMA MkdirAllGrown ==
  ASSUME NEW t, IsTree(t), NEW p \in Path
  PROVE  Grown(t, MkdirAll(t, p), {})
<1>1. Real(t, p) \in Path
  BY RealIsPath
<1>2. PICK r \in Path : r = Real(t, p)
  BY <1>1
<1>3. PICK new : new = {SubSeq(r, 1, i) : i \in 0..Len(r)} \ DOMAIN t
  OBVIOUS
<1>4. new \subseteq Path /\ new \cap DOMAIN t = {}
  <2>1. \A i \in 0..Len(r) : SubSeq(r, 1, i) \in Path
    BY PathPart
  <2> QED BY <1>3, <2>1
<1>5. PICK u : u = [q \in DOMAIN t \cup new |-> IF q \in new THEN Directory ELSE t[q]]
  OBVIOUS
<1>6. /\ DOMAIN u = DOMAIN t \cup new /\ u = [q \in DOMAIN u |-> u[q]]
      /\ \A q \in new : u[q] = Directory
      /\ \A q \in DOMAIN t : u[q] = t[q]
  BY <1>4, <1>5
<1>7. IsTree(u)
  BY <1>4, <1>6, NewNodes DEF IsTree
<1>8. Grown(t, u, {})
  BY <1>6, <1>7, NewNodes DEF Grown
<1>9. MkdirAll(t, p) = IF CanMkdirAll(t, p) THEN u ELSE t
  BY <1>2, <1>3, <1>5, Zenon DEF MkdirAll
<1> QED BY <1>8, <1>9, GrownSame

LEMMA ChmodGrown ==
  ASSUME NEW t, IsTree(t), NEW p, NEW mode
  PROVE  Grown(t, Chmod(t, p, mode), {})
<1>1. CASE Real(t, p) \in DOMAIN t
  <2>1. PICK r \in DOMAIN t : r = Real(t, p)
    BY <1>1
  <2>2. PICK y : y = [t[r] EXCEPT !.mode = mode]
    OBVIOUS
  <2>3. IsNode(y) /\ y.kind = t[r].kind /\ y.to = t[r].to /\ y.data = t[r].data
    BY <2>2, NodeFields DEF IsTree
  <2>4. Chmod(t, p, mode) = [t EXCEPT ![r] = y]
    BY <2>1, <2>2 DEF Chmod
  <2> QED BY <2>3, <2>4, NodeReplaced
<1> QED BY <1>1, GrownSame DEF Chmod

LEMMA TruncatedGrown ==
  ASSUME NEW t, IsTree(t), NEW p \in Path
  PROVE  /\ Grown(t, Truncated(t, p), {Real(t, p)})
         /\ Real(t, p) \in DOMAIN Truncated(t, p) /\ Truncated(t, p)[Real(t, p)].data = <<>>
<1>1. PICK r \in Path : r = Real(t, p)
  BY RealIsPath
<1>2. CASE r \in DOMAIN t
  <2>1. PICK y : y = [t[r] EXCEPT !.data = <<>>]
    OBVIOUS
  <2>2. IsNode(y) /\ y.kind = t[r].kind /\ y.to = t[r].to /\ y.data = <<>>
    <3>1. <<>> \in Seq(Nat)
      OBVIOUS
    <3> QED BY <1>2, <2>1, <3>1, NodeFields DEF IsTree
  <2>3. Truncated(t, p) = [t EXCEPT ![r] = y]
    BY <1>1, <1>2, <2>1 DEF Truncated
  <2>4. Grown(t, [t EXCEPT ![r] = y], {r}) /\ [t EXCEPT ![r] = y][r] = y
    BY <1>2, <2>2, NodeReplaced
  <2>5. r \in DOMAIN [t EXCEPT ![r] = y]
    BY <1>2, Zenon
  <2>6. PICK u : u = [t EXCEPT ![r] = y]
    OBVIOUS
  <2>7. Grown(t, u, {r}) /\ r \in DOMAIN u /\ u[r].data = <<>>
    BY <2>2, <2>4, <2>5, <2>6
  <2>8. Truncated(t, p) = u
    BY <2>3, <2>6
  <2> QED BY <1>1, <2>7, <2>8
<1>3. CASE r \notin DOMAIN t
  <2>1. Truncated(t, p) = Put(t, r, File(<<>>))
    BY <1>1, <1>3 DEF Truncated
  <2> QED BY <1>1, <1>3, <2>1, NewNodes, PutGrown, GrownMore
<1> QED BY <1>2, <1>3

LEMMA WrittenGrown ==
  ASSUME NEW t, IsTree(t), NEW p \in Path, NEW i \in Nat, NEW c \in Nat
  PROVE  /\ Grown(t, Written(t, p, i, c), {Real(t, p)})
         /\ Real(t, p) \in DOMAIN t /\ i = Len(t[Real(t, p)].data)
              => Written(t, p, i, c)[Real(t, p)].data = Append(t[Real(t, p)].data, c)
<1>1. PICK r : r = Real(t, p)
  OBVIOUS
<1>2. PICK d : d = IF i < Len(t[r].data) THEN [t[r].data EXCEPT ![i + 1] = c] ELSE Append(t[r].data, c)
  OBVIOUS
<1>3. CASE r \in DOMAIN t
  <2>1. PICK e \in Seq(Nat) : e = t[r].data
    BY <1>3 DEF IsTree, IsNode
  <2>2. d \in Seq(Nat) /\ (i = Len(e) => d = Append(e, c))
    BY <1>2, <2>1
  <2>3. PICK y : y = [t[r] EXCEPT !.data = d]
    OBVIOUS
  <2>4. IsNode(y) /\ y.kind = t[r].kind /\ y.to = t[r].to /\ y.data = d
    BY <1>3, <2>2, <2>3, NodeFields DEF IsTree
  <2>5. Written(t, p, i, c) = [t EXCEPT ![r] = y]
    BY <1>1, <1>2, <2>3 DEF Written
  <2>6. Grown(t, [t EXCEPT ![r] = y], {r}) /\ [t EXCEPT ![r] = y][r] = y
    BY <1>3, <2>4, NodeReplaced
  <2>7. i = Len(t[r].data) => y.data = Append(t[r].data, c)
    BY <2>1, <2>2, <2>4
  <2> QED BY <1>1, <2>5, <2>6, <2>7
<1>4. CASE r \notin DOMAIN t
  <2>1. Written(t, p, i, c) = t
    BY <1>1, <1>4 DEF Written, IsTree
  <2> QED BY <1>1, <1>4, <2>1, GrownSame
<1> QED BY <1>3, <1>4

(* The other requests leave a tree, too.                                   *)
LEMMA RemovedTree ==
  ASSUME NEW t, IsTree(t), NEW p
  PROVE  IsTree(Removed(t, p))
<1> DEFINE u(e) == [q \in DOMAIN t \ {e} |-> t[q]]
<1>1. \A e : DOMAIN u(e) = DOMAIN t \ {e} /\ \A q \in DOMAIN t \ {e} : u(e)[q] = t[q]
  OBVIOUS
<1>2. \A e : IsTree(u(e))
  BY <1>1 DEF IsTree
<1> QED BY <1>2, Zenon DEF Removed

LEMMA SymlinkTree ==
  ASSUME NEW t, IsTree(t), NEW p \in Path, NEW to \in PathArg
  PROVE  IsTree(Symlink(t, to, p))
<1>1. CASE CanMkdir(t, p)
  <2>1. Entry(t, p) \in Path /\ Entry(t, p) \notin DOMAIN t
    BY <1>1, RealIsPath DEF CanMkdir
  <2> QED BY <1>1, <2>1, NewNodes, PutGrown DEF Symlink
<1> QED BY <1>1 DEF Symlink

LEMMA ChownTree ==
  ASSUME NEW t, IsTree(t), NEW p, NEW own
  PROVE  IsTree(Chown(t, p, own))
<1>1. CASE Real(t, p) \in DOMAIN t
  <2>1. PICK r \in DOMAIN t : r = Real(t, p)
    BY <1>1
  <2>2. PICK y : y = [t[r] EXCEPT !.own = own]
    OBVIOUS
  <2>3. IsNode(y)
    BY <2>2, NodeFields DEF IsTree
  <2>4. Chown(t, p, own) = [t EXCEPT ![r] = y]
    BY <2>1, <2>2 DEF Chown
  <2> QED BY <2>3, <2>4, NodeReplaced
<1> QED BY <1>1 DEF Chown

LEMMA RenameTree ==
  ASSUME NEW t, IsTree(t), NEW old \in Path, NEW new \in Path
  PROVE  IsTree(Rename(t, old, new))
<1> DEFINE a == Entry(t, old)
           b == Entry(t, new)
           moved == {q \in DOMAIN t : IsPrefix(a, q)}
           at == [q \in DOMAIN t |-> IF q \in moved THEN b \o Rel(a, q) ELSE q]
           u == [p \in {at[q] : q \in DOMAIN t} |-> t[CHOOSE q \in DOMAIN t : at[q] = p]]
<1>1. Rename(t, old, new) = IF ~CanRename(t, old, new) THEN t ELSE u
  BY Zenon DEF Rename
<1>2. a \in Path /\ b \in Path
  BY RealIsPath
<1>9. \A q \in DOMAIN t : at[q] = IF IsPrefix(a, q) THEN b \o Rel(a, q) ELSE q
  OBVIOUS
<1> HIDE DEF a, b, at
<1>3. ASSUME NEW q \in DOMAIN t
      PROVE  at[q] \in Path
  <2>1. q \in Path
    BY DEF IsTree
  <2>2. CASE IsPrefix(a, q)
    <3>1. Rel(a, q) \in Path
      BY <1>2, <2>1, <2>2, PrefixRest
    <3>2. b \o Rel(a, q) \in Path
      BY <1>2, <3>1, PathJoin
    <3> QED BY <1>9, <2>2, <3>2
  <2> QED BY <1>9, <2>1, <2>2
<1>4. DOMAIN u = {at[q] : q \in DOMAIN t} /\ u = [q \in DOMAIN u |-> u[q]]
  OBVIOUS
<1>5. \A p \in DOMAIN u : u[p] = t[CHOOSE q \in DOMAIN t : at[q] = p]
  OBVIOUS
<1> HIDE DEF u
<1>6. ASSUME NEW p \in DOMAIN u
      PROVE  p \in Path /\ IsNode(u[p])
  <2>1. PICK q \in DOMAIN t : at[q] = p
    BY <1>4
  <2>2. PICK c : c = CHOOSE q2 \in DOMAIN t : at[q2] = p
    OBVIOUS
  <2>3. c \in DOMAIN t
    BY <2>1, <2>2
  <2>4. u[p] = t[c]
    BY <1>5, <2>2, Zenon
  <2> QED BY <1>3, <2>1, <2>3, <2>4 DEF IsTree
<1>7. IsTree(u)
  BY <1>4, <1>6 DEF IsTree
<1> QED BY <1>1, <1>7

-----------------------------------------------------------------------------
(* What the variables hold.                                                *)
IsLine(l) ==
  /\ l.src \in Seq(PathArg) /\ l.dst \in PathArg
  /\ l.op \in {"get", "put", "rename", "symlink"} => Len(l.src) = 1
IsItem(x) == x.from \in Path /\ x.to \in Path
IsWork(x) ==
  /\ x = [at |-> x.at, todo |-> x.todo, item |-> x.item, data |-> x.data, pos |-> x.pos]
  /\ x.data \in Seq(Nat) /\ x.pos \in Nat
  /\ IsItem(x.item) /\ \A y \in x.todo : IsItem(y)
TypeInv ==
  /\ DOMAIN fs = Machines /\ \A m \in Machines : IsTree(fs[m])
  /\ DOMAIN conn = Servers /\ DOMAIN pwd = Machines /\ \A m \in Machines : pwd[m] \in PathArg
  /\ DOMAIN line = 1..MaxLines /\ \A i \in 1..MaxLines : IsLine(line[i])
  /\ n \in 1..MaxLines
  /\ DOMAIN work = Workers /\ \A w \in Workers : IsWork(work[w])
  /\ \A x \in walk : IsItem(x)
  /\ offset \in Nat

(* Goroutines that have not begun or have just begun.                      *)
LEMMA IdleWork ==
  /\ IsWork(Idle) /\ Idle.at = "off" /\ Idle.todo = {} /\ Idle.pos = 0
  /\ IsWork(Started) /\ Started.at = "start" /\ Started.todo = {} /\ Started.pos = 0
<1>1. IsItem(NoItem)
  BY DEF IsItem, NoItem, Path
<1>2. Started = [at |-> "start", todo |-> {}, item |-> NoItem, data |-> <<>>, pos |-> 0]
  BY DEF Started, Idle
<1> QED BY <1>1, <1>2 DEF IsWork, Idle

(* A worker's record with one field or more replaced.                      *)
WorkOf(at, todo, item, data, pos) == [at |-> at, todo |-> todo, item |-> item, data |-> data, pos |-> pos]
LEMMA WorkFields ==
  ASSUME NEW a, NEW b, NEW c, NEW d, NEW e, NEW v
  PROVE  /\ [WorkOf(a, b, c, d, e) EXCEPT !.at = v] = WorkOf(v, b, c, d, e)
         /\ [WorkOf(a, b, c, d, e) EXCEPT !.todo = v] = WorkOf(a, v, c, d, e)
         /\ [WorkOf(a, b, c, d, e) EXCEPT !.item = v] = WorkOf(a, b, v, d, e)
         /\ [WorkOf(a, b, c, d, e) EXCEPT !.data = v] = WorkOf(a, b, c, v, e)
         /\ [WorkOf(a, b, c, d, e) EXCEPT !.pos = v] = WorkOf(a, b, c, d, v)
<1>1. [WorkOf(a, b, c, d, e) EXCEPT !.at = v] = WorkOf(v, b, c, d, e)
  BY DEF WorkOf
<1>2. [WorkOf(a, b, c, d, e) EXCEPT !.todo = v] = WorkOf(a, v, c, d, e)
  BY DEF WorkOf
<1>3. [WorkOf(a, b, c, d, e) EXCEPT !.item = v] = WorkOf(a, b, v, d, e)
  BY DEF WorkOf
<1>4. [WorkOf(a, b, c, d, e) EXCEPT !.data = v] = WorkOf(a, b, c, v, e)
  BY DEF WorkOf
<1>5. [WorkOf(a, b, c, d, e) EXCEPT !.pos = v] = WorkOf(a, b, c, d, v)
  BY DEF WorkOf
<1> QED BY <1>1, <1>2, <1>3, <1>4, <1>5

(* What a worker's record is made of.                                      *)
LEMMA WorkIs ==
  ASSUME NEW x, IsWork(x)
  PROVE  \E a, b, c, d, e :
           /\ x = WorkOf(a, b, c, d, e)
           /\ x.at = a /\ x.todo = b /\ x.item = c /\ x.data = d /\ x.pos = e
           /\ d \in Seq(Nat) /\ e \in Nat /\ IsItem(c) /\ \A j \in b : IsItem(j)
BY DEF IsWork, WorkOf

LEMMA WorkOfIs ==
  ASSUME NEW at, NEW todo, NEW item, NEW data \in Seq(Nat), NEW pos \in Nat,
         IsItem(item), \A i \in todo : IsItem(i)
  PROVE  LET y == WorkOf(at, todo, item, data, pos)
         IN IsWork(y) /\ y.at = at /\ y.todo = todo /\ y.item = item /\ y.data = data /\ y.pos = pos
BY DEF IsWork, WorkOf

(* How the steps of a goroutine change its record.                         *)
LEMMA WorkMoves ==
  ASSUME NEW x, IsWork(x), NEW at, NEW y, y = [x EXCEPT !.at = at]
  PROVE  IsWork(y) /\ y.at = at /\ y.todo = x.todo /\ y.item = x.item /\ y.data = x.data /\ y.pos = x.pos
<1>1. PICK a, b, c, d, e :
        /\ x = WorkOf(a, b, c, d, e)
        /\ x.at = a /\ x.todo = b /\ x.item = c /\ x.data = d /\ x.pos = e
        /\ d \in Seq(Nat) /\ e \in Nat /\ IsItem(c) /\ \A j \in b : IsItem(j)
  BY WorkIs
<1>2. [x EXCEPT !.at = at] = WorkOf(at, b, c, d, e)
  BY <1>1, WorkFields
<1> QED BY <1>1, <1>2, WorkOfIs

(* What Start and CopyFile do to it.                                       *)
Getting(x, at, T) == [x EXCEPT !.at = at, !.todo = T]
Opening(x, at, i, f) == [x EXCEPT !.at = at, !.item = i, !.data = f]
LEMMA WorkGets ==
  ASSUME NEW x, IsWork(x), NEW at, NEW T, \A i \in T : IsItem(i), NEW y, y = Getting(x, at, T)
  PROVE  IsWork(y) /\ y.at = at /\ y.todo = T /\ y.item = x.item /\ y.data = x.data /\ y.pos = x.pos
<1>1. PICK a, b, c, d, e :
        /\ x = WorkOf(a, b, c, d, e)
        /\ x.at = a /\ x.todo = b /\ x.item = c /\ x.data = d /\ x.pos = e
        /\ d \in Seq(Nat) /\ e \in Nat /\ IsItem(c) /\ \A j \in b : IsItem(j)
  BY WorkIs
<1>2. PICK z : z = [x EXCEPT !.at = at]
  OBVIOUS
<1>3. [x EXCEPT !.at = at, !.todo = T] = [z EXCEPT !.todo = T]
  BY <1>1, <1>2 DEF WorkOf
<1>5. z = WorkOf(at, b, c, d, e)
  BY <1>1, <1>2, WorkFields
<1>4. [x EXCEPT !.at = at, !.todo = T] = WorkOf(at, T, c, d, e)
  <2>1. [WorkOf(at, b, c, d, e) EXCEPT !.todo = T] = WorkOf(at, T, c, d, e)
    BY DEF WorkOf
  <2> QED BY <1>3, <1>5, <2>1, Zenon
<1> QED BY <1>1, <1>4, WorkOfIs DEF Getting

LEMMA WorkOpens ==
  ASSUME NEW x, IsWork(x), NEW at, NEW i, IsItem(i), NEW f \in Seq(Nat),
         NEW y, y = Opening(x, at, i, f)
  PROVE  IsWork(y) /\ y.at = at /\ y.todo = x.todo /\ y.item = i /\ y.data = f /\ y.pos = x.pos
<1>1. PICK a, b, c, d, e :
        /\ x = WorkOf(a, b, c, d, e)
        /\ x.at = a /\ x.todo = b /\ x.item = c /\ x.data = d /\ x.pos = e
        /\ d \in Seq(Nat) /\ e \in Nat /\ IsItem(c) /\ \A j \in b : IsItem(j)
  BY WorkIs
<1>2. PICK v, z : v = [x EXCEPT !.at = at] /\ z = [v EXCEPT !.item = i]
  OBVIOUS
<1>3. v = WorkOf(at, b, c, d, e)
  BY <1>1, <1>2, WorkFields
<1>4. z = WorkOf(at, b, i, d, e)
  <2>1. [WorkOf(at, b, c, d, e) EXCEPT !.item = i] = WorkOf(at, b, i, d, e)
    BY DEF WorkOf
  <2> QED BY <1>2, <1>3, <2>1, Zenon
<1>6. [x EXCEPT !.at = at, !.item = i, !.data = f] = [z EXCEPT !.data = f]
  BY <1>1, <1>2 DEF WorkOf
<1>5. [x EXCEPT !.at = at, !.item = i, !.data = f] = WorkOf(at, b, i, f, e)
  <2>1. [WorkOf(at, b, i, d, e) EXCEPT !.data = f] = WorkOf(at, b, i, f, e)
    BY DEF WorkOf
  <2> QED BY <1>4, <1>6, <2>1, Zenon
<1> QED BY <1>1, <1>5, WorkOfIs DEF Opening

LEMMA WorkGoesOn ==
  ASSUME NEW x, IsWork(x), NEW y, y = [x EXCEPT !.pos = @ + 1]
  PROVE  IsWork(y) /\ y.at = x.at /\ y.todo = x.todo /\ y.item = x.item /\ y.data = x.data /\ y.pos = x.pos + 1
<1>1. PICK a, b, c, d, e :
        /\ x = WorkOf(a, b, c, d, e)
        /\ x.at = a /\ x.todo = b /\ x.item = c /\ x.data = d /\ x.pos = e
        /\ d \in Seq(Nat) /\ e \in Nat /\ IsItem(c) /\ \A j \in b : IsItem(j)
  BY WorkIs
<1>2. PICK v : v = e + 1
  OBVIOUS
<1>3. [x EXCEPT !.pos = @ + 1] = [x EXCEPT !.pos = v]
  BY <1>1, <1>2
<1>4. [x EXCEPT !.pos = v] = WorkOf(a, b, c, d, v)
  <2>1. [WorkOf(a, b, c, d, e) EXCEPT !.pos = v] = WorkOf(a, b, c, d, v)
    BY DEF WorkOf
  <2> QED BY <1>1, <2>1, Zenon
<1> QED BY <1>1, <1>2, <1>3, <1>4, WorkOfIs

-----------------------------------------------------------------------------
(* The places of a command are paths.                                      *)
LEMMA JoinIsPath ==
  ASSUME TypeInv, NEW m \in Machines, NEW a \in PathArg
  PROVE  Join(m, a) \in PathArg
<1>1. PICK x \in Path, y \in Path : x = pwd[m].p /\ y = a.p
  BY DEF TypeInv, PathArg
<1>2. x \o y \in Path
  BY PathJoin
<1>3. pwd[m].abs \in BOOLEAN
  BY DEF TypeInv, PathArg
<1> QED BY <1>1, <1>2, <1>3 DEF Join, Arg, PathArg

LEMMA LocalBaseIsPath ==
  ASSUME NEW l, IsLine(l), NEW s \in Servers
  PROVE  LocalBase(l, s) \in Path
<1>1. l.dst.p \in Path /\ s \in Range(Names)
  BY FilesAssumption DEF FilesAssumption, IsLine, PathArg
<1>2. Append(l.dst.p, s) \in Path
  BY <1>1, AppendProperties DEF Path
<1> QED BY <1>1, <1>2 DEF LocalBase

(* What a walk finds is below its root.                                    *)
LEMMA WalkPaths ==
  ASSUME NEW t, IsTree(t), NEW p \in Path, NEW q \in Walk(t, p)
  PROVE  q \in Path /\ Rel(p, q) \in Path /\ q = p \o Rel(p, q)
<1>1. PICK e \in Path : e = Entry(t, p)
  BY RealIsPath
<1>2. PICK u \in DOMAIN t : IsPrefix(e, u) /\ q = p \o Rel(e, u)
  BY <1>1 DEF Walk
<1>3. PICK r \in Path : r = Rel(e, u)
  BY <1>1, <1>2, PrefixRest DEF IsTree
<1>4. q = p \o r
  BY <1>2, <1>3
<1> QED BY <1>4, PathJoin

LEMMA DirIsPath ==
  ASSUME NEW p \in Path
  PROVE  Dir(p) \in Path
<1>1. CASE p # <<>>
  <2>1. Len(p) - 1 \in 0..Len(p)
    BY <1>1 DEF Path
  <2> QED BY <1>1, <2>1, PathPart DEF Dir, Front
<1> QED BY <1>1 DEF Dir

(* What an item of a walk is.                                              *)
LEMMA ItemFields ==
  ASSUME NEW i, NEW t, NEW paths, NEW base, NEW dst, NEW x \in Items(i, t, paths, base, dst)
  PROVE  /\ x.i = i /\ x.from \in paths /\ x.to = dst \o Rel(base, x.from)
         /\ x.stat = t[Entry(t, x.from)]
BY DEF Items

LEMMA ItemsTyped ==
  ASSUME NEW i, NEW t, NEW paths, paths \subseteq Path, NEW base \in Path, NEW dst \in Path,
         NEW x \in Items(i, t, paths, base, dst)
  PROVE  IsItem(x)
<1>1. PICK p \in paths : x = [i |-> i, from |-> p, to |-> dst \o Rel(base, p), stat |-> t[Entry(t, p)]]
  BY DEF Items
<1>2. PICK r \in Path : r = Rel(base, p)
  <2>1. Len(base) + 1 \in Int /\ Len(p) \in Int /\ \A j \in Len(base) + 1..Len(p) : p[j] \in Range(Names)
    BY DEF Path
  <2>2. SubSeq(p, Len(base) + 1, Len(p)) \in Seq(Range(Names))
    BY <2>1, SubSeqProperties
  <2> QED BY <2>2 DEF Rel, Path
<1>3. dst \o r \in Path
  BY PathJoin
<1> QED BY <1>1, <1>2, <1>3 DEF IsItem

-----------------------------------------------------------------------------
(* An item is below the source i of command l on server s, and what it     *)
(* becomes is below the place of that source.                              *)
Within(l, s, i, from, to) ==
  LET f == From(l, s, i)
      r == Rel(f, from)
  IN i \in Sources(l) /\ r \in Path /\ from = f \o r /\ to = To(l, s, i) \o r
Unlike(S) == \A x, y \in S : x.i = y.i /\ x.from = y.from => x = y

(* The source i of a command, and where it goes.                           *)
LEMMA FromIsPath ==
  ASSUME TypeInv, NEW l, IsLine(l), NEW s \in Servers, NEW i \in Sources(l)
  PROVE  /\ From(l, s, i) \in Path /\ To(l, s, i) \in Path
         /\ l.op = "via" => To(l, s, i) = From(l, s, i)
         /\ l.op = "put" => To(l, s, i) = Join(s, l.dst).p \o Rel(Dir(From(l, s, i)), From(l, s, i))
         /\ l.op \in {"pull", "get"} => To(l, s, i) = LocalBase(l, s) \o Rel(Dir(From(l, s, i)), From(l, s, i))
         /\ l.op = "push" => To(l, s, i) = l.dst.p \o Rel(Dir(From(l, s, i)), From(l, s, i))
<1>1. s \in Machines
  BY DEF Machines
<1>2. i \in DOMAIN l.src
  BY DEF Sources, IsLine
<1>3. l.src[i] \in PathArg /\ (l.op = "get" => l.src[1] \in PathArg)
  BY <1>2 DEF IsLine
<1>4. From(l, s, i) \in Path
  BY <1>1, <1>3, JoinIsPath DEF From, PathArg
<1>5. PICK dst : dst = CASE l.op \in {"pull", "get"} -> LocalBase(l, s)
                         [] l.op = "put" -> Join(s, l.dst).p
                         [] OTHER -> l.dst.p
  OBVIOUS
<1>6. Join(s, l.dst).p \in Path /\ l.dst.p \in Path
  BY <1>1, JoinIsPath DEF IsLine, PathArg
<1>7. /\ dst \in Path
      /\ l.op = "put" => dst = Join(s, l.dst).p
      /\ l.op \in {"pull", "get"} => dst = LocalBase(l, s)
      /\ l.op \notin {"put", "pull", "get"} => dst = l.dst.p
  BY <1>5, <1>6, LocalBaseIsPath
<1>8. PICK f \in Path : f = From(l, s, i)
  BY <1>4
<1>9. PICK r \in Path : r = Rel(Dir(f), f)
  <2>1. f \o <<>> = f /\ <<>> \in Path
    BY ConcatEmptySeq DEF Path
  <2> QED BY RelBelow, <2>1
<1>10. To(l, s, i) = IF l.op = "via" THEN f ELSE dst \o r
  BY <1>5, <1>8, <1>9 DEF To
<1>11. dst \o r \in Path
  BY <1>7, PathJoin
<1> QED BY <1>4, <1>7, <1>8, <1>9, <1>10, <1>11

(* What is below dst is where it was below the directory of p.             *)
LEMMA ItemsWithin ==
  ASSUME NEW l, NEW s, NEW i \in Sources(l), NEW f \in Path, f = From(l, s, i),
         NEW t, IsTree(t), NEW dst \in Path, To(l, s, i) = dst \o Rel(Dir(f), f),
         NEW paths, paths \subseteq Walk(t, f), NEW x \in Items(i, t, paths, Dir(f), dst)
  PROVE  IsItem(x) /\ x.i = i /\ Within(l, s, i, x.from, x.to)
<1>1. paths \subseteq Path
  BY WalkPaths
<1>2. Dir(f) \in Path
  BY DirIsPath
<1>3. x.i = i /\ x.from \in paths /\ x.to = dst \o Rel(Dir(f), x.from)
  BY ItemFields
<1>8. IsItem(x)
  BY <1>1, <1>2, ItemsTyped
<1>4. PICK r \in Path : r = Rel(f, x.from) /\ x.from = f \o r
  BY <1>3, WalkPaths
<1>5. PICK u \in Path : u = Rel(Dir(f), f) /\ Rel(Dir(f), f \o r) = u \o r
  BY RelBelow
<1>6. dst \o (u \o r) = (dst \o u) \o r
  BY PathAssoc
<1>7. x.to = To(l, s, i) \o r
  BY <1>3, <1>4, <1>5, <1>6
<1> QED BY <1>3, <1>4, <1>7, <1>8 DEF Within

(* one for each of its paths,                                              *)
LEMMA ItemsUnlike ==
  ASSUME NEW t, NEW paths, NEW base, NEW dst, NEW i, NEW j,
         NEW x \in Items(i, t, paths, base, dst), NEW y \in Items(i, t, paths, base, dst),
         x.from = y.from
  PROVE  x = y
<1>1. PICK p \in paths : x = [i |-> i, from |-> p, to |-> dst \o Rel(base, p), stat |-> t[Entry(t, p)]]
  BY DEF Items
<1>2. PICK q \in paths : y = [i |-> i, from |-> q, to |-> dst \o Rel(base, q), stat |-> t[Entry(t, q)]]
  BY DEF Items
<1> QED BY <1>1, <1>2

(* and so all the items of a goroutine.                                    *)
LEMMA TodoFacts ==
  ASSUME TypeInv, NEW w \in Workers, Of(w).op \in (Copies \ {"via"}) \cup {"rmr"}
  PROVE  /\ \A x \in Todo(w) : IsItem(x)
         /\ Of(w).op \in Copies =>
              /\ \A x \in Todo(w) : Within(Of(w), Server(w), x.i, x.from, x.to)
              /\ Unlike(Todo(w))
<1>1. w[1] \in 1..MaxLines /\ w[2] \in Servers
  BY DEF Workers
<1>2. PICK l : l = Of(w) /\ IsLine(l)
  BY <1>1 DEF TypeInv, Of
<1>3. PICK s \in Servers : s = Server(w)
  BY <1>1 DEF Server
<1>4. s \in Machines /\ Here \in Machines /\ IsTree(fs[s]) /\ IsTree(fs[Here])
  BY DEF TypeInv, Machines
<1>5. CASE l.op = "push"
  <2>1. Todo(w) = push(l)
    BY <1>2, <1>3, <1>5 DEF Todo
  <2>2. ASSUME NEW x \in Todo(w)
        PROVE  /\ x.i \in DOMAIN l.src /\ x \in pushItems(x.i, l.src[x.i].p, l.dst.p)
               /\ IsItem(x) /\ Within(l, s, x.i, x.from, x.to)
    <3>1. PICK i \in DOMAIN l.src : x \in pushItems(i, l.src[i].p, l.dst.p)
      BY <2>1 DEF push
    <3>2. i \in Sources(l) /\ From(l, s, i) = l.src[i].p
      BY <1>5, <3>1 DEF Sources, From
    <3>3. PICK f \in Path, dst \in Path : f = From(l, s, i) /\ dst = l.dst.p
      BY <1>2, <3>2, FromIsPath DEF IsLine, PathArg
    <3>4. To(l, s, i) = dst \o Rel(Dir(f), f)
      BY <1>2, <1>5, <3>2, <3>3, FromIsPath
    <3>5. PICK paths : paths \subseteq Walk(fs[Here], f) /\ x \in Items(i, fs[Here], paths, Dir(f), dst)
      BY <3>1, <3>2, <3>3 DEF pushItems
    <3>6. IsItem(x) /\ x.i = i /\ Within(l, s, i, x.from, x.to)
      BY <1>4, <3>2, <3>3, <3>4, <3>5, ItemsWithin
    <3> QED BY <3>1, <3>6
  <2>3. ASSUME NEW x \in Todo(w), NEW y \in Todo(w), x.i = y.i, x.from = y.from
        PROVE  x = y
    <3>1. x \in pushItems(x.i, l.src[x.i].p, l.dst.p) /\ y \in pushItems(x.i, l.src[x.i].p, l.dst.p)
      BY <2>2, <2>3
    <3> QED BY <2>3, <3>1, ItemsUnlike DEF pushItems
  <2> QED BY <1>2, <1>3, <2>2, <2>3 DEF Unlike
<1>6. CASE l.op = "pull"
  <2>1. Todo(w) = pull(l, s)
    BY <1>2, <1>3, <1>6 DEF Todo
  <2>2. ASSUME NEW x \in Todo(w)
        PROVE  /\ x.i \in DOMAIN l.src /\ x \in pullItems(x.i, s, l.src[x.i].p, LocalBase(l, s))
               /\ IsItem(x) /\ Within(l, s, x.i, x.from, x.to)
    <3>1. PICK i \in DOMAIN l.src : x \in pullItems(i, s, l.src[i].p, LocalBase(l, s))
      BY <2>1 DEF pull
    <3>2. i \in Sources(l) /\ From(l, s, i) = l.src[i].p
      BY <1>6, <3>1 DEF Sources, From
    <3>3. PICK f \in Path, dst \in Path : f = From(l, s, i) /\ dst = LocalBase(l, s)
      BY <1>2, <3>2, FromIsPath, LocalBaseIsPath
    <3>4. To(l, s, i) = dst \o Rel(Dir(f), f)
      BY <1>2, <1>6, <3>2, <3>3, FromIsPath
    <3>5. PICK paths : paths \subseteq Walk(fs[s], f) /\ x \in Items(i, fs[s], paths, Dir(f), dst)
      BY <3>1, <3>2, <3>3 DEF pullItems, tryEvalPath
    <3>6. IsItem(x) /\ x.i = i /\ Within(l, s, i, x.from, x.to)
      BY <1>4, <3>2, <3>3, <3>4, <3>5, ItemsWithin
    <3> QED BY <3>1, <3>6
  <2>3. ASSUME NEW x \in Todo(w), NEW y \in Todo(w), x.i = y.i, x.from = y.from
        PROVE  x = y
    <3>1. /\ x \in pullItems(x.i, s, l.src[x.i].p, LocalBase(l, s))
          /\ y \in pullItems(x.i, s, l.src[x.i].p, LocalBase(l, s))
      BY <2>2, <2>3
    <3> QED BY <2>3, <3>1, ItemsUnlike DEF pullItems
  <2> QED BY <1>2, <1>3, <2>2, <2>3 DEF Unlike
<1>7. CASE l.op = "put"
  <2>1. Todo(w) = putAction(l, s)
    BY <1>2, <1>3, <1>7 DEF Todo
  <2>2. 1 \in Sources(l) /\ From(l, s, 1) = l.src[1].p
    BY <1>7 DEF Sources, From
  <2>3. PICK f \in Path, dst \in Path : f = From(l, s, 1) /\ dst = Join(s, l.dst).p
    <3>1. Join(s, l.dst) \in PathArg
      BY <1>2, <1>4, JoinIsPath DEF IsLine
    <3> QED BY <1>2, <2>2, <3>1, FromIsPath DEF PathArg
  <2>7. To(l, s, 1) = dst \o Rel(Dir(f), f)
    BY <1>2, <1>7, <2>2, <2>3, FromIsPath
  <2>4. PICK paths : paths \subseteq Walk(fs[Here], f) /\ Todo(w) = Items(1, fs[Here], paths, Dir(f), dst)
    BY <2>1, <2>2, <2>3 DEF putAction, pushItems
  <2>5. ASSUME NEW x \in Todo(w)
        PROVE  IsItem(x) /\ Within(l, s, x.i, x.from, x.to)
    <3>1. x \in Items(1, fs[Here], paths, Dir(f), dst)
      BY <2>4
    <3>2. IsItem(x) /\ x.i = 1 /\ Within(l, s, 1, x.from, x.to)
      BY <1>4, <2>2, <2>3, <2>7, <2>4, <3>1, ItemsWithin
    <3> QED BY <3>2
  <2>6. Unlike(Todo(w))
    BY <2>4, ItemsUnlike DEF Unlike
  <2> QED BY <1>2, <1>3, <2>5, <2>6
<1>8. CASE l.op = "get"
  <2>1. Todo(w) = getItems(l, s)
    BY <1>2, <1>3, <1>8 DEF Todo
  <2>2. 1 \in Sources(l) /\ From(l, s, 1) = Join(s, l.src[1]).p
    BY <1>8 DEF Sources, From
  <2>3. PICK f \in Path, dst \in Path : f = From(l, s, 1) /\ dst = LocalBase(l, s)
    BY <1>2, <2>2, FromIsPath, LocalBaseIsPath
  <2>7. To(l, s, 1) = dst \o Rel(Dir(f), f)
    BY <1>2, <1>8, <2>2, <2>3, FromIsPath
  <2>4. PICK paths : paths \subseteq Walk(fs[s], f) /\ Todo(w) = Items(1, fs[s], paths, Dir(f), dst)
    BY <2>1, <2>2, <2>3 DEF getItems, WalkOn
  <2>5. ASSUME NEW x \in Todo(w)
        PROVE  IsItem(x) /\ Within(l, s, x.i, x.from, x.to)
    <3>1. x \in Items(1, fs[s], paths, Dir(f), dst)
      BY <2>4
    <3>2. IsItem(x) /\ x.i = 1 /\ Within(l, s, 1, x.from, x.to)
      BY <1>4, <2>2, <2>3, <2>7, <2>4, <3>1, ItemsWithin
    <3> QED BY <3>2
  <2>6. Unlike(Todo(w))
    BY <2>4, ItemsUnlike DEF Unlike
  <2> QED BY <1>2, <1>3, <2>5, <2>6
<1>9. CASE l.op = "rmr"
  <2>1. Todo(w) = rmItems(l, s)
    BY <1>2, <1>3, <1>9 DEF Todo
  <2>2. PICK p \in Path : p = Join(s, l.dst).p
    BY <1>2, <1>4, JoinIsPath DEF IsLine, PathArg
  <2>3. <<>> \in Path /\ WalkOn(s, p) \subseteq Path
    BY <1>4, WalkPaths DEF WalkOn, Path
  <2>4. \A x \in Todo(w) : IsItem(x)
    BY <2>1, <2>2, <2>3, ItemsTyped DEF rmItems
  <2> QED BY <1>2, <1>9, <2>4 DEF Copies
<1> QED BY <1>2, <1>5, <1>6, <1>7, <1>8, <1>9 DEF Copies

(* What a walk has seen of a file is what is read from it.                 *)
Seen(t, x) == x.stat.kind = "file" => x.stat.data = t[Real(t, x.from)].data
LEMMA StatIsSeen ==
  ASSUME NEW t, IsTree(t), NEW x, x.from \in Path, x.stat = t[Entry(t, x.from)]
  PROVE  Seen(t, x)
<1> SUFFICES ASSUME x.stat.kind = "file"
             PROVE  x.stat.data = t[Real(t, x.from)].data
  BY DEF Seen
<1>1. ~Is(t, Entry(t, x.from), "link")
  BY DEF Is
<1> QED BY <1>1, RealIsEntry

LEMMA TodoSeen ==
  ASSUME TypeInv, NEW w \in Workers, Of(w).op \in Copies \ {"via"}, Reads(w) \in Machines,
         NEW x \in Todo(w)
  PROVE  Seen(fs[Reads(w)], x)
<1>1. PICK l, s, t : l = Of(w) /\ s = Server(w) /\ t = fs[Reads(w)]
  OBVIOUS
<1>2. IsTree(t)
  BY <1>1 DEF TypeInv
<1>3. x.from \in Path
  <2>1. IsItem(x)
    BY TodoFacts
  <2> QED BY <2>1 DEF IsItem
<1>4. \E i, paths, base, dst : x \in Items(i, t, paths, base, dst)
  <2>1. CASE l.op = "push"
    <3>1. Todo(w) = push(l) /\ t = fs[Here]
      BY <1>1, <2>1 DEF Todo, Reads
    <3>2. PICK i \in DOMAIN l.src : x \in pushItems(i, l.src[i].p, l.dst.p)
      BY <3>1 DEF push
    <3> QED BY <3>1, <3>2 DEF pushItems
  <2>2. CASE l.op = "put"
    <3>1. Todo(w) = putAction(l, s) /\ t = fs[Here]
      BY <1>1, <2>2 DEF Todo, Reads
    <3> QED BY <3>1 DEF putAction, pushItems
  <2>3. CASE l.op = "pull"
    <3>1. Todo(w) = pull(l, s) /\ t = fs[s]
      BY <1>1, <2>3 DEF Todo, Reads
    <3>2. PICK i \in DOMAIN l.src : x \in pullItems(i, s, l.src[i].p, LocalBase(l, s))
      BY <3>1 DEF pull
    <3> QED BY <3>1, <3>2 DEF pullItems
  <2>4. CASE l.op = "get"
    <3>1. Todo(w) = getItems(l, s) /\ t = fs[s]
      BY <1>1, <2>4 DEF Todo, Reads
    <3> QED BY <3>1 DEF getItems
  <2> QED BY <1>1, <2>1, <2>2, <2>3, <2>4 DEF Copies
<1>5. x.stat = t[Entry(t, x.from)]
  BY <1>4, ItemFields
<1> QED BY <1>1, <1>2, <1>3, <1>5, StatIsSeen

-----------------------------------------------------------------------------
(* Where the command is, and for whom its goroutines are.                  *)
CommandInv ==
  /\ phase \in {"start", "connect"} => /\ bars = {} /\ walk = {} /\ n = 1
                                       /\ \A w \in Workers : work[w] = Idle
  /\ phase = "spawn" => Cmd.op = "get" /\ left \subseteq Clients
  /\ phase = "rmdir" => Cmd.op = "rmdir"
  /\ phase = "via" => Cmd.op = "via"
  /\ \A i \in 1..MaxLines : line[i].op = "via" => prog = "scp" /\ ScpCommand(line[i])
  /\ \A w \in Workers :
       /\ w[1] > n => work[w] = Idle
       /\ w[1] = n /\ work[w].at # "off" => w[2] \in Targets /\ ~(phase = "spawn" /\ w[2] \in left)
       /\ Of(w).op = "via" => /\ work[w].at # "start"
                              /\ \A x \in work[w].todo : x.stat.kind # "dir"
       /\ work[w].at = "copy" => Of(w).op \in Copies

(* What one step of a goroutine that copies does to its own state and to   *)
(* the tree it writes to.                                                  *)
Offset(w) == IF Of(w).op = "via" THEN offset ELSE work[w].pos
Target(w) == fs[Writes(w)]
After(w) == fs'[Writes(w)]
Begins(w) ==
  /\ work[w].at = "start" /\ work'[w].at = "next" /\ work'[w].todo = Todo(w) /\ work'[w].pos = work[w].pos
  /\ Grown(Target(w), After(w), {}) /\ UNCHANGED <<bars, offset>>
Leaves(w) ==
  /\ work[w].at \in {"next", "exit"} /\ work'[w].at \in {"exit", "gone"} /\ (work'[w].at = "gone" => w[1] = n)
  /\ work'[w].todo = work[w].todo /\ work'[w].pos = work[w].pos
  /\ Grown(Target(w), After(w), {}) /\ UNCHANGED <<bars, offset>>
Dropped(w, x) ==
  /\ work'[w].at = "next" /\ work'[w].todo = work[w].todo \ {x} /\ work'[w].pos = 0
Drops(w, x) ==
  /\ work[w].at = "next" \/ (work[w].at = "copy" /\ x = work[w].item)
  /\ work[w].at = "next" => offset' = offset
  /\ Dropped(w, x)
  /\ \/ Grown(Target(w), After(w), {})
     \/ x \in work[w].todo /\ work[w].at = "next" /\ Grown(Target(w), After(w), {Real(Target(w), x.to)})
  /\ \/ bars' = bars
     \/ bars' = With(w, x, "cut")
     \/ work[w].at = "copy" /\ work[w].pos >= Total(x) /\ bars' = With(w, x, "done")
Opens(w, x) ==
  LET src == fs[Reads(w)]
      r == Real(Target(w), x.to)
  IN /\ work[w].at = "next" /\ x \in work[w].todo
     /\ work'[w].at = "copy" /\ work'[w].item = x /\ work'[w].data = src[Real(src, x.from)].data
     /\ work'[w].todo = work[w].todo /\ work'[w].pos = work[w].pos
     /\ Grown(Target(w), After(w), {r}) /\ r \in DOMAIN After(w) /\ After(w)[r].data = <<>>
     /\ UNCHANGED <<bars, offset>>
Takes(w) ==
  LET t == Target(w)
      r == Real(t, work[w].item.to)
  IN /\ work[w].at = "copy" /\ Offset(w) \in Nat /\ Offset(w) < Len(work[w].data)
     /\ work'[w].at = "copy" /\ work'[w].item = work[w].item /\ work'[w].data = work[w].data
     /\ work'[w].todo = work[w].todo /\ work'[w].pos = work[w].pos + 1
     /\ Grown(t, After(w), {r})
     /\ r \in DOMAIN t /\ work[w].pos = Len(t[r].data)
          => After(w)[r].data = Append(t[r].data, work[w].data[Offset(w) + 1])
     /\ offset' = (IF Of(w).op = "via" THEN offset + 1 ELSE offset) /\ bars' = bars
Completes(w) ==
  LET x == work[w].item
  IN /\ work[w].at = "copy" /\ Offset(w) >= Len(work[w].data)
     /\ bars' = With(w, x, "end")
     /\ Dropped(w, x)
     /\ Grown(Target(w), After(w), {}) /\ offset' = offset

(* A goroutine that has done with an item.                                 *)
LEMMA WithoutIs ==
  ASSUME TypeInv, NEW w \in Workers, NEW x, work' = Without(w, x)
  PROVE  IsWork(work'[w]) /\ Dropped(w, x)
<1>1. PICK T : T = work[w].todo \ {x}
  OBVIOUS
<1>2. Idle = WorkOf("off", {}, NoItem, <<>>, 0) /\ <<>> \in Seq(Nat) /\ IsItem(NoItem)
  BY DEF Idle, WorkOf, IsItem, NoItem, Path
<1>3. PICK y : y = [Idle EXCEPT !.at = "next"]
  OBVIOUS
<1>4. y = WorkOf("next", {}, NoItem, <<>>, 0)
  BY <1>2, <1>3, WorkFields
<1>5. [y EXCEPT !.todo = T] = WorkOf("next", T, NoItem, <<>>, 0)
  <2>1. [WorkOf("next", {}, NoItem, <<>>, 0) EXCEPT !.todo = T] = WorkOf("next", T, NoItem, <<>>, 0)
    BY DEF WorkOf
  <2> QED BY <1>4, <2>1, Zenon
<1>6. [Idle EXCEPT !.at = "next", !.todo = T] = [y EXCEPT !.todo = T]
  BY <1>2, <1>3 DEF WorkOf
<1>7. work'[w] = WorkOf("next", T, NoItem, <<>>, 0)
  BY <1>1, <1>5, <1>6 DEF Without, TypeInv
<1>8. \A i \in T : IsItem(i)
  BY <1>1 DEF TypeInv, IsWork
<1>9. LET v == WorkOf("next", T, NoItem, <<>>, 0)
      IN IsWork(v) /\ v.at = "next" /\ v.todo = T /\ v.pos = 0
  BY <1>2, <1>8 DEF IsWork, WorkOf
<1> QED BY <1>1, <1>7, <1>9 DEF Dropped

(* A copy reads one machine and writes to another.                         *)
LEMMA ReadsWrites ==
  ASSUME TypeInv, ScpInv, CommandInv, NEW w \in Workers, w[1] <= n, Of(w).op \in Copies
  PROVE  /\ Reads(w) \in Machines /\ Writes(w) \in Machines
         /\ w[1] = n => \A s \in Targets : Writes(<<n, s>>) # Reads(w)
<1>1. w[1] \in 1..MaxLines /\ w[2] \in Servers /\ Here \notin Servers /\ Servers \subseteq Machines /\ Here \in Machines
  BY FilesAssumption DEF FilesAssumption, Workers, Machines
<1>2. Targets \subseteq Servers
  BY DEF Targets, Clients
<1>3. w[1] = n => \A s : Of(<<n, s>>) = Of(w) /\ Server(<<n, s>>) = s
  BY DEF Of, Server
<1>4. CASE Of(w).op = "via"
  <2>1. prog = "scp" /\ ScpCommand(Of(w))
    BY <1>1, <1>4 DEF CommandInv, Of
  <2>2. w[1] = n /\ Cmd = Of(w)
    BY <1>1, <2>1 DEF ScpInv, Of, Cmd
  <2>3. PICK s \in Servers : s \notin Cmd.to /\ Cmd.from = {s}
    BY <1>4, <2>1, <2>2 DEF ScpCommand
  <2>4. Source = s
    BY <2>3 DEF Source
  <2>5. \A u \in Targets : u # s
    BY <1>4, <2>1, <2>2, <2>3 DEF Targets
  <2> QED BY <1>1, <1>2, <1>3, <1>4, <2>2, <2>4, <2>5 DEF Reads, Writes, Server
<1>5. CASE Of(w).op # "via"
  <2>1. Of(w).op \in {"push", "put", "pull", "get"}
    BY <1>5 DEF Copies
  <2>2. CASE Of(w).op \in {"push", "put"}
    BY <1>1, <1>2, <1>3, <2>2 DEF Reads, Writes, Server
  <2>3. CASE Of(w).op \in {"pull", "get"}
    BY <1>1, <1>2, <1>3, <2>3 DEF Reads, Writes, Server
  <2> QED BY <2>1, <2>2, <2>3
<1> QED BY <1>4, <1>5

(* Directories that a copy makes.                                          *)
LEMMA DirsGrown ==
  ASSUME NEW t, IsTree(t), NEW x, IsItem(x)
  PROVE  /\ Grown(t, SetMode(t, x), {})
         /\ Grown(t, PushDir(t, x), {}) /\ Grown(t, PullDir(t, x), {})
         /\ Grown(t, PutDir(t, x), {}) /\ Grown(t, GetDir(t, x), {})
<1>1. ASSUME NEW u, IsTree(u)
      PROVE  Grown(u, SetMode(u, x), {})
  BY <1>1, ChmodGrown DEF SetMode
<1>2. x.to \in Path
  BY DEF IsItem
<1>3. PICK d : d = Mkdir(t, x.to)
  OBVIOUS
<1>4. PICK e : e = MkdirAll(t, x.to)
  OBVIOUS
<1>5. Grown(t, d, {}) /\ Grown(t, e, {}) /\ IsTree(d) /\ IsTree(e)
  BY <1>2, <1>3, <1>4, MkdirGrown, MkdirAllGrown DEF Grown
<1>6. Grown(t, SetMode(d, x), {}) /\ Grown(t, SetMode(e, x), {})
  BY <1>1, <1>5, GrownTwice
<1>7. Grown(t, t, {})
  BY GrownSame
<1> QED BY <1>1, <1>3, <1>4, <1>6, <1>7 DEF PushDir, PullDir, PutDir, GetDir

(* The six kinds of steps.                                                 *)
LEMMA CopySteps ==
  ASSUME TypeInv, ScpInv, CommandInv, NEW w \in Workers, Of(w).op \in Copies, Worker(w)
  PROVE  /\ IsWork(work'[w]) /\ offset' \in Nat
         /\ \/ Begins(w) \/ Leaves(w) \/ \E x : Drops(w, x)
            \/ \E x : Opens(w, x)
            \/ Takes(w) \/ Completes(w)
<1>1. /\ work[w].at # "off" /\ Of(w).op \notin Alone \cup {"rmr"}
      /\ IsWork(work[w]) /\ DOMAIN work = Workers /\ offset \in Nat
  BY WorkerFacts DEF ScpInv, TypeInv, Copies, Alone
<1>2. w[1] <= n
  <2>1. w[1] \in Nat /\ n \in Nat
    BY DEF Workers, ScpInv
  <2> QED BY <1>1, <2>1 DEF CommandInv, Idle
<1>3. Reads(w) \in Machines /\ Writes(w) \in Machines /\ DOMAIN fs = Machines
  BY <1>2, ReadsWrites DEF TypeInv
<1>4. IsTree(fs[Reads(w)]) /\ IsTree(Target(w))
  BY <1>3 DEF TypeInv, Target
<1>5. ASSUME NEW u, fs' = [fs EXCEPT ![Writes(w)] = u]
      PROVE  After(w) = u
  BY <1>3, <1>5 DEF After
<1>6. Grown(Target(w), Target(w), {})
  BY <1>4, GrownSame
<1>7. ASSUME fs' = fs
      PROVE  Grown(Target(w), After(w), {})
  BY <1>6, <1>7 DEF Target, After
<1>15. \A x, k : BarSays(x, k) = "cut" \/ (BarSays(x, k) = "done" /\ k >= Total(x))
  BY DEF BarSays
<1>8. CASE Start(w)
  <2>1. Of(w).op # "via" /\ work[w].at = "start" /\ UNCHANGED <<bars, offset>>
    BY <1>8 DEF Start, CommandInv
  <2>2. PICK T : T = Todo(w)
    OBVIOUS
  <2>3. \A x \in T : IsItem(x)
    BY <2>1, <2>2, TodoFacts
  <2>4. work' = [work EXCEPT ![w].at = "next", ![w].todo = T]
    BY <1>8, <2>2 DEF Start
  <2>5. work'[w] = [work[w] EXCEPT !.at = "next", !.todo = T]
    BY <1>1, <2>4
  <2>6. IsWork(work'[w]) /\ work'[w].at = "next" /\ work'[w].todo = T /\ work'[w].pos = work[w].pos
    <3>1. work'[w] = Getting(work[w], "next", T)
      BY <2>5 DEF Getting
    <3> QED BY <1>1, <2>3, <3>1, WorkGets
  <2>7. Grown(Target(w), After(w), {})
    <3>1. CASE fs' = fs
      BY <1>7, <3>1
    <3>2. CASE Of(w).op = "pull" /\ fs' = [fs EXCEPT ![Here] = MkdirAll(@, LocalBase(Of(w), Server(w)))]
      <4>1. Writes(w) = Here
        BY <3>2 DEF Writes
      <4>2. PICK b \in Path : b = LocalBase(Of(w), Server(w))
        <5>1. w[1] \in 1..MaxLines /\ w[2] \in Servers
          BY DEF Workers
        <5> QED BY <5>1, LocalBaseIsPath DEF TypeInv, Of, Server
      <4>3. After(w) = MkdirAll(Target(w), b)
        BY <1>3, <3>2, <4>1, <4>2 DEF After, Target
      <4> QED BY <1>4, <4>3, MkdirAllGrown
    <3> QED BY <1>8, <3>1, <3>2 DEF Start
  <2>8. Begins(w)
    BY <2>1, <2>2, <2>6, <2>7 DEF Begins
  <2> QED BY <1>1, <2>1, <2>6, <2>8
<1>9. CASE Finish(w) \/ Exit(w)
  <2>1. /\ work[w].at \in {"next", "exit"} /\ UNCHANGED <<fs, bars, offset>>
        /\ \E at \in {"exit", "gone"} : work' = [work EXCEPT ![w].at = at] /\ (at = "gone" => w[1] = n)
    BY <1>9 DEF Finish, Exit
  <2>2. PICK at \in {"exit", "gone"} : work' = [work EXCEPT ![w].at = at] /\ (at = "gone" => w[1] = n)
    BY <2>1
  <2>3. work'[w] = [work[w] EXCEPT !.at = at]
    BY <1>1, <2>2
  <2>4. IsWork(work'[w]) /\ work'[w].at = at /\ work'[w].todo = work[w].todo /\ work'[w].pos = work[w].pos
    BY <1>1, <2>3, WorkMoves
  <2>5. Leaves(w)
    BY <1>7, <2>1, <2>2, <2>4 DEF Leaves
  <2> QED BY <1>1, <2>1, <2>4, <2>5
<1>10. CASE Copy(w)
  <2>1. PICK x \in work[w].todo :
          IF ~Alive(Reads(w)) \/ ~Alive(Writes(w)) THEN fs' = fs /\ work' = Without(w, x) /\ bars' = bars
          ELSE IF x.stat.kind = "dir" THEN CopyDir(w, x) /\ bars' = bars
          ELSE CopyFile(w, x)
    BY <1>10, Zenon DEF Copy
  <2>2. work[w].at = "next" /\ offset' = offset
    BY <1>10 DEF Copy
  <2>3. IsItem(x)
    BY <1>1 DEF IsWork
  <2>4. ASSUME work' = Without(w, x), bars' = bars \/ bars' = With(w, x, "cut"),
               \/ Grown(Target(w), After(w), {})
               \/ Grown(Target(w), After(w), {Real(Target(w), x.to)})
        PROVE  IsWork(work'[w]) /\ offset' \in Nat /\ Drops(w, x)
    BY <1>1, <2>2, <2>4, WithoutIs DEF Drops
  <2>5. CASE fs' = fs /\ work' = Without(w, x) /\ bars' = bars
    BY <1>7, <2>4, <2>5
  <2>6. CASE x.stat.kind = "dir" /\ CopyDir(w, x) /\ bars' = bars
    <3>1. Of(w).op \in {"push", "pull", "put", "get"}
      BY <2>6 DEF CommandInv, Copies
    <3>2. PICK u : /\ u = CASE Of(w).op = "push" -> PushDir(Target(w), x) [] Of(w).op = "pull" -> PullDir(Target(w), x)
                            [] Of(w).op = "put" -> PutDir(Target(w), x) [] Of(w).op = "get" -> GetDir(Target(w), x)
                   /\ fs' = [fs EXCEPT ![Writes(w)] = u]
      BY <2>6 DEF CopyDir, Target
    <3>3. u \in {PushDir(Target(w), x), PullDir(Target(w), x), PutDir(Target(w), x), GetDir(Target(w), x)}
      BY <3>1, <3>2
    <3>4. Grown(Target(w), u, {})
      BY <1>4, <2>3, <3>3, DirsGrown
    <3> QED BY <1>5, <2>4, <2>6, <3>2, <3>4 DEF CopyDir
  <2>7. CASE CopyFile(w, x)
    <3> DEFINE src == fs[Reads(w)]
               from == Real(src, x.from)
    <3>1. PICK d : /\ d = IF from \in DOMAIN src /\ Writes(w) # Here THEN MkdirAll(Target(w), Dir(x.to)) ELSE Target(w)
                   /\ \E o : /\ o = IF from \in DOMAIN src /\ CanWrite(d, x.to) THEN OpenFile(d, x.to) ELSE d
                             /\ IF Is(src, from, "file") /\ CanWrite(d, x.to)
                                THEN /\ fs' = [fs EXCEPT ![Writes(w)] = o]
                                     /\ work' = [work EXCEPT ![w].at = "copy", ![w].item = x, ![w].data = src[from].data]
                                     /\ bars' = bars
                                ELSE /\ fs' = [fs EXCEPT ![Writes(w)] = IF Of(w).op = "pull" THEN SetMode(o, x) ELSE o]
                                     /\ work' = Without(w, x)
                                     /\ bars' = IF from \in DOMAIN src /\ CanWrite(d, x.to)
                                                THEN With(w, x, "cut") ELSE bars
      BY <2>7, Zenon DEF CopyFile, Target
    <3>2. PICK o : /\ o = IF from \in DOMAIN src /\ CanWrite(d, x.to) THEN OpenFile(d, x.to) ELSE d
                   /\ \/ /\ Is(src, from, "file") /\ CanWrite(d, x.to)
                         /\ fs' = [fs EXCEPT ![Writes(w)] = o]
                         /\ work' = [work EXCEPT ![w].at = "copy", ![w].item = x, ![w].data = src[from].data]
                         /\ bars' = bars
                      \/ /\ fs' = [fs EXCEPT ![Writes(w)] = IF Of(w).op = "pull" THEN SetMode(o, x) ELSE o]
                         /\ work' = Without(w, x)
                         /\ bars' = bars \/ bars' = With(w, x, "cut")
      BY <3>1
    <3>3. Grown(Target(w), d, {}) /\ IsTree(d)
      <4>1. Dir(x.to) \in Path
        BY <2>3, DirIsPath DEF IsItem
      <4> QED BY <1>4, <1>6, <3>1, <4>1, MkdirAllGrown DEF Grown
    <3>4. PICK r : r = Real(Target(w), x.to)
      OBVIOUS
    <3>5. Real(d, x.to) = r
      BY <2>3, <3>3, <3>4, GrownLinks DEF IsItem
    <3>6. ASSUME o = OpenFile(d, x.to)
          PROVE  Grown(Target(w), o, {r}) /\ IsTree(o) /\ r \in DOMAIN o /\ o[r].data = <<>>
      <4>1. Grown(d, o, {r}) /\ r \in DOMAIN o /\ o[r].data = <<>>
        BY <2>3, <3>3, <3>5, <3>6, TruncatedGrown DEF IsItem, OpenFile
      <4> QED BY <3>3, <4>1, GrownMore, GrownTwice DEF Grown
    <3>7. IsTree(o) /\ (Grown(Target(w), o, {}) \/ Grown(Target(w), o, {r}))
      BY <3>2, <3>3, <3>6
    <3>8. CASE /\ fs' = [fs EXCEPT ![Writes(w)] = IF Of(w).op = "pull" THEN SetMode(o, x) ELSE o]
               /\ work' = Without(w, x) /\ (bars' = bars \/ bars' = With(w, x, "cut"))
      <4>1. Grown(o, SetMode(o, x), {})
        BY <2>3, <3>7, DirsGrown
      <4>2. Grown(o, SetMode(o, x), {r})
        BY <4>1, GrownMore
      <4>3. \/ Grown(Target(w), SetMode(o, x), {})
            \/ Grown(Target(w), SetMode(o, x), {r})
        BY <3>7, <4>1, <4>2, GrownTwice
      <4>4. After(w) = SetMode(o, x) \/ After(w) = o
        BY <1>5, <3>8
      <4> QED BY <2>4, <3>4, <3>7, <3>8, <4>3, <4>4
    <3>9. CASE /\ Is(src, from, "file") /\ CanWrite(d, x.to) /\ bars' = bars
               /\ fs' = [fs EXCEPT ![Writes(w)] = o]
               /\ work' = [work EXCEPT ![w].at = "copy", ![w].item = x, ![w].data = src[from].data]
      <4>1. PICK f \in Seq(Nat) : f = src[from].data
        BY <1>4, <3>9 DEF Is, IsTree, IsNode
      <4>2. work' = [work EXCEPT ![w].at = "copy", ![w].item = x, ![w].data = f]
        BY <3>9, <4>1
      <4>3. work'[w] = [work[w] EXCEPT !.at = "copy", !.item = x, !.data = f]
        BY <1>1, <4>2
      <4>4. /\ IsWork(work'[w]) /\ work'[w].at = "copy" /\ work'[w].todo = work[w].todo
            /\ work'[w].item = x /\ work'[w].data = f /\ work'[w].pos = work[w].pos
        <5>1. work'[w] = Opening(work[w], "copy", x, f)
          BY <4>3 DEF Opening
        <5> QED BY <1>1, <2>3, <5>1, WorkOpens
      <4>5. After(w) = o /\ o = OpenFile(d, x.to)
        BY <1>5, <3>2, <3>9 DEF Is
      <4>6. Opens(w, x)
        BY <2>2, <3>4, <3>6, <3>9, <4>1, <4>4, <4>5 DEF Opens
      <4> QED BY <1>1, <2>2, <4>4, <4>6
    <3> QED BY <3>2, <3>8, <3>9
  <2> QED BY <2>1, <2>5, <2>6, <2>7
<1>11. CASE Chunk(w)
  <2>1. PICK x, f, k : x = work[w].item /\ f = work[w].data /\ k = Offset(w)
    OBVIOUS
  <2>2. IsItem(x) /\ f \in Seq(Nat) /\ work[w].pos \in Nat /\ k \in Nat
    BY <1>1, <2>1 DEF IsWork, Offset
  <2>3. /\ work[w].at = "copy" /\ k < Len(f)
        /\ offset' = IF Of(w).op = "via" THEN offset + 1 ELSE offset
        /\ \/ /\ fs' = [fs EXCEPT ![Writes(w)] = Written(@, x.to, work[w].pos, f[k + 1])]
              /\ work' = [work EXCEPT ![w].pos = @ + 1] /\ bars' = bars
           \/ fs' = fs /\ work' = Without(w, x) /\ bars' = With(w, x, BarSays(x, work[w].pos))
    BY <1>11, <2>1 DEF Chunk, Offset
  <2>4. offset' \in Nat
    BY <1>1, <2>3
  <2>5. CASE fs' = fs /\ work' = Without(w, x) /\ bars' = With(w, x, BarSays(x, work[w].pos))
    <3>1. Drops(w, x)
      BY <1>7, <1>15, <2>1, <2>3, <2>5, WithoutIs DEF Drops
    <3> QED BY <2>4, <2>5, <3>1, WithoutIs
  <2>6. CASE /\ fs' = [fs EXCEPT ![Writes(w)] = Written(@, x.to, work[w].pos, f[k + 1])]
             /\ work' = [work EXCEPT ![w].pos = @ + 1] /\ bars' = bars
    <3>1. work'[w] = [work[w] EXCEPT !.pos = @ + 1]
      BY <1>1, <2>6
    <3>2. /\ IsWork(work'[w]) /\ work'[w].at = work[w].at /\ work'[w].todo = work[w].todo
          /\ work'[w].item = x /\ work'[w].data = f /\ work'[w].pos = work[w].pos + 1
      BY <1>1, <2>1, <3>1, WorkGoesOn
    <3>3. PICK c \in Nat : c = f[k + 1]
      BY <2>2, <2>3
    <3>4. After(w) = Written(Target(w), x.to, work[w].pos, c)
      BY <1>3, <2>6, <3>3 DEF After, Target
    <3>5. PICK r : r = Real(Target(w), x.to)
      OBVIOUS
    <3>6. /\ Grown(Target(w), After(w), {r})
          /\ r \in DOMAIN Target(w) /\ work[w].pos = Len(Target(w)[r].data)
               => After(w)[r].data = Append(Target(w)[r].data, c)
      <4>1. PICK t, u : t = Target(w) /\ u = After(w)
        OBVIOUS
      <4>2. PICK p \in Path, i \in Nat : p = x.to /\ i = work[w].pos
        BY <2>2 DEF IsItem
      <4>3. IsTree(t) /\ r = Real(t, p) /\ u = Written(t, p, i, c)
        BY <1>4, <3>4, <3>5, <4>1, <4>2
      <4>4. /\ Grown(t, u, {r})
            /\ r \in DOMAIN t /\ i = Len(t[r].data) => u[r].data = Append(t[r].data, c)
        BY <4>3, WrittenGrown
      <4> QED BY <4>1, <4>2, <4>4
    <3>7. Takes(w)
      BY <2>1, <2>2, <2>3, <2>6, <3>2, <3>3, <3>5, <3>6 DEF Takes
    <3> QED BY <2>4, <3>2, <3>7
  <2> QED BY <2>3, <2>5, <2>6
<1>12. CASE CopyEnd(w)
  <2>1. PICK x : x = work[w].item
    OBVIOUS
  <2>2. IsItem(x)
    BY <1>1, <2>1 DEF IsWork
  <2>3. /\ work[w].at = "copy" /\ Offset(w) >= Len(work[w].data) /\ offset' = offset
        /\ bars' = With(w, x, "end")
        /\ work' = Without(w, x)
        /\ fs' = fs \/ fs' = [fs EXCEPT ![Writes(w)] = SetMode(@, x)]
    BY <1>12, <2>1 DEF CopyEnd, Offset
  <2>4. Grown(Target(w), After(w), {})
    <3>1. CASE fs' = [fs EXCEPT ![Writes(w)] = SetMode(@, x)]
      <4>1. After(w) = SetMode(Target(w), x)
        BY <1>3, <3>1 DEF After, Target
      <4> QED BY <1>4, <2>2, <4>1, DirsGrown
    <3> QED BY <1>7, <2>3, <3>1
  <2>5. Completes(w)
    BY <2>1, <2>3, <2>4, WithoutIs DEF Completes
  <2> QED BY <1>1, <2>3, <2>5, WithoutIs
<1>13. CASE CopyFails(w)
  <2>1. PICK x : x = work[w].item
    OBVIOUS
  <2>2. IsItem(x)
    BY <1>1, <2>1 DEF IsWork
  <2>3. /\ work[w].at = "copy" /\ offset' = offset /\ work' = Without(w, x)
        /\ bars' = With(w, x, BarSays(x, work[w].pos))
        /\ fs' = fs \/ (Of(w).op = "pull" /\ fs' = [fs EXCEPT ![Here] = SetMode(@, x)])
    BY <1>13, <2>1 DEF CopyFails
  <2>4. Grown(Target(w), After(w), {})
    <3>1. CASE Of(w).op = "pull" /\ fs' = [fs EXCEPT ![Here] = SetMode(@, x)]
      <4>1. Writes(w) = Here
        BY <3>1 DEF Writes
      <4>2. After(w) = SetMode(Target(w), x)
        BY <1>3, <3>1, <4>1 DEF After, Target
      <4> QED BY <1>4, <2>2, <4>2, DirsGrown
    <3> QED BY <1>7, <2>3, <3>1
  <2>5. Drops(w, x)
    BY <1>15, <2>1, <2>3, <2>4, WithoutIs DEF Drops
  <2> QED BY <1>1, <2>3, <2>5, WithoutIs
<1>14. ~doRM(w) /\ ~Request(w)
  BY <1>1 DEF doRM, Request
<1> QED BY <1>8, <1>9, <1>10, <1>11, <1>12, <1>13, <1>14, Zenon DEF Worker

-----------------------------------------------------------------------------
(* What a request leaves on a server is a tree.                            *)
LEMMA AnswerTree ==
  ASSUME TypeInv, NEW l, IsLine(l), NEW s \in Servers, NEW t, IsTree(t)
  PROVE  IsTree(Answer(l, s, t))
<1>1. s \in Machines
  BY DEF Machines
<1>2. PICK p \in Path : p = Join(s, l.dst).p
  BY <1>1, JoinIsPath DEF IsLine, PathArg
<1>3. CASE l.op \in {"mkdir", "mkdirp"}
  <2>1. IsTree(mkdir(l, s, t))
    BY <1>2, MkdirGrown, MkdirAllGrown DEF mkdir, Grown
  <2> QED BY <1>3, <2>1 DEF Answer
<1>4. CASE l.op = "rm"
  BY <1>4, RemovedTree DEF Answer, rm
<1>5. CASE l.op = "rename"
  <2>1. PICK old \in Path, new \in Path : old = l.src[1].p /\ new = l.dst.p
    <3>1. l.src[1] \in PathArg
      BY <1>5 DEF IsLine
    <3> QED BY <3>1 DEF IsLine, PathArg
  <2>2. Answer(l, s, t) = Rename(t, old, new)
    BY <1>5, <2>1 DEF Answer, rename
  <2> QED BY <2>2, RenameTree
<1>6. CASE l.op = "symlink"
  <2>1. PICK to \in PathArg : to = Join(s, l.src[1])
    <3>1. l.src[1] \in PathArg
      BY <1>6 DEF IsLine
    <3> QED BY <1>1, <3>1, JoinIsPath
  <2>2. Answer(l, s, t) = Symlink(t, to, p)
    BY <1>2, <1>6, <2>1 DEF Answer, symlink
  <2> QED BY <2>2, SymlinkTree
<1>7. CASE l.op = "chmod"
  <2>1. Answer(l, s, t) = Chmod(t, p, "x")
    BY <1>2, <1>7 DEF Answer, chmod
  <2> QED BY <2>1, ChmodGrown DEF Grown
<1>8. CASE l.op \in {"chown", "chgrp"}
  <2>1. Answer(l, s, t) = t \/ \E own : Answer(l, s, t) = Chown(t, p, own)
    BY <1>2, <1>8 DEF Answer, chown, chgrp
  <2> QED BY <2>1, ChownTree
<1>9. CASE l.op \notin {"mkdir", "mkdirp", "rm", "rename", "symlink", "chmod", "chown", "chgrp"}
  BY <1>9 DEF Answer
<1> QED BY <1>3, <1>4, <1>5, <1>6, <1>7, <1>8, <1>9

(* A goroutine that copies nothing.                                        *)
LEMMA OtherSteps ==
  ASSUME TypeInv, ScpInv, CommandInv, NEW w \in Workers, Of(w).op \notin Copies, Worker(w)
  PROVE  /\ IsWork(work'[w]) /\ work'[w].at \notin {"off", "start", "copy"} /\ (work'[w].at = "gone" => w[1] = n)
         /\ UNCHANGED <<bars, offset>> /\ IsTree(fs'[Writes(w)])
<1>1. IsWork(work[w]) /\ DOMAIN work = Workers /\ work[w].at # "copy" /\ DOMAIN fs = Machines
  BY DEF TypeInv, CommandInv
<1>2. w[1] \in 1..MaxLines /\ w[2] \in Servers /\ Servers \subseteq Machines
  BY DEF Workers, Machines
<1>3. Writes(w) = Server(w) /\ Server(w) \in Machines /\ Server(w) = w[2] /\ IsTree(fs[Server(w)])
  BY <1>2 DEF Writes, Copies, Server, TypeInv
<1>4. IsLine(Of(w))
  BY <1>2 DEF TypeInv, Of
<1>5. ASSUME NEW at, work' = [work EXCEPT ![w].at = at]
      PROVE  IsWork(work'[w]) /\ work'[w].at = at
  <2>1. work'[w] = [work[w] EXCEPT !.at = at]
    BY <1>1, <1>5
  <2> QED BY <1>1, <2>1, WorkMoves
<1>6. CASE Start(w)
  <2>1. Of(w).op = "rmr" /\ UNCHANGED <<fs, bars, offset>>
    BY <1>6 DEF Start, Copies
  <2>2. PICK T : T = Todo(w)
    OBVIOUS
  <2>3. \A x \in T : IsItem(x)
    BY <2>1, <2>2, TodoFacts
  <2>4. work' = [work EXCEPT ![w].at = "next", ![w].todo = T]
    BY <1>6, <2>2 DEF Start
  <2>5. work'[w] = [work[w] EXCEPT !.at = "next", !.todo = T]
    BY <1>1, <2>4
  <2>6. work'[w] = Getting(work[w], "next", T)
    BY <2>5 DEF Getting
  <2>7. IsWork(work'[w]) /\ work'[w].at = "next"
    BY <1>1, <2>3, <2>6, WorkGets
  <2> QED BY <1>3, <2>1, <2>7
<1>7. CASE Finish(w) \/ Exit(w)
  <2>1. UNCHANGED <<fs, bars, offset>>
    BY <1>7 DEF Finish, Exit
  <2>2. work' = [work EXCEPT ![w].at = "exit"] \/ (work' = [work EXCEPT ![w].at = "gone"] /\ w[1] = n)
    BY <1>7 DEF Finish, Exit
  <2> QED BY <1>3, <1>5, <2>1, <2>2
<1>8. CASE doRM(w)
  <2>1. PICK x \in work[w].todo :
          \/ /\ fs' = [fs EXCEPT ![Server(w)] = Removed(@, x.from)]
             /\ work' = Without(w, x)
          \/ fs' = fs /\ work' = [work EXCEPT ![w].at = "exit"]
    BY <1>8 DEF doRM
  <2>2. UNCHANGED <<bars, offset>>
    BY <1>8 DEF doRM
  <2>3. IsTree(fs'[Server(w)])
    <3>1. fs'[Server(w)] = Removed(fs[Server(w)], x.from) \/ fs' = fs
      BY <1>1, <1>3, <2>1
    <3> QED BY <1>3, <3>1, RemovedTree
  <2>4. CASE work' = Without(w, x)
    BY <1>3, <2>2, <2>3, <2>4, WithoutIs DEF Dropped
  <2>5. CASE work' = [work EXCEPT ![w].at = "exit"]
    BY <1>3, <1>5, <2>2, <2>3, <2>5
  <2> QED BY <2>1, <2>4, <2>5
<1>9. CASE Request(w)
  <2>1. /\ UNCHANGED <<bars, offset>> /\ work' = [work EXCEPT ![w].at = "exit"]
        /\ fs' = fs \/ fs' = [fs EXCEPT ![Server(w)] = Answer(Of(w), Server(w), @)]
    BY <1>9 DEF Request
  <2>2. fs'[Server(w)] = fs[Server(w)] \/ fs'[Server(w)] = Answer(Of(w), Server(w), fs[Server(w)])
    BY <1>1, <1>3, <2>1
  <2>3. IsTree(fs'[Server(w)])
    BY <1>2, <1>3, <1>4, <2>2, AnswerTree
  <2>4. IsWork(work'[w]) /\ work'[w].at = "exit"
    BY <1>5, <2>1, Zenon
  <2> QED BY <1>3, <2>1, <2>3, <2>4
<1>10. ~Copy(w) /\ ~Chunk(w) /\ ~CopyEnd(w) /\ ~CopyFails(w)
  BY <1>1 DEF Copy, Chunk, CopyEnd, CopyFails
<1>11. Start(w) \/ (Finish(w) \/ Exit(w)) \/ doRM(w) \/ Request(w)
  BY <1>10, Zenon DEF Worker
<1> QED BY <1>6, <1>7, <1>8, <1>9, <1>11

(* A step of any goroutine,                                                *)
LEMMA WorkerTypes ==
  ASSUME TypeInv, ScpInv, CommandInv, NEW w \in Workers, Worker(w)
  PROVE  TypeInv' /\ CommandInv'
<1>1. /\ UNCHANGED <<prog, n, line>> /\ phase' = phase
      /\ DOMAIN work' = Workers /\ work[w].at # "off"
      /\ \A v \in Workers : v # w => work'[v] = work[v]
      /\ DOMAIN fs' = Machines
      /\ \A m \in Machines : m # Writes(w) => fs'[m] = fs[m]
  BY WorkerFacts DEF ScpInv
<1>2. UNCHANGED <<conn, pwd, left, walk>>
  BY DEF Worker, Start, Finish, Copy, Chunk, CopyEnd, CopyFails, doRM, Request, Exit, session
<1> DEFINE Fine == /\ IsWork(work'[w]) /\ offset' \in Nat /\ IsTree(fs'[Writes(w)])
                   /\ work'[w].at # "start"
                   /\ work'[w].at = "copy" => Of(w).op \in Copies
                   /\ Of(w).op = "via" => work'[w].todo \subseteq work[w].todo
<1>3. Fine
  <2>1. CASE Of(w).op \in Copies
    <3>1. IsWork(work'[w]) /\ offset' \in Nat
      BY <2>1, CopySteps
    <3>2. CASE Begins(w)
      BY <2>1, <3>1, <3>2 DEF Begins, Grown, After, CommandInv
    <3>3. CASE Leaves(w)
      BY <2>1, <3>1, <3>3 DEF Leaves, Grown, After
    <3>4. ASSUME NEW x, Drops(w, x)
          PROVE  Fine
      BY <2>1, <3>1, <3>4 DEF Drops, Dropped, Grown, After
    <3>5. ASSUME NEW x, Opens(w, x)
          PROVE  Fine
      BY <2>1, <3>1, <3>5 DEF Opens, Grown, After
    <3>6. CASE Takes(w)
      BY <2>1, <3>1, <3>6 DEF Takes, Grown, After
    <3>7. CASE Completes(w)
      BY <2>1, <3>1, <3>7 DEF Completes, Dropped, Grown, After
    <3> QED BY <2>1, <3>2, <3>3, <3>4, <3>5, <3>6, <3>7, CopySteps, Zenon
  <2>2. CASE Of(w).op \notin Copies
    BY <2>2, OtherSteps DEF TypeInv, Copies
  <2> QED BY <2>1, <2>2
<1>4. TypeInv'
  <2>1. \A m \in Machines : IsTree(fs'[m])
    BY <1>1, <1>3 DEF TypeInv
  <2>2. \A v \in Workers : IsWork(work'[v])
    BY <1>1, <1>3 DEF TypeInv
  <2> QED BY <1>1, <1>2, <1>3, <2>1, <2>2 DEF TypeInv
<1>5. CommandInv'
  <2>1. work[w] # Idle
    BY <1>1 DEF Idle
  <2>2. Targets' = Targets /\ Cmd' = Cmd /\ \A v : Of(v)' = Of(v)
    BY <1>1, <1>2 DEF Targets, Cmd, Clients, Of
  <2>3. phase \notin {"start", "connect"} /\ ~(w[1] > n)
    BY <2>1 DEF CommandInv
  <2>4. ASSUME NEW v \in Workers
        PROVE  /\ v[1] > n => work'[v] = Idle
               /\ v[1] = n /\ work'[v].at # "off" => v[2] \in Targets /\ ~(phase = "spawn" /\ v[2] \in left)
               /\ Of(v).op = "via" => /\ work'[v].at # "start"
                                      /\ \A x \in work'[v].todo : x.stat.kind # "dir"
               /\ work'[v].at = "copy" => Of(v).op \in Copies
    <3>1. CASE v # w
      BY <1>1, <3>1 DEF CommandInv
    <3>2. CASE v = w
      BY <1>1, <1>3, <2>3, <3>2 DEF CommandInv
    <3> QED BY <3>1, <3>2
  <2>5. left' \subseteq Clients' <=> left \subseteq Clients
    BY <1>2 DEF Clients
  <2> QED BY <1>1, <1>2, <2>2, <2>3, <2>4, <2>5 DEF CommandInv
<1> QED BY <1>4, <1>5

(* of the program at first,                                                *)
LEMMA TypesInit == Init => TypeInv /\ CommandInv
<1> SUFFICES ASSUME Init
             PROVE  TypeInv /\ CommandInv
  OBVIOUS
<1>1. Arg(FALSE, <<>>) \in PathArg /\ Arg(TRUE, <<>>) \in PathArg
  BY DEF Arg, PathArg, Path
<1>2. IsLine(NoLine) /\ NoLine.op = "none"
  <2>1. NoLine.op = "none" /\ NoLine.src = <<>> /\ NoLine.dst = Arg(TRUE, <<>>)
    BY DEF NoLine
  <2>2. NoLine.src \in Seq(PathArg)
    BY <2>1
  <2> QED BY <1>1, <2>1, <2>2 DEF IsLine
<1>3. /\ phase = "start" /\ prog = "none" /\ n = 1 /\ bars = {} /\ walk = {} /\ offset = 0
      /\ DOMAIN line = 1..MaxLines /\ \A i \in 1..MaxLines : line[i] = NoLine
      /\ DOMAIN work = Workers /\ \A w \in Workers : work[w] = Idle
      /\ DOMAIN pwd = Machines /\ \A m \in Machines : pwd[m] = Arg(FALSE, <<>>)
      /\ DOMAIN conn = Servers
  BY DEF Init
<1>4. 1 \in 1..MaxLines /\ DOMAIN fs = Machines /\ \A m \in Machines : IsTree(fs[m])
  BY FilesAssumption DEF FilesAssumption, Init
<1>5. TypeInv
  BY <1>1, <1>2, <1>3, <1>4, IdleWork DEF TypeInv
<1>6. \A w \in Workers : Of(w).op # "via"
  BY <1>2, <1>3 DEF Of, Workers
<1>7. CommandInv
  BY <1>2, <1>3, <1>6, IdleWork DEF CommandInv, Cmd
<1> QED BY <1>5, <1>7

(* The command bssh was called with.                                       *)
LEMMA CalledTypes ==
  ASSUME TypeInv, ScpInv, CommandInv, ScpInv', (\E a \in ScpLines : lscpAction(a)) \/ lsftpAction
  PROVE  TypeInv' /\ CommandInv'
<1>1. /\ phase = "start" /\ phase' \in {"end", "connect"} /\ prog' \in {"scp", "sftp"}
      /\ UNCHANGED <<fs, n, conn, told, pwd, left, walk, offset, work, bars>>
  BY DEF lscpAction, lsftpAction
<1>2. n = 1 /\ bars = {} /\ walk = {} /\ \A w \in Workers : work[w] = Idle
  BY <1>1 DEF CommandInv
<1> DEFINE Lines == /\ DOMAIN line' = 1..MaxLines /\ \A i \in 1..MaxLines : i # 1 => line'[i] = line[i]
                    /\ IsLine(line'[1])
                    /\ line' = line \/ line'[1].op # "via" \/ (phase' = "connect" /\ prog' = "scp")
<1>3. Lines
  <2>1. ASSUME NEW a \in ScpLines, lscpAction(a)
        PROVE  Lines
    <3>1. prog' = "scp" /\ (phase' = "connect" \/ line' = line)
      BY <2>1 DEF lscpAction
    <3>2. CASE line' = line
      BY <1>2, <3>2 DEF TypeInv
    <3>3. ASSUME phase' = "connect", NEW chosen, NEW source,
                 line' = [line EXCEPT ![1] = parseFromToServer(a, chosen, source)]
          PROVE  Lines
      <4>1. PICK l : l = parseFromToServer(a, chosen, source)
        OBVIOUS
      <4>2. PICK src : src = [i \in DOMAIN a.from |-> Arg(TRUE, a.from[i].p)]
        OBVIOUS
      <4>3. a.from \in Seq([remote : BOOLEAN, p : Path]) /\ a.to.p \in Path
        BY FilesAssumption DEF FilesAssumption
      <4>4. src \in Seq(PathArg)
        <5>1. PICK g \in Seq([remote : BOOLEAN, p : Path]) : g = a.from
          BY <4>3
        <5>2. ASSUME NEW i \in 1..Len(g)
              PROVE  Arg(TRUE, g[i].p) \in PathArg
          <6>1. g[i] \in [remote : BOOLEAN, p : Path]
            BY <5>1, ElementOfSeq
          <6>2. g[i].p \in Path
            BY <6>1
          <6> QED BY <6>2 DEF Arg, PathArg
        <5>3. src = [i \in 1..Len(g) |-> Arg(TRUE, g[i].p)] /\ Len(g) \in Nat
          BY <4>2, <5>1
        <5>4. src \in [1..Len(g) -> PathArg]
          BY <5>2, <5>3
        <5>5. PICK k \in Nat : k = Len(g)
          BY <5>3
        <5>6. src \in [1..k -> PathArg]
          BY <5>4, <5>5
        <5> QED BY <5>6
      <4>5. l.src = src /\ l.dst = Arg(TRUE, a.to.p) /\ l.op \in {"push", "pull", "via"}
        BY <4>1, <4>2 DEF parseFromToServer
      <4>6. IsLine(l)
        BY <4>3, <4>4, <4>5 DEF IsLine, Arg, PathArg
      <4> QED BY <1>2, <3>1, <3>3, <4>1, <4>6 DEF TypeInv
    <3> QED BY <2>1, <3>2, <3>3, Zenon DEF lscpAction
  <2>2. CASE lsftpAction
    <3>1. PICK chosen : line' = [line EXCEPT ![1] = [NoLine EXCEPT !.to = chosen]]
      BY <2>2 DEF lsftpAction
    <3>2. PICK l : l = [NoLine EXCEPT !.to = chosen]
      OBVIOUS
    <3>3. l.op = "none" /\ l.src = <<>> /\ l.dst = Arg(TRUE, <<>>)
      BY <3>2 DEF NoLine
    <3>4. IsLine(l)
      BY <3>3 DEF IsLine, Arg, PathArg, Path
    <3> QED BY <1>2, <3>1, <3>2, <3>3, <3>4 DEF TypeInv
  <2> QED BY <2>1, <2>2
<1>4. TypeInv'
  BY <1>1, <1>3 DEF TypeInv
<1>5. \A i \in 1..MaxLines : line'[i].op = "via" => prog' = "scp" /\ ScpCommand(line'[i])
  <2>1. \A i \in 1..MaxLines : line[i].op # "via"
    BY <1>1 DEF CommandInv, ScpInv
  <2>2. phase' = "connect" /\ prog' = "scp" => ScpCommand(line'[1])
    BY DEF ScpInv
  <2> QED BY <1>2, <1>3, <2>1, <2>2
<1>6. \A w \in Workers : work'[w] = Idle
  BY <1>1, <1>2
<1> QED BY <1>1, <1>2, <1>4, <1>5, <1>6, IdleWork DEF CommandInv

(* A line that is typed.                                                   *)
LEMMA MovesArePaths ==
  ASSUME TypeInv, NEW a \in PathArg, cd(a) \/ cdHome \/ lcd(a) \/ pwd' = pwd
  PROVE  DOMAIN pwd' = Machines /\ \A m \in Machines : pwd'[m] \in PathArg
<1>1. ASSUME NEW s \in Machines
      PROVE  CdPath(s, a) \in PathArg
  <2>1. PICK p \in PathArg : p = Join(s, a)
    BY JoinIsPath
  <2>2. CdPath(s, a) = p \/ \E e \in DOMAIN fs[s] : CdPath(s, a) = fs[s][e].to
    BY <2>1, Zenon DEF CdPath, Is
  <2> QED BY <2>2 DEF TypeInv, IsTree, IsNode
<1>2. Clients \subseteq Machines
  BY DEF Clients, Machines
<1>3. CASE cd(a)
  <2>1. pwd' = pwd \/ \E s \in Clients : pwd' = [m \in Machines |-> IF m \in Clients THEN CdPath(s, a) ELSE pwd[m]]
    BY <1>3, Zenon DEF cd
  <2>2. ASSUME NEW s \in Clients, pwd' = [m \in Machines |-> IF m \in Clients THEN CdPath(s, a) ELSE pwd[m]]
        PROVE  DOMAIN pwd' = Machines /\ \A m \in Machines : pwd'[m] \in PathArg
    <3>1. PICK p \in PathArg : p = CdPath(s, a)
      BY <1>1, <1>2
    <3> QED BY <2>2, <3>1 DEF TypeInv
  <2> QED BY <2>1, <2>2 DEF TypeInv
<1>4. CASE cdHome
  <2>1. Arg(FALSE, <<>>) \in PathArg
    BY DEF Arg, PathArg, Path
  <2>2. PICK p \in PathArg : p = Arg(FALSE, <<>>)
    BY <2>1
  <2> QED BY <1>4, <2>2 DEF cdHome, TypeInv
<1>5. CASE lcd(a)
  <2>1. PICK p \in PathArg : p = Join(Here, a)
    BY JoinIsPath DEF Machines
  <2>2. pwd' = pwd \/ pwd' = [pwd EXCEPT ![Here] = p]
    BY <1>5, <2>1, Zenon DEF lcd
  <2> QED BY <2>1, <2>2 DEF TypeInv
<1> QED BY <1>3, <1>4, <1>5 DEF TypeInv

LEMMA TypedTypes ==
  ASSUME TypeInv, ScpInv, CommandInv, ScpInv', NEW l \in SftpLines, Executor(l)
  PROVE  TypeInv' /\ CommandInv'
<1>1. /\ phase = "prompt" /\ n < MaxLines /\ n' = n + 1 /\ prog' = prog /\ conn' = conn
      /\ line' = [line EXCEPT ![n + 1] = Typed(l)]
      /\ bars' = {} /\ walk' = walk /\ offset' = offset
  BY DEF Executor
<1>2. prog = "sftp" /\ n \in 1..MaxLines /\ n + 1 \in 1..MaxLines
  BY <1>1, FilesAssumption DEF ScpInv, FilesAssumption
<1>3. /\ l.op \notin {"push", "pull", "via"} /\ l.src \in Seq(PathArg) /\ l.dst \in PathArg
      /\ l.op \in {"get", "put", "rename", "symlink"} => Len(l.src) = 1
  BY FilesAssumption DEF FilesAssumption
<1>4. Here \in Machines
  BY DEF Machines
<1>5. IsLine(Typed(l)) /\ Typed(l).op = l.op
  <2>1. PICK d \in PathArg : d = Join(Here, l.dst)
    BY <1>3, <1>4, JoinIsPath
  <2>2. PICK src : src = IF l.op = "put" THEN <<Join(Here, l.src[1])>> ELSE l.src
    OBVIOUS
  <2>3. src \in Seq(PathArg) /\ (l.op \in {"get", "put", "rename", "symlink"} => Len(src) = 1)
    <3>1. CASE l.op = "put"
      <4>1. l.src[1] \in PathArg
        BY <1>3, <3>1
      <4>2. PICK p \in PathArg : p = Join(Here, l.src[1])
        BY <1>4, <4>1, JoinIsPath
      <4> QED BY <2>2, <3>1, <4>2
    <3> QED BY <1>3, <2>2, <3>1
  <2>4. PICK dst \in PathArg : dst = IF l.op = "get" THEN Join(Here, l.dst) ELSE l.dst
    BY <1>3, <2>1
  <2>5. Typed(l) = [op |-> l.op, from |-> {}, to |-> {}, src |-> src, dst |-> dst]
    BY <2>2, <2>4 DEF Typed
  <2> QED BY <2>3, <2>5 DEF IsLine
<1>6. /\ DOMAIN line' = 1..MaxLines /\ line'[n + 1] = Typed(l)
      /\ \A i \in 1..MaxLines : i # n + 1 => line'[i] = line[i]
  BY <1>1, <1>2 DEF TypeInv
<1>7. DOMAIN pwd' = Machines /\ \A m \in Machines : pwd'[m] \in PathArg
  <2>1. cd(l.dst) \/ cdHome \/ lcd(l.dst) \/ pwd' = pwd
    BY DEF Executor
  <2> QED BY <1>3, <2>1, MovesArePaths
<1>8. DOMAIN fs' = Machines /\ \A m \in Machines : IsTree(fs'[m])
  <2> DEFINE t == fs[Here]
  <2>1. PICK p \in Path : p = Join(Here, l.dst).p
    <3>1. Join(Here, l.dst) \in PathArg
      BY <1>3, <1>4, JoinIsPath
    <3> QED BY <3>1 DEF PathArg
  <2>2. \E u \in {t, Mkdir(t, p), MkdirAll(t, p)} : fs' = [fs EXCEPT ![Here] = u]
    BY <2>1 DEF Executor, parseTarget, lmkdir
  <2>3. PICK u \in {t, Mkdir(t, p), MkdirAll(t, p)} : fs' = [fs EXCEPT ![Here] = u]
    BY <2>2
  <2>4. IsTree(u)
    BY <1>4, <2>1, <2>3, MkdirGrown, MkdirAllGrown DEF TypeInv, Grown
  <2> QED BY <1>4, <2>3, <2>4 DEF TypeInv
<1>9. /\ DOMAIN work' = Workers
      /\ \A w \in Workers : \/ work'[w] = work[w]
                            \/ work'[w] = Started /\ w[1] = n + 1 /\ w[2] \in Clients /\ phase' # "spawn"
  BY <1>1 DEF Executor, Alone
<1>10. TypeInv'
  BY <1>1, <1>2, <1>5, <1>6, <1>7, <1>8, <1>9, IdleWork DEF TypeInv
<1>11. /\ phase' \notin {"start", "connect", "via"}
       /\ phase' = "spawn" => l.op = "get" /\ left' = Clients
       /\ phase' = "rmdir" => l.op = "rmdir"
  BY <1>1 DEF Executor
<1>12. Cmd' = Typed(l) /\ Targets' = Clients /\ Clients' = Clients
  BY <1>1, <1>2, <1>6 DEF Cmd, Targets, Clients
<1>13. \A i \in 1..MaxLines : line'[i].op # "via"
  BY <1>2, <1>3, <1>5, <1>6 DEF CommandInv
<1>14. ASSUME NEW w \in Workers
       PROVE  /\ w[1] > n + 1 => work'[w] = Idle
              /\ w[1] = n + 1 /\ work'[w].at # "off" => w[2] \in Clients /\ phase' # "spawn"
              /\ work'[w].at = "copy" => line'[w[1]].op \in Copies
              /\ line'[w[1]].op # "via"
  <2>1. w[1] \in 1..MaxLines
    BY DEF Workers
  <2>2. w[1] >= n + 1 => work[w] = Idle
    BY <1>2, <2>1 DEF CommandInv
  <2>3. work'[w].at = "copy" => work[w].at = "copy" /\ work'[w] = work[w]
    BY <1>9, IdleWork
  <2>4. work'[w].at = "copy" => w[1] # n + 1
    BY <2>2, <2>3, <1>2, <2>1, IdleWork
  <2> QED BY <1>2, <1>6, <1>9, <1>13, <2>1, <2>2, <2>3, <2>4, IdleWork DEF CommandInv, Of
<1>15. CommandInv'
  BY <1>1, <1>5, <1>11, <1>12, <1>13, <1>14 DEF CommandInv, Of
<1> QED BY <1>10, <1>15

(* The walk of viaPushPath.                                                *)
LEMMA WalkItems ==
  ASSUME TypeInv, ScpInv, CommandInv, Connected, phase' = "via"
  PROVE  /\ Cmd.op = "via" /\ Unlike(walk')
         /\ \A x \in walk' : IsItem(x) /\ \A s \in Servers : Within(Cmd, s, x.i, x.from, x.to)
         /\ \A x \in walk' : Seen(fs[Source], x)
<1>1. Cmd.op = "via"
  BY DEF Connected
<1>2. n \in 1..MaxLines /\ IsLine(Cmd) /\ ScpCommand(Cmd)
  BY <1>1 DEF TypeInv, CommandInv, Cmd
<1>3. PICK t : t = fs[Source] /\ IsTree(t)
  <2>1. PICK s \in Servers : Cmd.from = {s}
    BY <1>1, <1>2 DEF ScpCommand
  <2>2. Source = s
    BY <2>1 DEF Source
  <2> QED BY <2>2 DEF TypeInv, Machines
<1>4. PICK paths : /\ \A i \in DOMAIN Cmd.src : paths[i] \subseteq Walk(t, Cmd.src[i].p)
                   /\ walk' = UNION {Items(i, t, paths[i], <<>>, <<>>) : i \in DOMAIN Cmd.src}
  <2>1. walk' = UNION {Items(i, t, {q \in Walk(t, Cmd.src[i].p) : Visible(Cmd.src[i].p, q)}, <<>>, <<>>)
                         : i \in DOMAIN Cmd.src}
    BY <1>3 DEF Connected
  <2> DEFINE P == [i \in DOMAIN Cmd.src |-> {q \in Walk(t, Cmd.src[i].p) : Visible(Cmd.src[i].p, q)}]
  <2>2. \A i \in DOMAIN Cmd.src : /\ P[i] = {q \in Walk(t, Cmd.src[i].p) : Visible(Cmd.src[i].p, q)}
                                  /\ P[i] \subseteq Walk(t, Cmd.src[i].p)
    OBVIOUS
  <2> HIDE DEF P
  <2>3. walk' = UNION {Items(i, t, P[i], <<>>, <<>>) : i \in DOMAIN Cmd.src}
    BY <2>1, <2>2
  <2> QED BY <2>2, <2>3
<1>5. \A p \in Path : <<>> \o Rel(<<>>, p) = p
  <2>1. ASSUME NEW p \in Path
        PROVE  <<>> \o Rel(<<>>, p) = p
    BY DEF Path, Rel
  <2> QED BY <2>1
<1>6. ASSUME NEW x \in walk'
      PROVE  /\ x.i \in DOMAIN Cmd.src /\ x \in Items(x.i, t, paths[x.i], <<>>, <<>>)
             /\ IsItem(x) /\ \A s \in Servers : Within(Cmd, s, x.i, x.from, x.to)
  <2>1. PICK i \in DOMAIN Cmd.src : x \in Items(i, t, paths[i], <<>>, <<>>)
    BY <1>4
  <2> DEFINE e == <<>>
             S == paths[i]
  <2>8. x \in Items(i, t, S, e, e)
    BY <2>1
  <2> HIDE DEF e, S
  <2>9. x.i = i /\ x.from \in S /\ x.to = e \o Rel(e, x.from)
    BY <2>8, ItemFields
  <2> USE DEF e, S
  <2>2. x.i = i /\ x.from \in paths[i] /\ x.to = <<>> \o Rel(<<>>, x.from)
    BY <2>9
  <2>10. Cmd.src[i] \in PathArg
    BY <1>2 DEF IsLine
  <2>3. PICK f \in Path : f = Cmd.src[i].p
    BY <2>10 DEF PathArg
  <2>4. PICK r \in Path : r = Rel(f, x.from) /\ x.from = f \o r /\ x.from \in Path
    BY <1>3, <1>4, <2>2, <2>3, WalkPaths
  <2>5. x.to = x.from
    BY <1>5, <2>2, <2>4
  <2>6. i \in Sources(Cmd)
    BY <1>1 DEF Sources
  <2>7. ASSUME NEW s \in Servers
        PROVE  Within(Cmd, s, i, x.from, x.to)
    <3>1. From(Cmd, s, i) = f /\ To(Cmd, s, i) = f
      BY <1>1, <1>2, <2>3, <2>6, FromIsPath DEF From
    <3> QED BY <2>4, <2>5, <2>6, <3>1 DEF Within
  <2> QED BY <2>1, <2>2, <2>4, <2>5, <2>7 DEF IsItem
<1>7. ASSUME NEW x \in walk', NEW y \in walk', x.i = y.i, x.from = y.from
      PROVE  x = y
  <2>1. x \in Items(x.i, t, paths[x.i], <<>>, <<>>) /\ y \in Items(x.i, t, paths[x.i], <<>>, <<>>)
    BY <1>6, <1>7
  <2> QED BY <1>7, <2>1, ItemsUnlike
<1>8. ASSUME NEW x \in walk'
      PROVE  Seen(t, x)
  <2>1. IsItem(x) /\ \E i, S, e : x \in Items(i, t, S, e, e)
    BY <1>6
  <2>2. x.stat = t[Entry(t, x.from)]
    BY <2>1, ItemFields
  <2> QED BY <1>3, <2>1, <2>2, StatIsSeen DEF IsItem
<1> QED BY <1>1, <1>3, <1>6, <1>7, <1>8 DEF Unlike

(* of the program when its servers are connected,                          *)
LEMMA ConnectedTypes ==
  ASSUME TypeInv, ScpInv, CommandInv, Connected
  PROVE  TypeInv' /\ CommandInv'
<1>1. /\ phase = "connect" /\ UNCHANGED <<fs, prog, n, line, conn, pwd, left, offset, bars>>
      /\ phase' \in {"prompt", "end", "via", "wait"} 
      /\ phase' = "via" => Cmd.op = "via"
      /\ phase' # "via" => walk' = {}
  BY DEF Connected
<1>2. \A x \in walk' : IsItem(x)
  BY <1>1, WalkItems
<1>3. /\ DOMAIN work' = Workers
      /\ \A w \in Workers : \/ work'[w] = work[w]
                            \/ /\ work'[w] = Started /\ w[1] = n /\ w[2] \in Targets
                               /\ phase' = "wait" /\ Cmd.op # "via"
  BY DEF Connected, Spawn, TypeInv
<1>4. TypeInv'
  BY <1>1, <1>2, <1>3, IdleWork DEF TypeInv
<1>5. Targets' = Targets /\ Cmd' = Cmd /\ (\A w : Of(w)' = Of(w)) /\ \A w \in Workers : w[1] = n => Of(w) = Cmd
  BY <1>1 DEF Targets, Cmd, Clients, Of
<1>6. ASSUME NEW w \in Workers
      PROVE  /\ w[1] > n => work'[w] = Idle
             /\ w[1] = n /\ work'[w].at # "off" => w[2] \in Targets
             /\ Of(w).op = "via" => /\ work'[w].at # "start"
                                    /\ \A x \in work'[w].todo : x.stat.kind # "dir"
             /\ work'[w].at # "copy"
  <2>1. w[1] \in Nat /\ n \in Nat
    BY DEF Workers, ScpInv
  <2> QED BY <1>1, <1>3, <1>5, <2>1, IdleWork DEF CommandInv
<1>7. \A w \in Workers :
        /\ w[1] > n' => work'[w] = Idle
        /\ w[1] = n' /\ work'[w].at # "off" => w[2] \in Targets' /\ phase' # "spawn"
        /\ Of(w)'.op = "via" => /\ work'[w].at # "start"
                                /\ \A x \in work'[w].todo : x.stat.kind # "dir"
        /\ work'[w].at = "copy" => Of(w)'.op \in Copies
  BY <1>1, <1>5, <1>6
<1>8. /\ phase' \notin {"start", "connect", "spawn", "rmdir"} /\ (phase' = "via" => Cmd'.op = "via")
      /\ \A i \in 1..MaxLines : line'[i].op = "via" => prog' = "scp" /\ ScpCommand(line'[i])
  BY <1>1, <1>5 DEF CommandInv
<1>9. CommandInv'
  BY <1>7, <1>8, Zenon DEF CommandInv
<1> QED BY <1>4, <1>9

(* of the walk between servers,                                            *)
LEMMA ViaTypes ==
  ASSUME TypeInv, ScpInv, CommandInv, ViaStep
  PROVE  TypeInv' /\ CommandInv'
<1>1. phase = "via" /\ UNCHANGED <<prog, n, line, conn, pwd, left, bars>> /\ Cmd.op = "via"
  BY DEF ViaStep, CommandInv
<1>2. PICK x \in walk :
        /\ walk' = walk \ {x}
        /\ \/ /\ fs' = [m \in Machines |-> IF m \in Targets /\ Alive(m) THEN Mkdir(fs[m], x.from) ELSE fs[m]]
              /\ UNCHANGED <<phase, offset, work>>
           \/ /\ x.stat.kind # "dir" /\ offset' = 0 /\ phase' = "wait" /\ fs' = fs
              /\ work' = [w \in Workers |-> IF w[1] = n /\ w[2] \in Targets
                            THEN [Idle EXCEPT !.at = "next", !.todo = {x}] ELSE work[w]]
           \/ UNCHANGED <<fs, phase, offset, work>>
  BY Zenon DEF ViaStep
<1>3. IsItem(x)
  BY DEF TypeInv
<1>4. PICK fresh : fresh = WorkOf("next", {x}, NoItem, <<>>, 0)
  OBVIOUS
<1>5. [Idle EXCEPT !.at = "next", !.todo = {x}] = fresh
  <2>1. PICK T : T = {x}
    OBVIOUS
  <2>2. PICK y : y = [Idle EXCEPT !.at = "next"]
    OBVIOUS
  <2>3. y = WorkOf("next", {}, NoItem, <<>>, 0)
    BY <2>2 DEF Idle, WorkOf
  <2>4. [Idle EXCEPT !.at = "next", !.todo = T] = [y EXCEPT !.todo = T]
    BY <2>2 DEF Idle
  <2>5. [WorkOf("next", {}, NoItem, <<>>, 0) EXCEPT !.todo = T] = WorkOf("next", T, NoItem, <<>>, 0)
    BY DEF WorkOf
  <2> QED BY <1>4, <2>1, <2>3, <2>4, <2>5, Zenon
<1>6. IsWork(fresh) /\ fresh.at = "next" /\ fresh.todo = {x}
  <2>1. IsItem(NoItem) /\ <<>> \in Seq(Nat)
    BY DEF IsItem, NoItem, Path
  <2> QED BY <1>3, <1>4, <2>1 DEF WorkOf, IsWork
<1>7. DOMAIN fs' = Machines /\ \A m \in Machines : IsTree(fs'[m])
  <2>1. x.from \in Path
    BY <1>3 DEF IsItem
  <2>2. \A m \in Machines : IsTree(Mkdir(fs[m], x.from))
    BY <2>1, MkdirGrown DEF TypeInv, Grown
  <2> QED BY <1>2, <2>2 DEF TypeInv
<1>8. /\ DOMAIN work' = Workers
      /\ \A w \in Workers : \/ work'[w] = work[w]
                            \/ work'[w] = fresh /\ x.stat.kind # "dir" /\ w[1] = n /\ w[2] \in Targets
  BY <1>2, <1>5 DEF TypeInv
<1>9. offset' \in Nat /\ phase' \in {"via", "wait"} /\ walk' \subseteq walk
  BY <1>1, <1>2 DEF TypeInv
<1>10. TypeInv'
  BY <1>1, <1>6, <1>7, <1>8, <1>9 DEF TypeInv
<1>11. Targets' = Targets /\ Cmd' = Cmd /\ \A w : Of(w)' = Of(w)
  BY <1>1 DEF Targets, Cmd, Clients, Of
<1>12. \A w \in Workers : w[1] \in Nat /\ n \in Nat
  BY DEF Workers, ScpInv
<1>13. CommandInv'
  BY <1>1, <1>6, <1>8, <1>9, <1>11, <1>12 DEF CommandInv
<1> QED BY <1>10, <1>13

(* of the loops over the clients,                                          *)
LEMMA LoopTypes ==
  ASSUME TypeInv, ScpInv, CommandInv, NEW s \in Servers, rmdir(s) \/ getAction(s)
  PROVE  TypeInv' /\ CommandInv'
<1>1. /\ phase \in {"rmdir", "spawn"} /\ UNCHANGED <<prog, n, line, conn, pwd, walk, offset, bars>>
      /\ phase' \in {phase, "prompt", "wait"} /\ left' \subseteq left
      /\ s \in left /\ IsLine(Cmd) /\ s \in Machines /\ Here \in Machines
  BY DEF rmdir, getAction, Remaining, TypeInv, Cmd, Machines
<1>2. prog = "sftp" /\ Targets = Clients /\ Targets' = Targets /\ Clients' = Clients /\ Cmd' = Cmd
      /\ \A w : Of(w)' = Of(w)
  BY <1>1 DEF ScpInv, Targets, Clients, Cmd, Of
<1>3. DOMAIN fs' = Machines /\ \A m \in Machines : IsTree(fs'[m])
  <2>1. CASE rmdir(s)
    <3>1. fs' = fs \/ fs' = [fs EXCEPT ![s] = Removed(fs[s], Cmd.dst.p)]
      BY <2>1 DEF rmdir
    <3>2. IsTree(Removed(fs[s], Cmd.dst.p))
      BY <1>1, RemovedTree DEF TypeInv
    <3> QED BY <1>1, <3>1, <3>2 DEF TypeInv
  <2>2. CASE getAction(s)
    <3>1. PICK b \in Path : b = LocalBase(Cmd, s)
      BY <1>1, LocalBaseIsPath
    <3>2. PICK t : t = MkdirAll(fs[Here], b)
      OBVIOUS
    <3>3. fs' = fs \/ fs' = [fs EXCEPT ![Here] = t]
      BY <2>2, <3>1, <3>2 DEF getAction
    <3>4. IsTree(t)
      BY <1>1, <3>2, MkdirAllGrown DEF TypeInv, Grown
    <3> QED BY <1>1, <3>3, <3>4 DEF TypeInv
  <2> QED BY <2>1, <2>2
<1>4. /\ DOMAIN work' = Workers
      /\ \A w \in Workers : \/ work'[w] = work[w]
                            \/ /\ work'[w] = Started /\ phase = "spawn" /\ w[1] = n /\ w[2] = s
                               /\ s \notin left'
  <2>1. work' = work \/ (phase = "spawn" /\ work' = Spawn({s}) /\ s \notin left')
    BY DEF rmdir, getAction
  <2> QED BY <2>1 DEF Spawn, TypeInv
<1>5. TypeInv'
  BY <1>1, <1>3, <1>4, IdleWork DEF TypeInv
<1>6. phase = "spawn" => Cmd.op = "get" /\ s \in Clients
  BY <1>1 DEF CommandInv
<1>7. ASSUME NEW w \in Workers
      PROVE  /\ w[1] > n => work'[w] = Idle
             /\ w[1] = n /\ work'[w].at # "off" => w[2] \in Targets /\ ~(phase' = "spawn" /\ w[2] \in left')
             /\ Of(w).op = "via" => /\ work'[w].at # "start"
                                    /\ \A x \in work'[w].todo : x.stat.kind # "dir"
             /\ work'[w].at = "copy" => Of(w).op \in Copies
  <2>1. w[1] \in Nat /\ n \in Nat
    BY DEF Workers, ScpInv
  <2>2. w[1] = n => Of(w) = Cmd
    BY DEF Of, Cmd
  <2>3. w[1] = n /\ work'[w].at # "off" => w[2] \in Targets /\ ~(phase' = "spawn" /\ w[2] \in left')
    BY <1>1, <1>2, <1>4, <1>6, <2>1 DEF CommandInv
  <2> QED BY <1>2, <1>4, <1>6, <2>1, <2>2, <2>3, IdleWork DEF CommandInv
<1>8. CommandInv'
  BY <1>1, <1>2, <1>6, <1>7 DEF CommandInv
<1> QED BY <1>5, <1>8

(* and so any step keeps what the variables hold.                          *)
LEMMA TypesStep ==
  ASSUME TypeInv, ScpInv, CommandInv, ScpInv', [Next]_vars
  PROVE  TypeInv' /\ CommandInv'
<1>1. ASSUME UNCHANGED <<fs, pwd, line, n, work, walk, offset, prog, bars, left, Targets, Clients>>,
             DOMAIN conn' = DOMAIN conn, phase' = phase \/ (phase' \in {"prompt", "via", "end"} /\ (phase' = "via" => Cmd.op = "via"))
      PROVE  TypeInv' /\ CommandInv'
  <2>1. Cmd' = Cmd /\ \A w : Of(w)' = Of(w)
    BY <1>1 DEF Cmd, Of
  <2>2. TypeInv'
    BY <1>1 DEF TypeInv
  <2>3. CommandInv'
    BY <1>1, <2>1 DEF CommandInv
  <2> QED BY <2>2, <2>3
<1>2. CASE (\E a \in ScpLines : lscpAction(a)) \/ lsftpAction
  BY <1>2, CalledTypes
<1>3. ASSUME NEW l \in SftpLines, Executor(l)
      PROVE  TypeInv' /\ CommandInv'
  BY <1>3, TypedTypes
<1>4. CASE Connected
  BY <1>4, ConnectedTypes
<1>5. CASE Waited \/ ViaEnd
  <2>1. UNCHANGED <<fs, pwd, line, n, work, walk, offset, prog, bars, left, conn>>
    BY <1>5 DEF Waited, ViaEnd
  <2>2. phase' \in {"prompt", "via", "end"} /\ (phase' = "via" => Cmd.op = "via")
    BY <1>5 DEF Waited, ViaEnd
  <2>3. UNCHANGED <<Targets, Clients>>
    BY <2>1 DEF Targets, Clients, Cmd
  <2> QED BY <1>1, <2>1, <2>2, <2>3
<1>6. CASE ViaStep
  BY <1>6, ViaTypes
<1>7. ASSUME NEW s \in Servers, createConnect(s)
      PROVE  TypeInv' /\ CommandInv'
  <2>1. /\ phase = "connect" /\ phase' = phase /\ DOMAIN conn' = DOMAIN conn
        /\ UNCHANGED <<fs, pwd, line, n, work, walk, offset, prog, bars, left>>
    BY <1>7 DEF createConnect
  <2>2. TypeInv'
    BY <2>1 DEF TypeInv
  <2>3. Cmd' = Cmd /\ \A w : Of(w)' = Of(w)
    BY <2>1 DEF Cmd, Of
  <2>4. CommandInv'
    BY <2>1, <2>3, IdleWork DEF CommandInv
  <2> QED BY <2>2, <2>4
<1>8. ASSUME NEW s \in Servers, Lose(s)
      PROVE  TypeInv' /\ CommandInv'
  <2>1. /\ phase' = phase /\ conn[s] = "up" /\ conn' = [conn EXCEPT ![s] = "lost"]
        /\ UNCHANGED <<fs, pwd, line, n, work, walk, offset, prog, bars, left>>
    BY <1>8 DEF Lose
  <2>2. Clients' = Clients /\ DOMAIN conn' = DOMAIN conn
    BY <2>1 DEF Clients, TypeInv
  <2>3. Targets' = Targets
    BY <2>1, <2>2 DEF Targets, Cmd
  <2> QED BY <1>1, <2>1, <2>2, <2>3
<1>9. ASSUME NEW s \in Servers, rmdir(s) \/ getAction(s)
      PROVE  TypeInv' /\ CommandInv'
  BY <1>9, LoopTypes
<1>10. ASSUME NEW w \in Workers, Worker(w)
       PROVE  TypeInv' /\ CommandInv'
  BY <1>10, WorkerTypes
<1>11. CASE UNCHANGED vars
  <2>1. /\ phase' = phase /\ conn' = conn
        /\ UNCHANGED <<fs, pwd, line, n, work, walk, offset, prog, bars, left>>
    BY <1>11 DEF vars, session
  <2>2. UNCHANGED <<Targets, Clients>>
    BY <2>1 DEF Targets, Clients, Cmd
  <2> QED BY <1>1, <2>1, <2>2
<1> QED BY <1>2, <1>3, <1>4, <1>5, <1>6, <1>7, <1>8, <1>9, <1>10, <1>11, Zenon DEF Next, Progress, Main

-----------------------------------------------------------------------------
(* The goroutine for server s, what it reads and writes, and what it has   *)
(* still to do.                                                            *)
Goroutine(s) == work[<<n, s>>]
Src(s) == fs[Reads(<<n, s>>)]
Dst(s) == fs[Writes(<<n, s>>)]
Pending(s) == Goroutine(s).todo \cup (IF Cmd.op = "via" THEN walk ELSE {})
Holds(t, p, data) == Real(t, p) \in DOMAIN t /\ t[Real(t, p)].data = data
Copying == ~Abandoned /\ Cmd.op \in Copies /\ Single

(* What is still to be copied is below its source, and goes below the      *)
(* place of that source.                                                   *)
ItemsInv ==
  Cmd.op \in Copies => \A s \in Targets :
    /\ \A x \in Pending(s) : Within(Cmd, s, x.i, x.from, x.to)
    /\ Unlike(Pending(s))
    /\ IF Goroutine(s).at = "copy" THEN Goroutine(s).item \in Goroutine(s).todo ELSE Goroutine(s).pos = 0
    /\ Cmd.op = "via" => \A x \in Goroutine(s).todo : x \notin walk /\ \A y \in Goroutine(s).todo : x = y

(* A file that is being copied is at the target as far as it has been      *)
(* read.                                                                   *)
OpenInv ==
  Copying => \A s \in Targets :
    LET g == Goroutine(s)
    IN /\ g.at = "copy" =>
            /\ g.data = Src(s)[Real(Src(s), g.item.from)].data
            /\ g.pos <= Len(g.data)
            /\ Cmd.op = "via" => offset = g.pos
            /\ Apart => Holds(Dst(s), g.item.to, SubSeq(g.data, 1, g.pos))
       /\ Cmd.op = "via" /\ g.at = "next" /\ g.todo # {} => offset = 0

(* The size of a file that is to be copied is the one it has.              *)
SeenInv == Copying => \A s \in Targets : \A x \in Pending(s) : Seen(Src(s), x)

(* A file that is done is there, and is not copied again.                  *)
SaysDone(b) == b.says = "end" \/ (b.says = "done" /\ b.kind = "file")
BarsInv ==
  Copying => \A b \in bars : SaysDone(b) =>
    /\ b.on \in Targets /\ Goroutine(b.on).at \notin {"off", "start"}
    /\ \E i : /\ Within(Cmd, b.on, i, b.from, b.to)
              /\ \A x \in Pending(b.on) : ~(x.i = i /\ x.from = b.from)
    /\ Apart => Holds(Dst(b.on), b.to, Src(b.on)[Real(Src(b.on), b.from)].data)

(* As long as the command is the same, so is what it copies, and where.    *)
LEMMA SameCommand ==
  ASSUME UNCHANGED <<n, line, prog, pwd>>, Clients' = Clients
  PROVE  /\ Cmd' = Cmd /\ Targets' = Targets /\ (\A w : Of(w)' = Of(w))
         /\ \A w : Reads(w)' = Reads(w) /\ Writes(w)' = Writes(w)
         /\ \A s, i : From(Cmd, s, i)' = From(Cmd, s, i) /\ To(Cmd, s, i)' = To(Cmd, s, i)
         /\ Sources(Cmd)' = Sources(Cmd) /\ (Single' <=> Single)
         /\ \A s, i, from, to : Within(Cmd, s, i, from, to)' <=> Within(Cmd, s, i, from, to)
<1>1. Cmd' = Cmd /\ Targets' = Targets /\ \A w : Of(w)' = Of(w)
  BY DEF Cmd, Targets, Of
<1>2. Source' = Source
  BY <1>1 DEF Source
<1>3. \A w : Reads(w)' = Reads(w) /\ Writes(w)' = Writes(w)
  BY <1>1, <1>2 DEF Reads, Writes, Server
<1>4. Sources(Cmd)' = Sources(Cmd) /\ (Single' <=> Single)
  BY <1>1 DEF Sources, Single
<1>5. \A s, a : Join(s, a)' = Join(s, a)
  BY DEF Join
<1>6. \A s : LocalBase(Cmd, s)' = LocalBase(Cmd, s)
  <2>1. Several(Cmd)' = Several(Cmd)
    BY <1>1 DEF Several
  <2> QED BY <1>1, <2>1 DEF LocalBase
<1>7. \A s, i : From(Cmd, s, i)' = From(Cmd, s, i)
  BY <1>1 DEF From, Join
<1>8. \A s, i : To(Cmd, s, i)' = To(Cmd, s, i)
  BY <1>1, <1>6, <1>7 DEF To, Join
<1>9. \A s, i, from, to : Within(Cmd, s, i, from, to)' <=> Within(Cmd, s, i, from, to)
  BY <1>4, <1>7, <1>8 DEF Within
<1> QED BY <1>1, <1>3, <1>4, <1>7, <1>8, <1>9

(* Files that are different for their sources are at different places.     *)
LEMMA Places ==
  ASSUME TypeInv, Cmd.op \in Copies, Apart, NEW s \in Targets, NEW u \in Targets,
         NEW i, NEW f, NEW p, Within(Cmd, s, i, f, p),
         NEW j, NEW g, NEW q, Within(Cmd, u, j, g, q),
         Writes(<<n, s>>) \in Machines, Writes(<<n, s>>) = Writes(<<n, u>>),
         ~(s = u /\ i = j /\ f = g)
  PROVE  Real(Dst(s), p) # Real(Dst(s), q)
<1>1. s \in Servers /\ u \in Servers /\ IsLine(Cmd) /\ IsTree(Dst(s))
  BY DEF Targets, Clients, TypeInv, Cmd, Dst
<1>2. i \in Sources(Cmd) /\ j \in Sources(Cmd)
  BY DEF Within
<1>3. From(Cmd, s, i) \in Path /\ To(Cmd, s, i) \in Path /\ From(Cmd, u, j) \in Path /\ To(Cmd, u, j) \in Path
  BY <1>1, <1>2, FromIsPath
<1>4. PICK a \in Path, b \in Path : a = To(Cmd, s, i) /\ b = To(Cmd, u, j)
  BY <1>3
<1>5. PICK r \in Path, v \in Path : /\ f = From(Cmd, s, i) \o r /\ p = a \o r
                                    /\ g = From(Cmd, u, j) \o v /\ q = b \o v
  BY <1>4 DEF Within
<1>6. /\ \A x \in DOMAIN Dst(s) : x # a /\ IsPrefix(a, x) => ~Is(Dst(s), x, "link")
      /\ \A x \in DOMAIN Dst(s) : x # b /\ IsPrefix(b, x) => ~Is(Dst(s), x, "link")
  BY <1>2, <1>4 DEF Apart, Dst
<1>7. PICK t : t = Dst(s) /\ IsTree(t)
  BY <1>1
<1>8. Real(t, p) = Real(t, a) \o r /\ Real(t, q) = Real(t, b) \o v
  BY <1>5, <1>6, <1>7, RealBelow
<1>9. PICK x \in Path, y \in Path : x = Real(t, a) /\ y = Real(t, b)
  BY <1>7, RealIsPath
<1>10. CASE s = u /\ i = j
  <2>1. r # v
    BY <1>5, <1>10
  <2>2. x = y
    BY <1>4, <1>9, <1>10
  <2>3. Rel(x, x \o r) = r /\ Rel(x, x \o v) = v
    BY PathJoin
  <2> QED BY <1>7, <1>8, <1>9, <2>1, <2>2, <2>3
<1>11. CASE <<s, i>> # <<u, j>>
  <2>1. ~IsPrefix(x, y)
    BY <1>2, <1>4, <1>7, <1>9, <1>11 DEF Apart, Dst
  <2>2. ~IsPrefix(y, x)
    BY <1>2, <1>4, <1>7, <1>9, <1>11 DEF Apart, Dst
  <2>3. x \o r # y \o v
    BY <2>1, <2>2, PathsApart
  <2> QED BY <1>7, <1>8, <1>9, <2>3
<1> QED BY <1>10, <1>11

(* A file that a copy does not write to stays as it is.                    *)
LEMMA FileKept ==
  ASSUME NEW t, NEW u, NEW E, Grown(t, u, E), NEW p \in Path, NEW data, Holds(t, p, data), Real(t, p) \notin E
  PROVE  Holds(u, p, data)
<1>1. Real(u, p) = Real(t, p)
  BY GrownLinks
<1> QED BY <1>1 DEF Holds, Grown

(* Sources that are apart after a step of a copy were so before.           *)
LEMMA ApartBefore ==
  ASSUME TypeInv, Cmd.op \in Copies, UNCHANGED <<n, line, prog, pwd>>, Clients' = Clients, Apart',
         \A s \in Targets : \E E : Grown(Dst(s), fs'[Writes(<<n, s>>)], E)
  PROVE  Apart
<1> SUFFICES ASSUME NEW s \in Targets, NEW u \in Targets, NEW i \in Sources(Cmd), NEW j \in Sources(Cmd)
             PROVE  /\ \A q \in DOMAIN Dst(s) : q # To(Cmd, s, i) /\ IsPrefix(To(Cmd, s, i), q) => ~Is(Dst(s), q, "link")
                    /\ Writes(<<n, s>>) = Writes(<<n, u>>) /\ <<s, i>> # <<u, j>>
                         => ~IsPrefix(Real(Dst(s), To(Cmd, s, i)), Real(Dst(s), To(Cmd, u, j)))
  BY DEF Apart, Dst
<1>1. PICK E : Grown(Dst(s), fs'[Writes(<<n, s>>)], E)
  OBVIOUS
<1>2. PICK t, v : t = Dst(s) /\ v = fs'[Writes(<<n, s>>)] /\ Grown(t, v, E)
  BY <1>1
<1>3. s \in Servers /\ u \in Servers /\ IsLine(Cmd)
  BY DEF Targets, Clients, TypeInv, Cmd
<1>4. PICK p \in Path, q \in Path : p = To(Cmd, s, i) /\ q = To(Cmd, u, j)
  BY <1>3, FromIsPath
<1>5. Real(v, p) = Real(t, p) /\ Real(v, q) = Real(t, q) /\ \A x : Is(t, x, "link") <=> Is(v, x, "link")
  BY <1>2, GrownLinks
<1>6. DOMAIN t \subseteq DOMAIN v
  BY <1>2 DEF Grown
<1>7. /\ \A x \in DOMAIN v : x # p /\ IsPrefix(p, x) => ~Is(v, x, "link")
      /\ Writes(<<n, s>>) = Writes(<<n, u>>) /\ <<s, i>> # <<u, j>> => ~IsPrefix(Real(v, p), Real(v, q))
  <2>1. /\ Targets' = Targets /\ Sources(Cmd)' = Sources(Cmd) /\ n' = n
        /\ Writes(<<n, s>>)' = Writes(<<n, s>>) /\ Writes(<<n, u>>)' = Writes(<<n, u>>)
        /\ To(Cmd, s, i)' = p /\ To(Cmd, u, j)' = q
    BY <1>4, SameCommand
  <2> QED BY <1>2, <2>1 DEF Apart
<1> QED BY <1>2, <1>4, <1>5, <1>6, <1>7

-----------------------------------------------------------------------------
(* The step of a goroutine that copies for server s, as the others see it. *)
LEMMA CopierFacts ==
  ASSUME TypeInv, ScpInv, CommandInv, ItemsInv, Cmd.op \in Copies, NEW s \in Targets, Worker(<<n, s>>)
  PROVE  /\ <<n, s>> \in Workers /\ s \in Servers /\ Of(<<n, s>>) = Cmd /\ IsWork(Goroutine(s))
         /\ UNCHANGED <<n, line, prog, pwd, phase, left, walk>> /\ Clients' = Clients
         /\ Goroutine(s)' = work'[<<n, s>>]
         /\ \A u \in Targets : u # s => Goroutine(u)' = Goroutine(u)
         /\ \A u \in Targets : Src(u)' = Src(u)
         /\ \A u \in Targets : Writes(<<n, u>>) # Writes(<<n, s>>) => Dst(u)' = Dst(u)
         /\ Writes(<<n, s>>) \in Machines /\ IsTree(Dst(s)) /\ IsTree(Src(s))
         /\ Dst(s) = Target(<<n, s>>) /\ Dst(s)' = After(<<n, s>>)
         /\ Src(s) = fs[Reads(<<n, s>>)]
         /\ Abandoned => Abandoned'
<1>1. Targets \subseteq Servers /\ n \in 1..MaxLines
  BY DEF Targets, Clients, ScpInv
<1>2. \A u \in Targets : <<n, u>> \in Workers /\ Of(<<n, u>>) = Cmd
  BY <1>1 DEF Workers, Of, Cmd
<1>3. PICK w \in Workers : w = <<n, s>> /\ Worker(w) /\ w[1] = n
  BY <1>2
<1>4. /\ UNCHANGED <<prog, n, line>> /\ phase' = phase
      /\ \A v \in Workers : v # w => work'[v] = work[v]
      /\ \A m \in Machines : m # Writes(w) => fs'[m] = fs[m]
  BY <1>3, WorkerFacts DEF TypeInv
<1>5. UNCHANGED <<conn, pwd, left, walk>>
  BY <1>3 DEF Worker, Start, Finish, Copy, Chunk, CopyEnd, CopyFails, doRM, Request, Exit, session
<1>6. Clients' = Clients
  BY <1>5 DEF Clients
<1>7. \A v : Reads(v)' = Reads(v) /\ Writes(v)' = Writes(v)
  BY <1>4, <1>5, <1>6, SameCommand
<1>8. ASSUME NEW u \in Targets
      PROVE  /\ Reads(<<n, u>>) \in Machines /\ Writes(<<n, u>>) \in Machines
             /\ Reads(<<n, u>>) # Writes(w)
  <2>1. PICK v \in Workers : v = <<n, u>> /\ v[1] = n /\ Of(v) = Cmd
    BY <1>2
  <2>2. v[1] <= n
    BY <1>1, <2>1
  <2>3. Reads(v) \in Machines /\ Writes(v) \in Machines /\ \A r \in Targets : Writes(<<n, r>>) # Reads(v)
    BY <2>1, <2>2, ReadsWrites
  <2> QED BY <1>3, <2>1, <2>3
<1>9. \A u \in Targets : /\ Src(u)' = Src(u)
                         /\ Writes(<<n, u>>) # Writes(w) => Dst(u)' = Dst(u)
  BY <1>4, <1>7, <1>8 DEF Src, Dst
<1>10. \A u \in Targets : u # s => Goroutine(u)' = Goroutine(u)
  BY <1>2, <1>3, <1>4 DEF Goroutine
<1>11. Dst(s)' = After(w) /\ Dst(s) = Target(w)
  BY <1>3, <1>4, <1>7 DEF Dst, After, Target
<1>12. Abandoned => Abandoned'
  <2>1. \A v \in Workers : v[1] < n => v # w
    BY <1>1, <1>3
  <2> QED BY <1>4, <2>1 DEF Abandoned
<1> QED BY <1>1, <1>2, <1>3, <1>4, <1>5, <1>6, <1>8, <1>9, <1>10, <1>11, <1>12
        DEF Goroutine, Src, Dst, TypeInv

(* Of the tree it changes at most the place of what is pending.            *)
LEMMA CopierGrows ==
  ASSUME TypeInv, ScpInv, CommandInv, ItemsInv, Cmd.op \in Copies, NEW s \in Targets, Worker(<<n, s>>)
  PROVE  \E E : /\ Grown(Dst(s), Dst(s)', E)
                /\ E = {} \/ \E y \in Pending(s) : E = {Real(Dst(s), y.to)}
<1>1. PICK w \in Workers : w = <<n, s>> /\ Worker(w) /\ Of(w) \in {Cmd} /\ work[w] = Goroutine(s)
                           /\ Dst(s) = Target(w) /\ Dst(s)' = After(w)
  BY CopierFacts DEF Goroutine
<1>2. Goroutine(s).todo \subseteq Pending(s)
  BY DEF Pending
<1>3. Goroutine(s).at = "copy" => Goroutine(s).item \in Pending(s)
  BY <1>2 DEF ItemsInv
<1>4. CASE Begins(w) \/ Leaves(w) \/ Completes(w)
  BY <1>1, <1>4 DEF Begins, Leaves, Completes
<1>8. ASSUME NEW x, Drops(w, x)
      PROVE  \E E : /\ Grown(Dst(s), Dst(s)', E)
                    /\ E = {} \/ \E y \in Pending(s) : E = {Real(Dst(s), y.to)}
  <2>1. CASE Grown(Target(w), After(w), {})
    BY <1>1, <2>1
  <2>2. CASE x \in work[w].todo /\ Grown(Target(w), After(w), {Real(Target(w), x.to)})
    BY <1>1, <1>2, <2>2
  <2> QED BY <1>8, <2>1, <2>2 DEF Drops
<1>5. ASSUME NEW x, Opens(w, x)
      PROVE  \E E : /\ Grown(Dst(s), Dst(s)', E)
                    /\ E = {} \/ \E y \in Pending(s) : E = {Real(Dst(s), y.to)}
  BY <1>1, <1>2, <1>5 DEF Opens
<1>6. CASE Takes(w)
  BY <1>1, <1>3, <1>6 DEF Takes
<1>7. \/ Begins(w) \/ Leaves(w) \/ \E x : Drops(w, x)
      \/ \E x : Opens(w, x)
      \/ Takes(w) \/ Completes(w)
  BY <1>1, CopySteps
<1> QED BY <1>4, <1>5, <1>6, <1>7, <1>8, Zenon

(* A file that is no longer pending stays as it is.                        *)
LEMMA OthersKept ==
  ASSUME TypeInv, ScpInv, CommandInv, ItemsInv, Cmd.op \in Copies, NEW s \in Targets, Worker(<<n, s>>),
         Apart, NEW u \in Targets, NEW j, NEW g, NEW q, NEW data, Within(Cmd, u, j, g, q), Holds(Dst(u), q, data),
         \A y \in Pending(s) : ~(s = u /\ y.i = j /\ y.from = g)
  PROVE  Holds(Dst(u)', q, data)
<1>1. CASE Writes(<<n, u>>) # Writes(<<n, s>>)
  <2>1. Dst(u)' = Dst(u)
    BY <1>1, CopierFacts
  <2> QED BY <2>1
<1>2. CASE Writes(<<n, u>>) = Writes(<<n, s>>)
  <2>1. UNCHANGED <<n, line, prog, pwd>> /\ Clients' = Clients /\ Writes(<<n, s>>) \in Machines /\ u \in Servers
    BY CopierFacts DEF Targets, Clients
  <2>2. Dst(u) = Dst(s) /\ Dst(u)' = Dst(s)'
    <3>1. n' = n /\ Writes(<<n, u>>)' = Writes(<<n, u>>) /\ Writes(<<n, s>>)' = Writes(<<n, s>>)
      BY <2>1, SameCommand
    <3> QED BY <1>2, <3>1 DEF Dst
  <2>3. PICK E : /\ Grown(Dst(s), Dst(s)', E)
                 /\ E = {} \/ \E y \in Pending(s) : E = {Real(Dst(s), y.to)}
    BY CopierGrows
  <2>4. ASSUME NEW y \in Pending(s)
        PROVE  Real(Dst(s), q) # Real(Dst(s), y.to)
    <3>1. Within(Cmd, s, y.i, y.from, y.to)
      BY DEF ItemsInv
    <3> QED BY <1>2, <2>1, <3>1, Places
  <2>5. q \in Path
    <3>1. To(Cmd, u, j) \in Path
      <4>1. j \in Sources(Cmd) /\ IsLine(Cmd)
        BY DEF Within, TypeInv, Cmd
      <4> QED BY <2>1, <4>1, FromIsPath
    <3>2. PICK a \in Path, r \in Path : q = a \o r
      BY <3>1 DEF Within
    <3> QED BY <3>2, PathJoin
  <2>6. Real(Dst(s), q) \notin E
    BY <2>3, <2>4
  <2>7. PICK t, v : t = Dst(s) /\ v = Dst(s)' /\ Grown(t, v, E) /\ Holds(t, q, data) /\ Real(t, q) \notin E
    BY <2>2, <2>3, <2>6
  <2>8. Holds(v, q, data)
    BY <2>5, <2>7, FileKept
  <2> QED BY <2>2, <2>7, <2>8
<1> QED BY <1>1, <1>2

LEMMA CopierItems ==
  ASSUME TypeInv, ScpInv, CommandInv, ItemsInv, Cmd.op \in Copies, NEW s \in Targets, Worker(<<n, s>>)
  PROVE  ItemsInv'
<1>1. PICK w \in Workers : w = <<n, s>> /\ Worker(w) /\ Of(w) = Cmd /\ work[w] = Goroutine(s)
                           /\ work'[w] = Goroutine(s)'
  BY CopierFacts DEF Goroutine
<1>2. /\ UNCHANGED <<n, line, prog, pwd, walk>> /\ Clients' = Clients /\ s \in Servers
      /\ \A u \in Targets : u # s => Goroutine(u)' = Goroutine(u)
  BY CopierFacts
<1>3. /\ Cmd' = Cmd /\ Targets' = Targets
      /\ \A u, i, from, to : Within(Cmd, u, i, from, to)' <=> Within(Cmd, u, i, from, to)
  BY <1>2, SameCommand
<1> DEFINE P == Goroutine(s)'.todo \cup (IF Cmd.op = "via" THEN walk ELSE {})
           Fine == /\ \A x \in P : Within(Cmd, s, x.i, x.from, x.to)
                   /\ Unlike(P)
                   /\ IF Goroutine(s)'.at = "copy" THEN Goroutine(s)'.item \in Goroutine(s)'.todo ELSE Goroutine(s)'.pos = 0
                   /\ Cmd.op = "via" => \A x \in Goroutine(s)'.todo : x \notin walk /\ \A y \in Goroutine(s)'.todo : x = y
<1>4. Fine
  <2>1. ASSUME Goroutine(s)'.todo \subseteq Goroutine(s).todo,
               IF Goroutine(s)'.at = "copy" THEN Goroutine(s)'.item \in Goroutine(s)'.todo ELSE Goroutine(s)'.pos = 0
        PROVE  Fine
    <3>1. P \subseteq Pending(s)
      BY <2>1 DEF Pending
    <3> QED BY <2>1, <3>1 DEF ItemsInv, Unlike
  <2>2. CASE Begins(w)
    <3>1. Cmd.op # "via" /\ Goroutine(s)'.todo = Todo(w) /\ Goroutine(s)'.at = "next" /\ Goroutine(s)'.pos = 0
      BY <1>1, <2>2 DEF Begins, CommandInv, ItemsInv
    <3>2. P = Todo(w)
      BY <3>1
    <3>3. Server(w) = s
      BY <1>1 DEF Server
    <3>4. (\A x \in Todo(w) : Within(Cmd, s, x.i, x.from, x.to)) /\ Unlike(Todo(w))
      BY <1>1, <3>1, <3>3, TodoFacts
    <3> QED BY <3>1, <3>2, <3>4
  <2>3. CASE Leaves(w)
    BY <1>1, <2>1, <2>3 DEF Leaves, ItemsInv
  <2>4. ASSUME NEW x, Drops(w, x)
        PROVE  Fine
    BY <1>1, <2>1, <2>4 DEF Drops, Dropped
  <2>5. ASSUME NEW x, Opens(w, x)
        PROVE  Fine
    BY <1>1, <2>1, <2>5 DEF Opens
  <2>6. CASE Takes(w)
    BY <1>1, <2>1, <2>6 DEF Takes, ItemsInv
  <2>7. CASE Completes(w)
    BY <1>1, <2>1, <2>7 DEF Completes, Dropped
  <2>8. \/ Begins(w) \/ Leaves(w) \/ \E x : Drops(w, x)
        \/ \E x : Opens(w, x)
        \/ Takes(w) \/ Completes(w)
    BY <1>1, CopySteps
  <2> HIDE DEF Fine
  <2> QED BY <2>2, <2>3, <2>4, <2>5, <2>6, <2>7, <2>8
<1>5. Pending(s)' = P /\ \A u \in Targets : u # s => Pending(u)' = Pending(u)
  BY <1>2, <1>3 DEF Pending
<1>6. ASSUME NEW u \in Targets
      PROVE  /\ \A x \in Pending(u)' : Within(Cmd, u, x.i, x.from, x.to)
             /\ Unlike(Pending(u)')
             /\ IF Goroutine(u)'.at = "copy" THEN Goroutine(u)'.item \in Goroutine(u)'.todo ELSE Goroutine(u)'.pos = 0
             /\ Cmd.op = "via" => \A x \in Goroutine(u)'.todo : x \notin walk /\ \A y \in Goroutine(u)'.todo : x = y
  <2>1. CASE u = s
    BY <1>4, <1>5, <2>1
  <2>2. CASE u # s
    BY <1>2, <1>5, <2>2 DEF ItemsInv
  <2> QED BY <2>1, <2>2
<1>7. \A u : Unlike(Pending(u)') <=> Unlike(Pending(u))'
  BY DEF Unlike
<1> HIDE DEF Fine, P
<1> QED BY <1>2, <1>3, <1>6, <1>7 DEF ItemsInv

(* The sources were apart before its step,                                 *)
LEMMA CopierApart ==
  ASSUME TypeInv, ScpInv, CommandInv, ItemsInv, Cmd.op \in Copies, NEW s \in Targets, Worker(<<n, s>>), Apart'
  PROVE  Apart
<1>1. /\ UNCHANGED <<n, line, prog, pwd>> /\ Clients' = Clients /\ IsTree(Dst(s))
      /\ \A u \in Targets : Writes(<<n, u>>) # Writes(<<n, s>>) => Dst(u)' = Dst(u)
  BY CopierFacts
<1>2. \A u \in Targets : n' = n /\ Writes(<<n, u>>)' = Writes(<<n, u>>)
  BY <1>1, SameCommand
<1>3. ASSUME NEW u \in Targets
      PROVE  \E E : Grown(Dst(u), fs'[Writes(<<n, u>>)], E)
  <2>1. CASE Writes(<<n, u>>) = Writes(<<n, s>>)
    <3>1. Dst(u) = Dst(s) /\ Dst(s)' = fs'[Writes(<<n, u>>)]
      BY <1>2, <2>1 DEF Dst
    <3> QED BY <3>1, CopierGrows
  <2>2. CASE Writes(<<n, u>>) # Writes(<<n, s>>)
    <3>1. fs'[Writes(<<n, u>>)] = Dst(u)
      BY <1>1, <1>2, <2>2 DEF Dst
    <3>2. IsTree(Dst(u))
      <4>1. u \in Servers /\ <<n, u>> \in Workers /\ Of(<<n, u>>) = Cmd /\ n \in Nat
        BY DEF Targets, Clients, Workers, ScpInv, Of, Cmd
      <4>2. PICK v \in Workers : v = <<n, u>> /\ v[1] <= n /\ Of(v) \in Copies \cup {Of(v)} /\ Of(v) = Cmd
        BY <4>1
      <4>3. Writes(v) \in Machines
        BY <4>2, ReadsWrites
      <4> QED BY <4>2, <4>3 DEF Dst, TypeInv
    <3> QED BY <3>1, <3>2, GrownSame
  <2> QED BY <2>1, <2>2
<1> QED BY <1>1, <1>3, ApartBefore

(* and the file it has open is what it should be,                          *)
LEMMA CopierOpen ==
  ASSUME TypeInv, ScpInv, CommandInv, ItemsInv, OpenInv, Cmd.op \in Copies, NEW s \in Targets, Worker(<<n, s>>)
  PROVE  OpenInv'
<1>1. PICK w \in Workers : w = <<n, s>> /\ Worker(w) /\ Of(w) = Cmd /\ work[w] = Goroutine(s)
                           /\ work'[w] = Goroutine(s)' /\ IsWork(work[w])
                           /\ Dst(s) = Target(w) /\ Dst(s)' = After(w) /\ Src(s) = fs[Reads(w)]
  BY CopierFacts DEF Goroutine
<1>2. /\ UNCHANGED <<n, line, prog, pwd, phase, left, walk>> /\ Clients' = Clients /\ s \in Servers
      /\ \A u \in Targets : u # s => Goroutine(u)' = Goroutine(u)
      /\ \A u \in Targets : Src(u)' = Src(u)
      /\ Abandoned => Abandoned'
  BY CopierFacts
<1>3. Cmd' = Cmd /\ Targets' = Targets /\ (Single' <=> Single)
  BY <1>2, SameCommand
<1> SUFFICES ASSUME Copying'
             PROVE  \A u \in Targets :
                      LET g == Goroutine(u)'
                      IN /\ g.at = "copy" =>
                              /\ g.data = Src(u)[Real(Src(u), g.item.from)].data
                              /\ g.pos <= Len(g.data)
                              /\ Cmd.op = "via" => offset' = g.pos
                              /\ Apart' => Holds(Dst(u)', g.item.to, SubSeq(g.data, 1, g.pos))
                         /\ Cmd.op = "via" /\ g.at = "next" /\ g.todo # {} => offset' = 0
  <2>1. \A t, p, d : Holds(t, p, d) <=> Real(t, p) \in DOMAIN t /\ t[Real(t, p)].data = d
    BY DEF Holds
  <2>2. \A u, p, d : Holds(Dst(u)', p, d) <=> Holds(Dst(u), p, d)'
    BY DEF Holds
  <2> QED BY <1>2, <1>3, <2>2 DEF OpenInv
<1>4. Copying /\ Single
  BY <1>2, <1>3 DEF Copying
<1>5. Apart' => Apart
  BY CopierApart
<1> DEFINE g == Goroutine(s)'
           Fine == /\ g.at = "copy" =>
                        /\ g.data = Src(s)[Real(Src(s), g.item.from)].data
                        /\ g.pos <= Len(g.data)
                        /\ Cmd.op = "via" => offset' = g.pos
                        /\ Apart' => Holds(Dst(s)', g.item.to, SubSeq(g.data, 1, g.pos))
                   /\ Cmd.op = "via" /\ g.at = "next" /\ g.todo # {} => offset' = 0
<1>6. Fine
  <2>1. CASE Begins(w)
    BY <1>1, <2>1 DEF Begins, CommandInv
  <2>2. CASE Leaves(w)
    BY <1>1, <2>2 DEF Leaves
  <2>3. ASSUME NEW x, Drops(w, x)
        PROVE  Fine
    <3>1. g.at = "next" /\ g.todo = Goroutine(s).todo \ {x}
      BY <1>1, <2>3 DEF Drops, Dropped
    <3>2. CASE Goroutine(s).at = "next" /\ offset' = offset
      BY <1>4, <3>1, <3>2 DEF OpenInv
    <3>3. CASE Goroutine(s).at = "copy" /\ x = Goroutine(s).item
      BY <3>1, <3>3 DEF ItemsInv
    <3> QED BY <1>1, <2>3, <3>2, <3>3 DEF Drops
  <2>4. CASE Completes(w)
    <3>1. g.at = "next" /\ g.todo = Goroutine(s).todo \ {Goroutine(s).item} /\ Goroutine(s).at = "copy"
      BY <1>1, <2>4 DEF Completes, Dropped
    <3> QED BY <3>1 DEF ItemsInv
  <2>5. ASSUME NEW x, Opens(w, x)
        PROVE  Fine
    <3>1. PICK t, u, r : t = Dst(s) /\ u = Dst(s)' /\ r = Real(t, x.to)
      OBVIOUS
    <3>2. /\ Goroutine(s).at = "next" /\ x \in Goroutine(s).todo /\ Goroutine(s).pos = 0
          /\ g.at = "copy" /\ g.item = x /\ g.data = Src(s)[Real(Src(s), x.from)].data /\ g.pos = 0
          /\ Grown(t, u, {r}) /\ r \in DOMAIN u /\ u[r].data = <<>> /\ offset' = offset
      BY <1>1, <2>5, <3>1 DEF Opens, ItemsInv
    <3>3. x.to \in Path
      BY <1>1, <3>2 DEF IsWork, IsItem
    <3>4. Real(u, x.to) = r
      BY <3>1, <3>2, <3>3, GrownLinks
    <3>5. IsWork(work'[w])
      BY <1>1, CopySteps
    <3>6. g.data \in Seq(Nat)
      BY <1>1, <3>5 DEF IsWork
    <3>7. SubSeq(g.data, 1, 0) = <<>> /\ 0 <= Len(g.data)
      BY <3>6
    <3>8. Cmd.op = "via" => offset = 0
      BY <1>4, <3>2 DEF OpenInv
    <3>9. Holds(u, x.to, <<>>)
      BY <3>2, <3>4 DEF Holds
    <3> QED BY <3>1, <3>2, <3>7, <3>8, <3>9
  <2>6. CASE Takes(w)
    <3>1. PICK t, u, r, x, d, k : /\ t = Dst(s) /\ u = Dst(s)' /\ x = Goroutine(s).item /\ r = Real(t, x.to)
                                  /\ d = Goroutine(s).data /\ k = Goroutine(s).pos
      OBVIOUS
    <3>2. /\ x.to \in Path /\ d \in Seq(Nat) /\ k \in Nat
      BY <1>1, <3>1 DEF IsWork, IsItem
    <3>3. /\ Goroutine(s).at = "copy" /\ g.at = "copy" /\ g.item = x /\ g.data = d /\ g.pos = k + 1
          /\ Grown(t, u, {r})
          /\ Offset(w) < Len(d)
          /\ r \in DOMAIN t /\ k = Len(t[r].data) => u[r].data = Append(t[r].data, d[Offset(w) + 1])
          /\ offset' = IF Cmd.op = "via" THEN offset + 1 ELSE offset
      BY <1>1, <2>6, <3>1 DEF Takes
    <3>4. /\ d = Src(s)[Real(Src(s), x.from)].data
          /\ Cmd.op = "via" => offset = k
          /\ Apart => Holds(t, x.to, SubSeq(d, 1, k))
      BY <1>4, <3>1, <3>3 DEF OpenInv
    <3>5. Offset(w) = k
      BY <1>1, <3>1, <3>4 DEF Offset
    <3>6. k + 1 <= Len(d) /\ k < Len(d)
      BY <3>2, <3>3, <3>5
    <3>7. ASSUME Apart
          PROVE  Holds(u, x.to, SubSeq(d, 1, k + 1))
      <4>1. r \in DOMAIN t /\ t[r].data = SubSeq(d, 1, k)
        BY <3>1, <3>4, <3>7 DEF Holds
      <4>2. Len(SubSeq(d, 1, k)) = k /\ Append(SubSeq(d, 1, k), d[k + 1]) = SubSeq(d, 1, k + 1)
        BY <3>2, <3>6
      <4>3. u[r].data = SubSeq(d, 1, k + 1)
        BY <3>3, <3>5, <4>1, <4>2
      <4>4. Real(u, x.to) = r /\ r \in DOMAIN u
        <5>1. Real(u, x.to) = r
          BY <3>1, <3>2, <3>3, GrownLinks
        <5> QED BY <3>3, <4>1, <5>1 DEF Grown
      <4> QED BY <4>3, <4>4 DEF Holds
    <3> QED BY <1>5, <3>1, <3>3, <3>4, <3>6, <3>7
  <2>7. \/ Begins(w) \/ Leaves(w) \/ \E x : Drops(w, x)
        \/ \E x : Opens(w, x)
        \/ Takes(w) \/ Completes(w)
    BY <1>1, CopySteps
  <2> HIDE DEF Fine
  <2> QED BY <2>1, <2>2, <2>3, <2>4, <2>5, <2>6, <2>7
<1>7. ASSUME NEW u \in Targets, u # s, Goroutine(u).at = "copy"
      PROVE  LET h == Goroutine(u)
             IN /\ h.data = Src(u)[Real(Src(u), h.item.from)].data
                /\ h.pos <= Len(h.data)
                /\ Apart' => Holds(Dst(u)', h.item.to, SubSeq(h.data, 1, h.pos))
  <2>1. PICK x, d, k : x = Goroutine(u).item /\ d = Goroutine(u).data /\ k = Goroutine(u).pos
    OBVIOUS
  <2>2. /\ d = Src(u)[Real(Src(u), x.from)].data /\ k <= Len(d)
        /\ Apart => Holds(Dst(u), x.to, SubSeq(d, 1, k))
    BY <1>4, <1>7, <2>1 DEF OpenInv
  <2>3. Within(Cmd, u, x.i, x.from, x.to)
    <3>1. x \in Pending(u)
      BY <1>7, <2>1 DEF ItemsInv, Pending
    <3> QED BY <3>1 DEF ItemsInv
  <2>4. Apart => Holds(Dst(u)', x.to, SubSeq(d, 1, k))
    BY <1>7, <2>2, <2>3, OthersKept
  <2> QED BY <1>5, <2>1, <2>2, <2>4
<1>8. ASSUME NEW u \in Targets, u # s
      PROVE  Goroutine(u)' = Goroutine(u) /\ Cmd.op # "via"
  BY <1>2, <1>4, <1>8 DEF Single
<1> QED
  <2>1. ASSUME NEW u \in Targets, u # s
        PROVE  LET h == Goroutine(u)'
               IN /\ h.at = "copy" =>
                        /\ h.data = Src(u)[Real(Src(u), h.item.from)].data
                        /\ h.pos <= Len(h.data)
                        /\ Cmd.op = "via" => offset' = h.pos
                        /\ Apart' => Holds(Dst(u)', h.item.to, SubSeq(h.data, 1, h.pos))
                  /\ Cmd.op = "via" /\ h.at = "next" /\ h.todo # {} => offset' = 0
    BY <1>7, <1>8, <2>1
  <2> QED BY <1>6, <2>1

(* and so are the files that are done.                                     *)
LEMMA CopierBars ==
  ASSUME TypeInv, ScpInv, CommandInv, ItemsInv, OpenInv, SeenInv, BarsInv, Cmd.op \in Copies, NEW s \in Targets, Worker(<<n, s>>)
  PROVE  BarsInv'
<1>1. PICK w \in Workers : w = <<n, s>> /\ Worker(w) /\ Of(w) = Cmd /\ work[w] = Goroutine(s)
                           /\ work'[w] = Goroutine(s)' /\ IsWork(work[w])
                           /\ Dst(s) = Target(w) /\ Dst(s)' = After(w) /\ Server(w) = s
  BY CopierFacts DEF Goroutine, Server
<1>2. /\ UNCHANGED <<n, line, prog, pwd, phase, left, walk>> /\ Clients' = Clients /\ s \in Servers
      /\ \A u \in Targets : u # s => Goroutine(u)' = Goroutine(u)
      /\ \A u \in Targets : Src(u)' = Src(u)
      /\ Abandoned => Abandoned'
  BY CopierFacts
<1>3. /\ Cmd' = Cmd /\ Targets' = Targets /\ (Single' <=> Single)
      /\ \A u, i, from, to : Within(Cmd, u, i, from, to)' <=> Within(Cmd, u, i, from, to)
  BY <1>2, SameCommand
<1> DEFINE Fine(b) == /\ b.on \in Targets /\ Goroutine(b.on)'.at \notin {"off", "start"}
                      /\ \E i : /\ Within(Cmd, b.on, i, b.from, b.to)
                                /\ \A x \in Pending(b.on)' : ~(x.i = i /\ x.from = b.from)
                      /\ Apart' => Holds(Dst(b.on)', b.to, Src(b.on)[Real(Src(b.on), b.from)].data)
<1> SUFFICES ASSUME Copying', NEW b \in bars', SaysDone(b)
             PROVE  Fine(b)
  <2>1. \A u, p, d : Holds(Dst(u)', p, d) <=> Holds(Dst(u), p, d)'
    BY DEF Holds
  <2> QED BY <1>2, <1>3, <2>1 DEF BarsInv
<1>4. Copying
  BY <1>2, <1>3 DEF Copying
<1>5. Apart' => Apart
  BY CopierApart
<1>6. \/ Begins(w) \/ Leaves(w) \/ \E x : Drops(w, x)
      \/ \E x : Opens(w, x)
      \/ Takes(w) \/ Completes(w)
  BY <1>1, CopySteps
<1>7. CASE b \in bars
  <2>1. b.on \in Targets /\ Goroutine(b.on).at \notin {"off", "start"}
    BY <1>4, <1>7 DEF BarsInv
  <2>2. PICK i : Within(Cmd, b.on, i, b.from, b.to) /\ \A x \in Pending(b.on) : ~(x.i = i /\ x.from = b.from)
    BY <1>4, <1>7 DEF BarsInv
  <2>3. Apart => Holds(Dst(b.on), b.to, Src(b.on)[Real(Src(b.on), b.from)].data)
    BY <1>4, <1>7 DEF BarsInv
  <2>4. b.on = s => ~Begins(w)
    BY <1>1, <2>1 DEF Begins
  <2>5. Goroutine(s)'.at \notin {"off", "start"} /\ (~Begins(w) => Goroutine(s)'.todo \subseteq Goroutine(s).todo)
    BY <1>1, <1>6 DEF Begins, Leaves, Drops, Dropped, Opens, Takes, Completes
  <2>6. Goroutine(b.on)'.at \notin {"off", "start"} /\ Pending(b.on)' \subseteq Pending(b.on)
    BY <1>2, <1>3, <2>1, <2>4, <2>5 DEF Pending
  <2>7. Apart => Holds(Dst(b.on)', b.to, Src(b.on)[Real(Src(b.on), b.from)].data)
    <3>1. \A y \in Pending(s) : ~(s = b.on /\ y.i = i /\ y.from = b.from)
      BY <2>2
    <3> QED BY <2>1, <2>2, <2>3, <3>1, OthersKept
  <2> QED BY <1>5, <2>1, <2>2, <2>6, <2>7
<1>8. CASE b \notin bars
  <2>1. PICK x : x = Goroutine(s).item
    OBVIOUS
  <2>2. /\ Goroutine(s).at = "copy" /\ b.on = s /\ b.from = x.from /\ b.to = x.to
        /\ Goroutine(s)'.at = "next" /\ Goroutine(s)'.todo = Goroutine(s).todo \ {x}
        /\ Grown(Dst(s), Dst(s)', {})
        /\ \/ Offset(w) >= Len(Goroutine(s).data)
           \/ x.stat.kind = "file" /\ Goroutine(s).pos >= Len(x.stat.data)
    <3>1. \A y, z : Bar(w, y, z).on = s /\ Bar(w, y, z).from = y.from /\ Bar(w, y, z).to = y.to
                   /\ Bar(w, y, z).kind = y.stat.kind /\ Bar(w, y, z).says = z
      BY <1>1 DEF Bar
    <3>2. \A y, z : bars' = With(w, y, z) => b = Bar(w, y, z)
      BY <1>8 DEF With
    <3>3. ASSUME NEW y, Drops(w, y)
          PROVE  bars' # With(w, y, "cut") /\ bars' # bars
      BY <1>8, <3>1, <3>2 DEF SaysDone
    <3>4. ASSUME NEW y, Drops(w, y)
          PROVE  /\ Goroutine(s).at = "copy" /\ y = x /\ b = Bar(w, x, "done")
                 /\ Goroutine(s).pos >= Total(x) /\ Dropped(w, x) /\ Grown(Dst(s), Dst(s)', {})
      BY <1>1, <2>1, <3>2, <3>3, <3>4 DEF Drops
    <3>5. ASSUME NEW y, Drops(w, y)
          PROVE  x.stat.kind = "file" /\ Goroutine(s).pos >= Len(x.stat.data)
      <4>1. b.says = "done" /\ b.kind = x.stat.kind
        BY <3>1, <3>4, <3>5
      <4>2. x.stat.kind = "file"
        BY <4>1 DEF SaysDone
      <4> QED BY <3>4, <3>5, <4>2 DEF Total
    <3>6. CASE Completes(w)
      <4>1. b = Bar(w, x, "end")
        BY <1>1, <2>1, <3>2, <3>6 DEF Completes
      <4> QED BY <1>1, <2>1, <3>1, <3>6, <4>1 DEF Completes, Dropped
    <3>7. Completes(w) \/ \E y : Drops(w, y)
      BY <1>6, <1>8 DEF Begins, Leaves, Opens, Takes
    <3> QED BY <1>1, <3>1, <3>4, <3>5, <3>6, <3>7 DEF Dropped
  <2>3. x \in Goroutine(s).todo
    BY <2>1, <2>2 DEF ItemsInv
  <2>4. /\ x \in Pending(s) /\ Within(Cmd, s, x.i, x.from, x.to)
        /\ Cmd.op = "via" => x \notin walk
    BY <2>3 DEF ItemsInv, Pending
  <2>5. \A y \in Pending(s)' : ~(y.i = x.i /\ y.from = x.from)
    <3>1. Pending(s)' \subseteq Pending(s) \ {x}
      BY <1>2, <1>3, <2>2, <2>4 DEF Pending
    <3> QED BY <2>4, <3>1 DEF ItemsInv, Unlike
  <2>7. ASSUME Apart
        PROVE  Holds(Dst(s)', x.to, Src(s)[Real(Src(s), x.from)].data)
    <3>1. PICK d, k : d = Goroutine(s).data /\ k = Goroutine(s).pos
      OBVIOUS
    <3>2. d \in Seq(Nat) /\ k \in Nat /\ x.to \in Path
      BY <1>1, <2>1, <3>1 DEF IsWork, IsItem
    <3>3. /\ d = Src(s)[Real(Src(s), x.from)].data /\ k <= Len(d)
          /\ Cmd.op = "via" => offset = k
          /\ Holds(Dst(s), x.to, SubSeq(d, 1, k))
      BY <1>4, <2>1, <2>2, <2>7, <3>1 DEF OpenInv
    <3>8. x.stat.kind = "file" => x.stat.data = d
      BY <1>4, <2>4, <3>3 DEF SeenInv, Seen
    <3>4. k = Len(d)
      BY <1>1, <2>2, <3>1, <3>2, <3>3, <3>8 DEF Offset
    <3>5. SubSeq(d, 1, k) = d
      BY <3>2, <3>4
    <3>6. PICK t, u : t = Dst(s) /\ u = Dst(s)' /\ Grown(t, u, {}) /\ Holds(t, x.to, d)
      BY <2>2, <3>3, <3>5
    <3>7. Holds(u, x.to, d)
      BY <3>2, <3>6, FileKept
    <3> QED BY <3>3, <3>6, <3>7
  <2> QED BY <1>5, <2>2, <2>4, <2>5, <2>7
<1> QED BY <1>7, <1>8

(* Nobody changes a source meanwhile.                                      *)
LEMMA CopierSeen ==
  ASSUME TypeInv, ScpInv, CommandInv, ItemsInv, SeenInv, Cmd.op \in Copies, NEW s \in Targets, Worker(<<n, s>>)
  PROVE  SeenInv'
<1>1. PICK w \in Workers : w = <<n, s>> /\ Worker(w) /\ Of(w) = Cmd /\ work[w] = Goroutine(s)
                           /\ work'[w] = Goroutine(s)' /\ Src(s) = fs[Reads(w)]
  BY CopierFacts DEF Goroutine
<1>2. /\ UNCHANGED <<n, line, prog, pwd, walk>> /\ Clients' = Clients
      /\ \A u \in Targets : u # s => Goroutine(u)' = Goroutine(u)
      /\ \A u \in Targets : Src(u)' = Src(u)
      /\ Abandoned => Abandoned'
  BY CopierFacts
<1>3. Cmd' = Cmd /\ Targets' = Targets /\ (Single' <=> Single)
  BY <1>2, SameCommand
<1> SUFFICES ASSUME Copying', NEW u \in Targets, NEW x \in Pending(u)'
             PROVE  Seen(Src(u), x)
  <2>1. \A u \in Targets : \A x : Seen(Src(u), x)' <=> Seen(Src(u)', x)
    BY DEF Seen
  <2> QED BY <1>2, <1>3, <2>1 DEF SeenInv, Seen
<1>4. Copying
  BY <1>2, <1>3 DEF Copying
<1>5. CASE x \in Pending(u)
  BY <1>4, <1>5 DEF SeenInv
<1>6. CASE x \notin Pending(u)
  <2>1. u = s /\ x \in Goroutine(s)'.todo /\ x \notin Goroutine(s).todo
    BY <1>2, <1>3, <1>6 DEF Pending
  <2>2. \/ Begins(w) \/ Leaves(w) \/ \E y : Drops(w, y)
        \/ \E y : Opens(w, y)
        \/ Takes(w) \/ Completes(w)
    BY <1>1, CopySteps
  <2>3. Begins(w)
    BY <1>1, <2>1, <2>2 DEF Leaves, Drops, Dropped, Opens, Takes, Completes
  <2>4. x \in Todo(w) /\ Of(w).op # "via"
    BY <1>1, <2>1, <2>3 DEF Begins, CommandInv
  <2>5. Reads(w) \in Machines
    <3>1. w[1] <= n
      BY <1>1 DEF ScpInv
    <3> QED BY <1>1, <3>1, ReadsWrites
  <2> QED BY <1>1, <2>1, <2>4, <2>5, TodoSeen
<1> QED BY <1>5, <1>6

WholeInv == ItemsInv /\ OpenInv /\ SeenInv /\ BarsInv

-----------------------------------------------------------------------------
(* The machines of a copy.                                                 *)
LEMMA TargetFacts ==
  ASSUME TypeInv, ScpInv, CommandInv, Cmd.op \in Copies, NEW s \in Targets
  PROVE  /\ s \in Servers /\ <<n, s>> \in Workers /\ Of(<<n, s>>) = Cmd
         /\ Reads(<<n, s>>) \in Machines /\ Writes(<<n, s>>) \in Machines
         /\ IsTree(Dst(s)) /\ IsTree(Src(s))
         /\ \A u \in Targets : Writes(<<n, u>>) # Reads(<<n, s>>)
<1>1. s \in Servers /\ n \in 1..MaxLines
  BY DEF Targets, Clients, ScpInv
<1>2. PICK w \in Workers : w = <<n, s>> /\ w[1] = n /\ Of(w) = Cmd
  <2>1. <<n, s>> \in Workers /\ Of(<<n, s>>) = Cmd
    BY <1>1 DEF Workers, Of, Cmd
  <2> QED BY <2>1
<1>3. w[1] <= n
  BY <1>1, <1>2
<1>4. Reads(w) \in Machines /\ Writes(w) \in Machines /\ \A u \in Targets : Writes(<<n, u>>) # Reads(w)
  BY <1>2, <1>3, ReadsWrites
<1> QED BY <1>1, <1>2, <1>4 DEF Dst, Src, TypeInv

(* At first nothing is copied,                                             *)
LEMMA WholeInit == Init => WholeInv
<1> SUFFICES ASSUME Init
             PROVE  Cmd.op \notin Copies
  BY DEF WholeInv, ItemsInv, OpenInv, SeenInv, BarsInv, Copying
<1>1. 1 \in 1..MaxLines /\ Cmd = NoLine
  BY FilesAssumption DEF FilesAssumption, Init, Cmd
<1> QED BY <1>1 DEF NoLine, Copies

(* A step that begins a command.                                           *)
LEMMA WholeFresh ==
  ASSUME bars' = {},
         Cmd'.op \in Copies => \A s \in Targets' :
           /\ Goroutine(s)' \in {Idle, Started}
           /\ Cmd'.op = "via" => /\ Unlike(walk') /\ \A x \in walk' : Within(Cmd, s, x.i, x.from, x.to)'
                                /\ \A x \in walk' : Seen(Src(s)', x)
  PROVE  WholeInv'
<1>1. \A s : Goroutine(s)' \in {Idle, Started} =>
         /\ Goroutine(s)'.at \notin {"next", "copy"} /\ Goroutine(s)'.todo = {} /\ Goroutine(s)'.pos = 0
  BY IdleWork
<1>2. ItemsInv'
  <2> SUFFICES ASSUME Cmd'.op \in Copies, NEW s \in Targets'
               PROVE  /\ \A x \in Pending(s)' : Within(Cmd, s, x.i, x.from, x.to)'
                      /\ Unlike(Pending(s))'
                      /\ Goroutine(s)'.at # "copy" /\ Goroutine(s)'.pos = 0
                      /\ \A x \in Goroutine(s)'.todo : FALSE
    BY DEF ItemsInv
  <2>1. Pending(s)' = IF Cmd'.op = "via" THEN walk' ELSE {}
    BY <1>1 DEF Pending
  <2>2. Unlike(Pending(s))' <=> Unlike(Pending(s)')
    BY DEF Unlike
  <2>3. Unlike({})
    BY DEF Unlike
  <2> QED BY <1>1, <2>1, <2>2, <2>3
<1>3. OpenInv'
  BY <1>1 DEF OpenInv, Copying
<1>4. BarsInv'
  BY DEF BarsInv
<1>5. SeenInv'
  <2> SUFFICES ASSUME Cmd'.op \in Copies, NEW s \in Targets', NEW x \in Pending(s)'
               PROVE  Seen(Src(s)', x)
    BY DEF SeenInv, Copying, Seen
  <2> QED BY <1>1 DEF Pending
<1> QED BY <1>2, <1>3, <1>4, <1>5 DEF WholeInv

(* A step that copies nothing.                                             *)
LEMMA WholeQuiet ==
  ASSUME TypeInv, ScpInv, CommandInv, WholeInv,
         UNCHANGED <<n, line, prog, pwd, bars>>, Clients' = Clients, walk' \subseteq walk, Abandoned => Abandoned',
         Cmd.op \in Copies => \A s \in Targets :
           /\ Src(s)' = Src(s) /\ Grown(Dst(s), Dst(s)', {}) /\ Pending(s)' \subseteq Pending(s)
           /\ \/ Goroutine(s)' = Goroutine(s) /\ offset' = offset
              \/ /\ Goroutine(s)'.at \notin {"off", "copy"} /\ Goroutine(s)'.pos = 0
                 /\ Goroutine(s).at # "off" => Goroutine(s)'.at # "start"
                 /\ Cmd.op = "via" => /\ offset' = 0
                                      /\ \A x \in Goroutine(s)'.todo :
                                           x \notin walk' /\ \A y \in Goroutine(s)'.todo : x = y
  PROVE  WholeInv'
<1>1. /\ Cmd' = Cmd /\ Targets' = Targets /\ (Single' <=> Single)
      /\ \A u, i, from, to : Within(Cmd, u, i, from, to)' <=> Within(Cmd, u, i, from, to)
      /\ \A w : Writes(w)' = Writes(w)
  BY SameCommand
<1>2. ItemsInv'
  <2> SUFFICES ASSUME Cmd.op \in Copies, NEW s \in Targets
               PROVE  /\ \A x \in Pending(s)' : Within(Cmd, s, x.i, x.from, x.to)
                      /\ Unlike(Pending(s)')
                      /\ IF Goroutine(s)'.at = "copy" THEN Goroutine(s)'.item \in Goroutine(s)'.todo
                         ELSE Goroutine(s)'.pos = 0
                      /\ Cmd.op = "via" => \A x \in Goroutine(s)'.todo :
                                             x \notin walk' /\ \A y \in Goroutine(s)'.todo : x = y
    <3>1. \A u : Unlike(Pending(u)') <=> Unlike(Pending(u))'
      BY DEF Unlike
    <3> QED BY <1>1, <3>1 DEF ItemsInv
  <2>1. Pending(s)' \subseteq Pending(s)
    OBVIOUS
  <2> QED BY <2>1 DEF WholeInv, ItemsInv, Unlike
<1>3. ASSUME Copying'
      PROVE  Copying /\ (Apart' => Apart)
  <2>1. Copying
    BY <1>1, <1>3 DEF Copying
  <2>2. ASSUME NEW s \in Targets
        PROVE  Grown(Dst(s), fs'[Writes(<<n, s>>)], {})
    BY <1>1, <2>1 DEF Copying, Dst
  <2>3. \A s \in Targets : \E E : Grown(Dst(s), fs'[Writes(<<n, s>>)], E)
    BY <2>2
  <2> QED BY <2>1, <2>3, ApartBefore DEF Copying
<1>4. ASSUME NEW s \in Targets, Cmd.op \in Copies, NEW p \in Path, NEW d, Holds(Dst(s), p, d)
      PROVE  Holds(Dst(s)', p, d)
  <2>1. PICK t, u : t = Dst(s) /\ u = Dst(s)' /\ Grown(t, u, {}) /\ Holds(t, p, d)
    BY <1>4
  <2>2. Holds(u, p, d)
    BY <2>1, FileKept
  <2> QED BY <2>1, <2>2
<1>5. \A u, p, d : Holds(Dst(u)', p, d) <=> Holds(Dst(u), p, d)'
  BY DEF Holds
<1>6. ASSUME NEW s \in Targets, Cmd.op \in Copies, NEW i, NEW from, NEW to, Within(Cmd, s, i, from, to)
      PROVE  to \in Path
  <2>1. s \in Servers /\ IsLine(Cmd) /\ i \in Sources(Cmd)
    BY <1>6, TargetFacts DEF TypeInv, ScpInv, Cmd, Within
  <2>2. PICK p \in Path : p = To(Cmd, s, i)
    BY <2>1, FromIsPath
  <2>3. PICK r \in Path : to = p \o r
    BY <1>6, <2>2 DEF Within
  <2> QED BY <2>3, PathJoin
<1>7. OpenInv'
  <2> SUFFICES ASSUME Copying', NEW s \in Targets
               PROVE  LET g == Goroutine(s)'
                      IN /\ g.at = "copy" =>
                              /\ g.data = Src(s)[Real(Src(s), g.item.from)].data
                              /\ g.pos <= Len(g.data)
                              /\ Cmd.op = "via" => offset' = g.pos
                              /\ Apart' => Holds(Dst(s)', g.item.to, SubSeq(g.data, 1, g.pos))
                         /\ Cmd.op = "via" /\ g.at = "next" /\ g.todo # {} => offset' = 0
    <3>1. Copying' => \A s \in Targets : Src(s)' = Src(s)
      BY <1>3 DEF Copying
    <3> QED BY <1>1, <1>5, <3>1 DEF OpenInv
  <2>1. Copying /\ Cmd.op \in Copies
    BY <1>3 DEF Copying
  <2>2. CASE Goroutine(s)'.at # "copy"
    <3>1. Cmd.op = "via" /\ Goroutine(s)'.at = "next" /\ Goroutine(s)'.todo # {} => offset' = 0
      BY <2>1 DEF WholeInv, OpenInv
    <3> QED BY <2>2, <3>1
  <2>3. CASE Goroutine(s)'.at = "copy"
    <3>1. PICK g : g = Goroutine(s) /\ Goroutine(s)' = g /\ g.at = "copy" /\ offset' = offset
      BY <2>1, <2>3
    <3>2. /\ g.data = Src(s)[Real(Src(s), g.item.from)].data
          /\ g.pos <= Len(g.data)
          /\ Cmd.op = "via" => offset = g.pos
          /\ Apart => Holds(Dst(s), g.item.to, SubSeq(g.data, 1, g.pos))
      BY <2>1, <3>1 DEF WholeInv, OpenInv
    <3>3. g.item \in Pending(s) /\ Within(Cmd, s, g.item.i, g.item.from, g.item.to)
      BY <2>1, <3>1 DEF WholeInv, ItemsInv, Pending
    <3>4. PICK d, to : to \in Path /\ d = SubSeq(g.data, 1, g.pos) /\ to = g.item.to
      BY <1>6, <2>1, <3>3
    <3>5. Apart' => Holds(Dst(s)', to, d)
      BY <1>3, <1>4, <2>1, <3>2, <3>4
    <3> QED BY <3>1, <3>2, <3>4, <3>5
  <2> QED BY <2>2, <2>3
<1>8. BarsInv'
  <2> SUFFICES ASSUME Copying', NEW b \in bars, SaysDone(b)
               PROVE  /\ b.on \in Targets /\ Goroutine(b.on)'.at \notin {"off", "start"}
                      /\ \E i : /\ Within(Cmd, b.on, i, b.from, b.to)
                                /\ \A x \in Pending(b.on)' : ~(x.i = i /\ x.from = b.from)
                      /\ Apart' => Holds(Dst(b.on)', b.to, Src(b.on)[Real(Src(b.on), b.from)].data)
    <3>1. Copying' => \A s \in Targets : Src(s)' = Src(s)
      BY <1>3 DEF Copying
    <3> QED BY <1>1, <1>5, <3>1 DEF BarsInv
  <2>1. Copying /\ Cmd.op \in Copies
    BY <1>3 DEF Copying
  <2>2. /\ b.on \in Targets /\ Goroutine(b.on).at \notin {"off", "start"}
        /\ Apart => Holds(Dst(b.on), b.to, Src(b.on)[Real(Src(b.on), b.from)].data)
    BY <2>1 DEF WholeInv, BarsInv
  <2>3. PICK i : Within(Cmd, b.on, i, b.from, b.to) /\ \A x \in Pending(b.on) : ~(x.i = i /\ x.from = b.from)
    BY <2>1 DEF WholeInv, BarsInv
  <2>4. Pending(b.on)' \subseteq Pending(b.on) /\ Goroutine(b.on)'.at \notin {"off", "start"}
    BY <2>1, <2>2
  <2>5. PICK d, to : to \in Path /\ d = Src(b.on)[Real(Src(b.on), b.from)].data /\ to = b.to
    BY <1>6, <2>1, <2>2, <2>3
  <2>6. Apart' => Holds(Dst(b.on)', to, d)
    BY <1>3, <1>4, <2>1, <2>2, <2>5
  <2> QED BY <2>2, <2>3, <2>4, <2>5, <2>6
<1>9. SeenInv'
  <2> SUFFICES ASSUME Copying', NEW s \in Targets, NEW x \in Pending(s)'
               PROVE  Seen(Src(s)', x)
    BY <1>1 DEF SeenInv, Seen
  <2>1. Copying /\ Cmd.op \in Copies
    BY <1>3 DEF Copying
  <2>2. x \in Pending(s) /\ Src(s)' = Src(s)
    BY <2>1
  <2> QED BY <2>1, <2>2 DEF WholeInv, SeenInv
<1> QED BY <1>2, <1>7, <1>8, <1>9 DEF WholeInv

(* nor is it by a command that does not copy.                              *)
LEMMA WholeNone ==
  ASSUME Cmd'.op \notin Copies
  PROVE  WholeInv'
BY DEF WholeInv, ItemsInv, OpenInv, SeenInv, BarsInv, Copying

(* A step that leaves files and goroutines alone.                          *)
LEMMA WholeSame ==
  ASSUME TypeInv, ScpInv, CommandInv, WholeInv,
         UNCHANGED <<n, line, prog, pwd, bars, fs, work, walk, offset>>, Clients' = Clients
  PROVE  WholeInv'
<1>1. /\ Cmd' = Cmd /\ Targets' = Targets
      /\ \A w : Reads(w)' = Reads(w) /\ Writes(w)' = Writes(w)
  BY SameCommand
<1>2. Abandoned => Abandoned'
  BY DEF Abandoned
<1>3. \A s : /\ Goroutine(s)' = Goroutine(s) /\ Src(s)' = Src(s) /\ Dst(s)' = Dst(s)
             /\ Pending(s)' = Pending(s)
  BY <1>1 DEF Goroutine, Src, Dst, Pending
<1>4. ASSUME Cmd.op \in Copies, NEW s \in Targets
      PROVE  Grown(Dst(s), Dst(s)', {})
  <2>1. PICK t : t = Dst(s) /\ Dst(s)' = t /\ IsTree(t)
    BY <1>3, <1>4, TargetFacts
  <2> QED BY <2>1, GrownSame
<1> QED BY <1>2, <1>3, <1>4, WholeQuiet

(* Up to the first goroutine.                                              *)
LEMMA WholeBegins ==
  ASSUME TypeInv, ScpInv, CommandInv,
         \/ \E a \in ScpLines : lscpAction(a)
         \/ lsftpAction
         \/ \E s \in Servers : createConnect(s)
         \/ Connected
  PROVE  WholeInv'
<1>1. phase \in {"start", "connect"} /\ bars' = bars /\ n' = n
  BY DEF lscpAction, lsftpAction, createConnect, Connected
<1>2. bars = {} /\ walk = {} /\ n \in 1..MaxLines /\ \A w \in Workers : work[w] = Idle
  BY <1>1 DEF CommandInv, ScpInv
<1>3. Targets' \subseteq Servers
  BY DEF Targets, Clients
<1>4. \A s \in Targets' : <<n, s>> \in Workers
  BY <1>2, <1>3 DEF Workers
<1>5. CASE ~Connected
  <2>1. work' = work /\ walk' = walk
    BY <1>5 DEF lscpAction, lsftpAction, createConnect
  <2>2. \A s \in Targets' : Goroutine(s)' = Idle
    BY <1>1, <1>2, <1>4, <2>1 DEF Goroutine
  <2>3. Unlike(walk') /\ walk' = {}
    BY <1>2, <2>1 DEF Unlike
  <2> QED BY <1>1, <1>2, <2>2, <2>3, WholeFresh
<1>6. CASE Connected
  <2>1. /\ UNCHANGED <<n, line, prog, pwd>> /\ Clients' = Clients
        /\ work' \in {work, Spawn(Targets)} /\ (phase' # "via" => walk' = {})
    BY <1>6 DEF Connected, Clients
  <2>2. \A s \in Targets' : Goroutine(s)' \in {Idle, Started}
    BY <1>1, <1>2, <1>4, <2>1 DEF Goroutine, Spawn
  <2>3. Unlike(walk') /\ \A x \in walk' : \A s \in Servers : /\ Within(Cmd, s, x.i, x.from, x.to)
                                                             /\ Cmd.op = "via" => Seen(Src(s), x)
    <3>1. CASE phase' = "via"
      <4>1. Cmd.op = "via" /\ Unlike(walk') /\ \A x \in walk' : Seen(fs[Source], x)
        BY <1>6, <3>1, WalkItems
      <4>2. \A x \in walk' : \A s \in Servers : Within(Cmd, s, x.i, x.from, x.to)
        BY <1>6, <3>1, WalkItems
      <4>3. \A s : Src(s) = fs[Source]
        BY <4>1 DEF Src, Reads, Of, Cmd
      <4> QED BY <4>1, <4>2, <4>3
    <3>2. CASE phase' # "via"
      BY <2>1, <3>2 DEF Unlike
    <3> QED BY <3>1, <3>2
  <2>4. \A s, i, from, to : Within(Cmd, s, i, from, to)' <=> Within(Cmd, s, i, from, to)
    BY <2>1, SameCommand
  <2>5. Cmd' = Cmd /\ \A s : Src(s)' = Src(s)
    <3>1. \A w : Reads(w)' = Reads(w)
      BY <2>1, SameCommand
    <3>2. fs' = fs
      BY <1>6 DEF Connected
    <3> QED BY <2>1, <3>1, <3>2, SameCommand DEF Src
  <2> QED BY <1>1, <1>2, <1>3, <2>2, <2>3, <2>4, <2>5, WholeFresh
<1> QED BY <1>5, <1>6

(* A line that is typed.                                                   *)
LEMMA WholeTyped ==
  ASSUME TypeInv, ScpInv, CommandInv, NEW l \in SftpLines, Executor(l)
  PROVE  WholeInv'
<1>1. /\ phase = "prompt" /\ n < MaxLines /\ n' = n + 1 /\ bars' = {}
      /\ line' = [line EXCEPT ![n + 1] = Typed(l)]
      /\ \A w \in Workers : work'[w] \in {work[w], Started}
  BY DEF Executor
<1>2. n \in 1..MaxLines /\ n + 1 \in 1..MaxLines /\ MaxLines \in Nat
  BY <1>1, FilesAssumption DEF ScpInv, FilesAssumption
<1>3. Cmd'.op # "via"
  <2>1. Cmd' = Typed(l)
    BY <1>1, <1>2 DEF Cmd, TypeInv
  <2>2. Typed(l).op = l.op /\ l.op # "via"
    BY FilesAssumption DEF Typed, FilesAssumption
  <2> QED BY <2>1, <2>2
<1>4. ASSUME NEW s \in Targets'
      PROVE  Goroutine(s)' \in {Idle, Started}
  <2>1. s \in Servers
    BY DEF Targets, Clients
  <2>2. PICK w \in Workers : w = <<n', s>> /\ w[1] = n + 1
    <3>1. <<n + 1, s>> \in Workers
      BY <1>2, <2>1 DEF Workers
    <3> QED BY <1>1, <3>1
  <2>3. work[w] = Idle
    BY <1>2, <2>2 DEF CommandInv
  <2> QED BY <1>1, <2>2, <2>3 DEF Goroutine
<1> QED BY <1>1, <1>3, <1>4, WholeFresh

(* The loop of getAction.                                                  *)
LEMMA WholeLoop ==
  ASSUME TypeInv, ScpInv, CommandInv, WholeInv, NEW s \in Servers, getAction(s)
  PROVE  WholeInv'
<1>1. /\ phase = "spawn" /\ s \in left /\ UNCHANGED <<prog, n, line, conn, pwd, walk, offset, bars>>
      /\ work' \in {work, Spawn({s})}
      /\ fs' \in {fs, [fs EXCEPT ![Here] = MkdirAll(@, LocalBase(Cmd, s))]}
  BY DEF getAction
<1>2. Cmd.op = "get" /\ Clients' = Clients /\ n \in 1..MaxLines
  BY <1>1 DEF CommandInv, Clients, ScpInv
<1>3. Cmd' = Cmd /\ Targets' = Targets /\ \A w : Reads(w)' = Reads(w) /\ Writes(w)' = Writes(w)
  BY <1>1, <1>2, SameCommand
<1>4. ASSUME NEW u \in Targets
      PROVE  Goroutine(u)' = Goroutine(u) \/ (Goroutine(u).at = "off" /\ Goroutine(u)' = Started)
  <2>1. PICK w \in Workers : w = <<n, u>> /\ work[w] = Goroutine(u) /\ Goroutine(u)' = work'[w]
                             /\ w[1] = n /\ w[2] = u
    <3>1. <<n, u>> \in Workers
      BY <1>2, TargetFacts DEF Copies
    <3> QED BY <1>1, <3>1 DEF Goroutine
  <2>2. work'[w] = work[w] \/ (work'[w] = Started /\ u = s)
    BY <1>1, <2>1 DEF Spawn
  <2>3. u = s => work[w].at = "off"
    BY <1>1, <2>1 DEF CommandInv
  <2> QED BY <2>1, <2>2, <2>3
<1>5. ASSUME NEW u \in Targets
      PROVE  Src(u)' = Src(u) /\ Grown(Dst(u), Dst(u)', {})
  <2>1. /\ u \in Servers /\ Of(<<n, u>>) = Cmd /\ IsTree(Dst(u)) /\ Here \notin Servers
        /\ Reads(<<n, u>>) \in Machines /\ Here \in Machines /\ DOMAIN fs = Machines
    BY <1>2, TargetFacts, FilesAssumption DEF Copies, Machines, FilesAssumption, TypeInv
  <2>2. Reads(<<n, u>>) = u /\ Writes(<<n, u>>) = Here
    BY <1>2, <2>1 DEF Reads, Writes, Server
  <2>3. Src(u)' = Src(u)
    BY <1>1, <1>3, <2>1, <2>2 DEF Src
  <2>4. PICK p \in Path : p = LocalBase(Cmd, s)
    BY <1>2, LocalBaseIsPath DEF TypeInv, Cmd
  <2>5. PICK t : t = Dst(u) /\ IsTree(t) /\ t = fs[Here]
    BY <2>1, <2>2 DEF Dst
  <2>6. Dst(u)' \in {t, MkdirAll(t, p)}
    BY <1>1, <1>3, <2>1, <2>2, <2>4, <2>5 DEF Dst
  <2>7. Grown(t, t, {}) /\ Grown(t, MkdirAll(t, p), {})
    BY <2>5, GrownSame, MkdirAllGrown
  <2> QED BY <2>3, <2>5, <2>6, <2>7
<1>6. Abandoned => Abandoned'
  <2>1. \A w \in Workers : w[1] < n => work'[w] = work[w]
    BY <1>1, <1>2 DEF Spawn
  <2> QED BY <1>1, <2>1 DEF Abandoned
<1>7. \A u \in Targets : Pending(u)' \subseteq Pending(u)
  BY <1>2, <1>3, <1>4, IdleWork DEF Pending
<1>8. \A u \in Targets : \/ Goroutine(u)' = Goroutine(u) /\ offset' = offset
                         \/ /\ Goroutine(u)'.at \notin {"off", "copy"} /\ Goroutine(u)'.pos = 0
                            /\ Goroutine(u).at = "off"
  BY <1>1, <1>4, IdleWork
<1> QED BY <1>1, <1>2, <1>5, <1>6, <1>7, <1>8, WholeQuiet

(* A step of viaPushPath.                                                  *)
LEMMA WholeVia ==
  ASSUME TypeInv, ScpInv, CommandInv, WholeInv, ViaStep
  PROVE  WholeInv'
<1>1. /\ phase = "via" /\ UNCHANGED <<prog, n, line, conn, pwd, bars>> /\ Cmd.op = "via" /\ n \in 1..MaxLines
  BY DEF ViaStep, CommandInv, ScpInv
<1>2. PICK x \in walk :
        /\ walk' = walk \ {x}
        /\ \/ /\ fs' = [m \in Machines |-> IF m \in Targets /\ Alive(m) THEN Mkdir(fs[m], x.from) ELSE fs[m]]
              /\ UNCHANGED <<phase, offset, work>>
           \/ /\ x.stat.kind # "dir" /\ offset' = 0 /\ phase' = "wait" /\ fs' = fs
              /\ work' = [w \in Workers |-> IF w[1] = n /\ w[2] \in Targets
                            THEN [Idle EXCEPT !.at = "next", !.todo = {x}] ELSE work[w]]
           \/ UNCHANGED <<fs, phase, offset, work>>
  BY Zenon DEF ViaStep
<1>3. PICK fresh : fresh = [Idle EXCEPT !.at = "next", !.todo = {x}]
  OBVIOUS
<1>4. fresh.at = "next" /\ fresh.todo = {x} /\ fresh.pos = 0
  <2>1. PICK T : T = {x}
    OBVIOUS
  <2>2. fresh = Getting(Idle, "next", T)
    BY <1>3, <2>1 DEF Getting
  <2>3. \A i \in T : IsItem(i)
    BY <2>1 DEF TypeInv
  <2>4. fresh.at = "next" /\ fresh.todo = T /\ fresh.pos = Idle.pos
    BY <2>2, <2>3, IdleWork, WorkGets
  <2> QED BY <2>1, <2>4, IdleWork
<1>5. Clients' = Clients
  BY <1>1 DEF Clients
<1>6. Cmd' = Cmd /\ Targets' = Targets /\ \A w : Reads(w)' = Reads(w) /\ Writes(w)' = Writes(w)
  BY <1>1, <1>5, SameCommand
<1>7. /\ (work' = work /\ offset' = offset)
         \/ (offset' = 0 /\ \A w \in Workers : work'[w] = IF w[1] = n /\ w[2] \in Targets THEN fresh ELSE work[w])
  BY <1>2, <1>3
<1>8. ASSUME NEW u \in Targets
      PROVE  \/ Goroutine(u)' = Goroutine(u) /\ offset' = offset
             \/ Goroutine(u)' = fresh /\ offset' = 0
  <2>1. <<n, u>> \in Workers
    BY <1>1, TargetFacts DEF Copies
  <2> QED BY <1>1, <1>7, <2>1 DEF Goroutine
<1>9. ASSUME NEW u \in Targets
      PROVE  Src(u)' = Src(u) /\ Grown(Dst(u), Dst(u)', {})
  <2>1. /\ u \in Servers /\ Of(<<n, u>>) = Cmd /\ IsTree(Dst(u))
        /\ Reads(<<n, u>>) \in Machines /\ u \in Machines /\ DOMAIN fs = Machines
        /\ \A v \in Targets : Writes(<<n, v>>) # Reads(<<n, u>>)
    BY <1>1, TargetFacts DEF Copies, Machines, TypeInv
  <2>2. \A v \in Targets : Writes(<<n, v>>) = v
    BY <1>1, <2>1, TargetFacts DEF Writes, Server, Copies
  <2>3. Reads(<<n, u>>) \notin Targets
    BY <2>1, <2>2
  <2>4. Src(u)' = Src(u)
    BY <1>2, <1>6, <1>1, <2>1, <2>3 DEF Src
  <2>5. PICK p \in Path : p = x.from
    BY DEF TypeInv, IsItem
  <2>6. PICK t : t = Dst(u) /\ IsTree(t) /\ t = fs[u]
    BY <2>1, <2>2 DEF Dst
  <2>7. Dst(u)' \in {t, Mkdir(t, p)}
    <3>1. Dst(u)' = fs'[u]
      BY <1>1, <1>6, <2>2 DEF Dst
    <3> QED BY <1>2, <2>1, <2>5, <2>6, <3>1
  <2>8. Grown(t, t, {}) /\ Grown(t, Mkdir(t, p), {})
    BY <2>5, <2>6, GrownSame, MkdirGrown
  <2> QED BY <2>4, <2>6, <2>7, <2>8
<1>10. Abandoned => Abandoned'
  <2>1. \A w \in Workers : w[1] < n => work'[w] = work[w]
    BY <1>1, <1>7
  <2> QED BY <1>1, <2>1 DEF Abandoned
<1>11. \A u \in Targets : Pending(u)' \subseteq Pending(u)
  BY <1>1, <1>2, <1>4, <1>6, <1>8 DEF Pending
<1>12. \A u \in Targets :
         \/ Goroutine(u)' = Goroutine(u) /\ offset' = offset
         \/ /\ Goroutine(u)'.at = "next" /\ Goroutine(u)'.pos = 0 /\ offset' = 0
            /\ \A y \in Goroutine(u)'.todo : y \notin walk' /\ \A z \in Goroutine(u)'.todo : y = z
  BY <1>2, <1>4, <1>8
<1> QED BY <1>1, <1>2, <1>5, <1>9, <1>10, <1>11, <1>12, WholeQuiet

(* A goroutine.                                                            *)
LEMMA WholeWorker ==
  ASSUME TypeInv, ScpInv, CommandInv, WholeInv, NEW w \in Workers, Worker(w)
  PROVE  WholeInv'
<1>1. /\ UNCHANGED <<prog, n, line>> /\ phase' = phase /\ work[w].at # "off"
      /\ \A v \in Workers : v # w => work'[v] = work[v]
  BY WorkerFacts DEF TypeInv
<1>2. UNCHANGED <<conn, pwd, left, walk>>
  BY DEF Worker, Start, Finish, Copy, Chunk, CopyEnd, CopyFails, doRM, Request, Exit, session
<1>3. Clients' = Clients
  BY <1>2 DEF Clients
<1>4. Cmd' = Cmd /\ Targets' = Targets
      /\ \A u, i, from, to : Within(Cmd, u, i, from, to)' <=> Within(Cmd, u, i, from, to)
  BY <1>1, <1>2, <1>3, SameCommand
<1>5. CASE Cmd.op \notin Copies
  BY <1>4, <1>5, WholeNone
<1>6. CASE Cmd.op \in Copies /\ w[1] = n
  <2>1. PICK s \in Targets : w = <<n, s>>
    BY <1>1, <1>6 DEF CommandInv, Workers
  <2>2. ItemsInv /\ OpenInv /\ SeenInv /\ BarsInv
    BY DEF WholeInv
  <2>3. ItemsInv' /\ OpenInv' /\ SeenInv' /\ BarsInv'
    BY <1>6, <2>1, <2>2, CopierItems, CopierOpen, CopierSeen, CopierBars
  <2> QED BY <2>3 DEF WholeInv
<1>7. CASE Cmd.op \in Copies /\ w[1] # n
  <2>1. w[1] \in Nat /\ n \in Nat
    BY DEF Workers, ScpInv
  <2>2. w[1] < n
    BY <1>1, <1>7, <2>1, IdleWork DEF CommandInv
  <2>3. work'[w].at \notin {"off", "gone"}
    <3>1. CASE Of(w).op \in Copies
      <4>1. \/ Begins(w) \/ Leaves(w) \/ \E x : Drops(w, x)
            \/ \E x : Opens(w, x)
            \/ Takes(w) \/ Completes(w)
        BY <3>1, CopySteps
      <4> QED BY <1>7, <4>1 DEF Begins, Leaves, Drops, Dropped, Opens, Takes, Completes
    <3>2. CASE Of(w).op \notin Copies
      BY <1>7, <3>2, OtherSteps
    <3> QED BY <3>1, <3>2
  <2>4. Abandoned'
    BY <1>1, <2>2, <2>3 DEF Abandoned
  <2>5. OpenInv' /\ SeenInv' /\ BarsInv'
    BY <2>4 DEF OpenInv, SeenInv, BarsInv, Copying
  <2>6. \A s \in Targets : Goroutine(s)' = Goroutine(s) /\ Pending(s)' = Pending(s)
    <3>1. ASSUME NEW s \in Targets
          PROVE  Goroutine(s)' = Goroutine(s)
      <4>1. <<n, s>> \in Workers /\ <<n, s>> # w
        BY <1>7, TargetFacts
      <4> QED BY <1>1, <4>1 DEF Goroutine
    <3> QED BY <1>2, <1>4, <3>1 DEF Pending
  <2>7. \A u : Unlike(Pending(u)') <=> Unlike(Pending(u))'
    BY DEF Unlike
  <2>8. ItemsInv'
    BY <1>2, <1>4, <2>6, <2>7 DEF WholeInv, ItemsInv
  <2> QED BY <2>5, <2>8 DEF WholeInv
<1> QED BY <1>5, <1>6, <1>7

(* Every step.                                                             *)
LEMMA WholeStep ==
  ASSUME TypeInv, ScpInv, CommandInv, WholeInv, [Next]_vars
  PROVE  WholeInv'
<1>1. CASE \/ \E a \in ScpLines : lscpAction(a)
           \/ lsftpAction
           \/ \E s \in Servers : createConnect(s)
           \/ Connected
  BY <1>1, WholeBegins
<1>2. ASSUME NEW l \in SftpLines, Executor(l)
      PROVE  WholeInv'
  BY <1>2, WholeTyped
<1>3. CASE Waited \/ ViaEnd \/ (\E s \in Servers : Lose(s)) \/ UNCHANGED vars
  <2>1. UNCHANGED <<n, line, prog, pwd, bars, fs, work, walk, offset>>
    BY <1>3 DEF Waited, ViaEnd, Lose, vars, session
  <2>2. Clients' = Clients
    <3>1. CASE Waited \/ ViaEnd \/ UNCHANGED vars
      BY <3>1 DEF Waited, ViaEnd, vars, session, Clients
    <3>2. ASSUME NEW s \in Servers, Lose(s)
          PROVE  Clients' = Clients
      <4>1. conn[s] = "up" /\ conn' = [conn EXCEPT ![s] = "lost"]
        BY <3>2 DEF Lose
      <4> QED BY <4>1 DEF Clients, TypeInv
    <3> QED BY <1>3, <3>1, <3>2
  <2> QED BY <2>1, <2>2, WholeSame
<1>4. CASE ViaStep
  BY <1>4, WholeVia
<1>5. ASSUME NEW s \in Servers, getAction(s)
      PROVE  WholeInv'
  BY <1>5, WholeLoop
<1>6. ASSUME NEW s \in Servers, rmdir(s)
      PROVE  WholeInv'
  <2>1. Cmd' = Cmd /\ Cmd.op = "rmdir"
    BY <1>6 DEF rmdir, Cmd, CommandInv
  <2> QED BY <2>1, WholeNone DEF Copies
<1>7. ASSUME NEW w \in Workers, Worker(w)
      PROVE  WholeInv'
  BY <1>7, WholeWorker
<1> QED BY <1>1, <1>2, <1>3, <1>4, <1>5, <1>6, <1>7, Zenon DEF Next, Progress, Main

(* Together the three say what is claimed.                                 *)
LEMMA WholeFiles ==
  ASSUME TypeInv, CommandInv, WholeInv
  PROVE  DoneIsWhole
<1> SUFFICES ASSUME ~Abandoned, Cmd.op \in Copies, Apart, Single,
                    NEW b \in Done
             PROVE  Dst(b.on)[Real(Dst(b.on), b.to)].data = Src(b.on)[Real(Src(b.on), b.from)].data
  BY DEF DoneIsWhole, Src, Dst
<1>1. Copying
  BY DEF Copying
<1>2. CASE b \in bars
  <2>1. SaysDone(b)
    BY DEF Done, SaysDone
  <2>2. Holds(Dst(b.on), b.to, Src(b.on)[Real(Src(b.on), b.from)].data)
    BY <1>1, <1>2, <2>1 DEF WholeInv, BarsInv
  <2> QED BY <2>2 DEF Holds
<1>3. CASE b \in Counted
  <2>1. PICK w \in Workers : w[1] = n /\ work[w].at = "copy" /\ b = Bar(w, work[w].item, BarSays(work[w].item, work[w].pos))
    BY <1>3 DEF Counted
  <2>2. PICK s \in Servers : w = <<n, s>> /\ s = Server(w) /\ work[w] = Goroutine(s)
    BY <2>1 DEF Workers, Server, Goroutine
  <2>3. s \in Targets
    BY <2>1, <2>2 DEF CommandInv, Server
  <2>4. PICK x, d, k : x = Goroutine(s).item /\ d = Goroutine(s).data /\ k = Goroutine(s).pos
    OBVIOUS
  <2>5. b.on = s /\ b.from = x.from /\ b.to = x.to /\ b.kind = x.stat.kind /\ b.says = BarSays(x, k)
    BY <2>1, <2>2, <2>4 DEF Bar
  <2>6. x.stat.kind = "file" /\ k >= Len(x.stat.data)
    <3>1. BarSays(x, k) = "done" /\ x.stat.kind = "file"
      BY <2>5 DEF Done, BarSays
    <3> QED BY <3>1 DEF BarSays, Total
  <2>7. x \in Pending(s)
    BY <1>1, <2>1, <2>2, <2>3, <2>4 DEF WholeInv, ItemsInv, Pending
  <2>8. /\ d = Src(s)[Real(Src(s), x.from)].data /\ k <= Len(d) /\ Holds(Dst(s), x.to, SubSeq(d, 1, k))
    BY <1>1, <2>1, <2>2, <2>3, <2>4 DEF WholeInv, OpenInv
  <2>9. x.stat.data = d
    BY <1>1, <2>3, <2>6, <2>7, <2>8 DEF WholeInv, SeenInv, Seen
  <2>10. d \in Seq(Nat) /\ k \in Nat
    BY <2>2, <2>4 DEF TypeInv, IsWork
  <2>11. SubSeq(d, 1, k) = d
    BY <2>6, <2>8, <2>9, <2>10
  <2> QED BY <2>5, <2>8, <2>11 DEF Holds
<1> QED BY <1>2, <1>3 DEF Done

(* A file whose progress bar says done is at the target as it is at the    *)
(* source (scp/main.go, sftp/cmd_put.go, sftp/cmd_get.go): for any number  *)
(* of servers, whatever the trees and the chunks are, while the other      *)
(* goroutines copy and connections fail.                                   *)
THEOREM DoneFilesAreWhole == Spec => []DoneIsWhole
<1> DEFINE Inv == TypeInv /\ ScpInv /\ CommandInv /\ WholeInv
<1>1. Init => Inv
  BY TypesInit, ScpInit, WholeInit
<1>2. Inv /\ [Next]_vars => Inv'
  BY ScpStep, TypesStep, WholeStep
<1>3. Inv => DoneIsWhole
  BY WholeFiles
<1> QED BY <1>1, <1>2, <1>3, PTL DEF Spec

-----------------------------------------------------------------------------
(* The order in which a walk visits paths is total.                        *)
LEMMA RankNumber ==
  ASSUME NEW a \in Range(Names)
  PROVE  Rank(a) \in Nat /\ Names[Rank(a)] = a
<1>1. \E i \in DOMAIN Names : Names[i] = a
  BY DEF Range
<1>2. Rank(a) \in DOMAIN Names /\ Names[Rank(a)] = a
  BY <1>1, Zenon DEF Rank
<1>3. DOMAIN Names \subseteq Nat
  BY NamesAssumption DEF NamesAssumption
<1> QED BY <1>2, <1>3

LEMMA PathOrder ==
  ASSUME NEW p \in Path, NEW q \in Path, p # q
  PROVE  Before(p, q) \/ Before(q, p)
<1> DEFINE T == {i \in 1..Len(p) : i <= Len(q) /\ p[i] # q[i]}
<1>1. CASE T = {}
  <2>1. ASSUME NEW a \in Path, NEW b \in Path, a # b, Len(a) <= Len(b), \A i \in 1..Len(a) : a[i] = b[i]
        PROVE  Before(a, b)
    <3>1. SubSeq(a, 1, Len(a)) = SubSeq(b, 1, Len(a))
      BY <2>1 DEF Path
    <3> QED BY <2>1, <3>1 DEF Before, IsPrefix
  <2>2. Len(p) <= Len(q) \/ Len(q) <= Len(p)
    BY DEF Path
  <2>3. \A i \in 1..Len(p) : i <= Len(q) => p[i] = q[i]
    BY <1>1
  <2>4. Len(p) <= Len(q) => \A i \in 1..Len(p) : p[i] = q[i]
    BY <2>3 DEF Path
  <2>5. Len(q) <= Len(p) => \A i \in 1..Len(q) : q[i] = p[i]
    BY <2>3 DEF Path
  <2> QED BY <2>1, <2>2, <2>4, <2>5
<1>2. CASE T # {}
  <2>1. T \subseteq Nat
    OBVIOUS
  <2>2. PICK i \in T : \A j \in T : i <= j
    BY <1>2, <2>1, LeastNumber
  <2>3. i \in 1..Len(p) /\ i <= Len(q) /\ i \in 1..Len(q) /\ p[i] # q[i]
    BY <2>2 DEF Path
  <2>4. \A j \in 1..i - 1 : p[j] = q[j]
    <3>1. \A j \in 1..i - 1 : j \in 1..Len(p) /\ j <= Len(q) /\ ~(i <= j)
      BY <2>3 DEF Path
    <3> QED BY <2>2, <3>1
  <2>5. SubSeq(p, 1, i - 1) = SubSeq(q, 1, i - 1)
    BY <2>3, <2>4 DEF Path
  <2>6. PICK a \in Range(Names), b \in Range(Names) : a = p[i] /\ b = q[i]
    BY <2>3 DEF Path
  <2>7. Rank(a) \in Nat /\ Rank(b) \in Nat /\ Rank(a) # Rank(b)
    BY <2>3, <2>6, RankNumber
  <2>8. Rank(a) < Rank(b) \/ Rank(b) < Rank(a)
    BY <2>7
  <2>9. Rank(a) < Rank(b) => Before(p, q)
    BY <2>3, <2>5, <2>6 DEF Before
  <2>10. Rank(b) < Rank(a) => Before(q, p)
    BY <2>3, <2>5, <2>6 DEF Before, Path
  <2> QED BY <2>8, <2>9, <2>10
<1> QED BY <1>1, <1>2

(* What is left of a walk has one first and one deepest path.              *)
Neat(S) == Unlike(S) /\ \A x \in S : x.i \in Nat /\ x.from \in Path
LEMMA OneFirst ==
  ASSUME NEW S, Neat(S), NEW x \in S, NEW y \in S, (First(x, S) /\ First(y, S)) \/ (Deepest(x, S) /\ Deepest(y, S))
  PROVE  x = y
<1>1. ~Earlier(x, y) /\ ~Earlier(y, x)
  BY DEF First, Deepest
<1>2. x.i \in Nat /\ y.i \in Nat /\ x.from \in Path /\ y.from \in Path
  BY DEF Neat
<1>3. x.i = y.i
  BY <1>1, <1>2 DEF Earlier
<1>4. x.from = y.from
  BY <1>1, <1>2, <1>3, PathOrder DEF Earlier
<1> QED BY <1>3, <1>4 DEF Neat, Unlike

-----------------------------------------------------------------------------
(* What a goroutine on server s sees: the tree there, its own state, and   *)
(* what the server has answered.  All it does, as long as no connection is *)
(* lost, follows from that, the command l, the directory d of the clients  *)
(* and the tree of this machine.                                           *)
View(t, g, a) == [tree |-> t, work |-> g, says |-> a]
ViewOf(s) == View(fs[s], Goroutine(s), shown[s])

JoinAt(d, a) == IF a.abs THEN a ELSE Arg(d.abs, d.p \o a.p)
SentItems(here, i, p, dst) == Items(i, here, {q \in Walk(here, p) : Visible(p, q)}, Dir(p), dst)
Begun(l, d, here, t) ==
  CASE l.op = "push" -> UNION {SentItems(here, i, l.src[i].p, l.dst.p) : i \in DOMAIN l.src}
    [] l.op = "put" -> SentItems(here, 1, l.src[1].p, JoinAt(d, l.dst).p)
    [] l.op = "rmr" -> Items(1, t, Walk(t, JoinAt(d, l.dst).p), <<>>, <<>>)

Moving(g, at) == [g EXCEPT !.at = at]
Dropping(g, x) == [Idle EXCEPT !.at = "next", !.todo = g.todo \ {x}]
Going(g) == [g EXCEPT !.pos = @ + 1]

SentDir(l, x, t) == IF l.op = "push" THEN PushDir(t, x) ELSE PutDir(t, x)
Parent(here, x, t) == IF Real(here, x.from) \in DOMAIN here THEN MkdirAll(t, Dir(x.to)) ELSE t
Sent(l, here, x, v) ==
  LET from == Real(here, x.from)
      d == Parent(here, x, v.tree)
      o == IF from \in DOMAIN here /\ CanWrite(d, x.to) THEN OpenFile(d, x.to) ELSE d
  IN IF x.stat.kind = "dir" THEN View(SentDir(l, x, v.tree), Dropping(v.work, x), v.says)
     ELSE IF Is(here, from, "file") /\ CanWrite(d, x.to)
     THEN View(o, Opening(v.work, "copy", x, here[from].data), v.says)
     ELSE View(o, Dropping(v.work, x), v.says)
Fed(v) ==
  LET g == v.work
  IN IF g.pos < Len(g.data)
     THEN View(Written(v.tree, g.item.to, g.pos, g.data[g.pos + 1]), Going(g), v.says)
     ELSE View(SetMode(v.tree, g.item), Dropping(g, g.item), v.says)
Erased(x, v) ==
  IF CanRemove(v.tree, x.from) THEN View(Removed(v.tree, x.from), Dropping(v.work, x), v.says)
  ELSE View(v.tree, Moving(v.work, "exit"), v.says)

AnswerAt(l, d, t) ==
  LET p == JoinAt(d, l.dst).p
      e == Entry(t, p)
  IN CASE l.op = "mkdir" -> Mkdir(t, p)
       [] l.op = "mkdirp" -> MkdirAll(t, p)
       [] l.op = "rm" -> Removed(t, p)
       [] l.op = "rename" -> rename(l, t)
       [] l.op = "symlink" -> Symlink(t, JoinAt(d, l.src[1]), p)
       [] l.op = "chmod" -> Chmod(t, p, "x")
       [] l.op = "chown" -> IF e \in DOMAIN t THEN Chown(t, p, <<"v", t[e].own[2]>>) ELSE t
       [] l.op = "chgrp" -> IF e \in DOMAIN t THEN Chown(t, p, <<t[e].own[1], "h">>) ELSE t
       [] OTHER -> t
Followed(d, a, t) ==
  LET p == JoinAt(d, a)
  IN IF Is(t, Entry(t, p.p), "link") THEN t[Entry(t, p.p)].to ELSE p
Listed(d, a, t) ==
  LET e == Entry(t, Followed(d, a, t).p)
  IN IF Is(t, e, "dir") THEN {q \in DOMAIN t : q # <<>> /\ Front(q) = e} ELSE {e} \cap DOMAIN t
Says(l, d, t) ==
  CASE l.op = "pwd" -> {d.p} [] l.op = "ls" -> {q[Len(q)] : q \in Listed(d, l.dst, t)} \ Hidden [] OTHER -> {}

Moves(l, d, here, v, u) ==
  LET g == v.work
  IN \/ /\ g.at = "start" /\ l.op \in {"push", "put", "rmr"}
        /\ u = View(v.tree, Getting(g, "next", Begun(l, d, here, v.tree)), v.says)
     \/ g.at = "start" /\ l.op \in Alone /\ u = View(AnswerAt(l, d, v.tree), Moving(g, "exit"), Says(l, d, v.tree))
     \/ g.at = "next" /\ g.todo = {} /\ u = View(v.tree, Moving(g, "exit"), v.says)
     \/ g.at = "next" /\ l.op \in {"push", "put"} /\ \E x \in g.todo : First(x, g.todo) /\ u = Sent(l, here, x, v)
     \/ g.at = "next" /\ l.op = "rmr" /\ \E x \in g.todo : Deepest(x, g.todo) /\ u = Erased(x, v)
     \/ g.at = "copy" /\ u = Fed(v)
     \/ g.at = "exit" /\ u = View(v.tree, Moving(g, "gone"), v.says)

(* There is one such step at most, and none of a goroutine that has ended. *)
LEMMA OneMove ==
  ASSUME NEW l, NEW d, NEW here, NEW v, Neat(v.work.todo),
         NEW u1, NEW u2, Moves(l, d, here, v, u1), Moves(l, d, here, v, u2)
  PROVE  u1 = u2
<1>1. PICK g, at, op : g = v.work /\ at = g.at /\ op = l.op
  OBVIOUS
<1>2. {"push", "put", "rmr"} \cap Alone = {}
  BY DEF Alone
<1> DEFINE B(u) == u = View(v.tree, Getting(g, "next", Begun(l, d, here, v.tree)), v.says)
           R(u) == u = View(AnswerAt(l, d, v.tree), Moving(g, "exit"), Says(l, d, v.tree))
           F(u) == u = View(v.tree, Moving(g, "exit"), v.says)
           C(u) == \E x \in g.todo : First(x, g.todo) /\ u = Sent(l, here, x, v)
           E(u) == \E x \in g.todo : Deepest(x, g.todo) /\ u = Erased(x, v)
           K(u) == u = Fed(v)
           X(u) == u = View(v.tree, Moving(g, "gone"), v.says)
           AnyOf(u) == \/ at = "start" /\ op \in {"push", "put", "rmr"} /\ B(u)
                       \/ at = "start" /\ op \in Alone /\ R(u)
                       \/ at = "next" /\ g.todo = {} /\ F(u)
                       \/ at = "next" /\ op \in {"push", "put"} /\ C(u)
                       \/ at = "next" /\ op = "rmr" /\ E(u)
                       \/ at = "copy" /\ K(u)
                       \/ at = "exit" /\ X(u)
<1>3. AnyOf(u1) /\ AnyOf(u2)
  BY <1>1, Zenon DEF Moves
<1>4. (B(u1) /\ B(u2)) \/ (R(u1) /\ R(u2)) \/ (F(u1) /\ F(u2)) \/ (K(u1) /\ K(u2)) \/ (X(u1) /\ X(u2)) => u1 = u2
  OBVIOUS
<1>5. (C(u1) /\ C(u2)) \/ (E(u1) /\ E(u2)) => u1 = u2
  BY <1>1, OneFirst
<1>6. g.todo = {} => \A u : ~C(u) /\ ~E(u)
  OBVIOUS
<1> HIDE DEF B, R, F, C, E, K, X
<1> QED BY <1>2, <1>3, <1>4, <1>5, <1>6

LEMMA MovesUntilGone ==
  ASSUME NEW l, NEW d, NEW here, NEW v, NEW u, Moves(l, d, here, v, u)
  PROVE  v.work.at \notin {"off", "gone"}
BY DEF Moves

-----------------------------------------------------------------------------
(* A goroutine of a command that changes servers, whose connection is up,  *)
(* makes such a step.                                                      *)
Changing == Alone \cup {"push", "put", "rmr"}
LEMMA ChangingFacts ==
  ASSUME TypeInv, ScpInv, Cmd.op \in Changing, NEW s \in Servers, NEW w \in Workers, w = <<n, s>>
  PROVE  /\ Of(w) = Cmd /\ Server(w) = s /\ Writes(w) = s /\ s # Here /\ s \in Machines /\ Here \in Machines
         /\ Cmd.op \in {"push", "put"} => Reads(w) = Here
         /\ Cmd.op \notin {"pull", "get", "via"}
<1>1. Of(w) = Cmd /\ Server(w) = s
  BY DEF Of, Cmd, Server
<1>2. s # Here /\ s \in Machines /\ Here \in Machines
  BY FilesAssumption DEF FilesAssumption, Machines
<1>3. Cmd.op \notin {"pull", "get", "via"}
  BY DEF Changing, Alone
<1> QED BY <1>1, <1>2, <1>3 DEF Writes, Reads

LEMMA WorkerMoves ==
  ASSUME TypeInv, ScpInv, CommandInv, NEW s \in Servers, conn[s] = "up", Cmd.op \in Changing,
         DOMAIN shown = Servers, Worker(<<n, s>>)
  PROVE  Moves(Cmd, pwd[s], fs[Here], ViewOf(s), ViewOf(s)')
<1>1. PICK w \in Workers : w = <<n, s>>
  BY DEF Workers, ScpInv
<1>2. /\ Of(w) = Cmd /\ Server(w) = s /\ Writes(w) = s /\ s # Here /\ s \in Machines /\ Here \in Machines
      /\ Cmd.op \in {"push", "put"} => Reads(w) = Here
      /\ Cmd.op \notin {"pull", "get", "via"}
  BY <1>1, ChangingFacts
<1>3. Alive(s) /\ Alive(Here)
  BY <1>2 DEF Alive
<1>4. n' = n /\ DOMAIN work = Workers /\ DOMAIN fs = Machines
  BY <1>1, WorkerFacts DEF ScpInv
<1>5. PICK l, d, here, t, g, a : l = Cmd /\ d = pwd[s] /\ here = fs[Here] /\ t = fs[s] /\ g = work[w] /\ a = shown[s]
  OBVIOUS
<1>6. ViewOf(s) = View(t, g, a) /\ ViewOf(s)' = View(fs'[s], work'[w], shown'[s])
  BY <1>1, <1>4, <1>5 DEF ViewOf, Goroutine
<1>7. PICK v : v = View(t, g, a) /\ v.tree = t /\ v.work = g /\ v.says = a
  <2>1. View(t, g, a).tree = t /\ View(t, g, a).work = g /\ View(t, g, a).says = a
    BY DEF View
  <2> QED BY <2>1
<1>8. SUFFICES Moves(l, d, here, v, View(fs'[s], work'[w], shown'[s]))
  BY <1>5, <1>6, <1>7
<1>9. \A m, b : Join(m, b) = JoinAt(pwd[m], b)
  BY DEF Join, JoinAt
<1>10. ASSUME NEW x, work' = Without(w, x)
       PROVE  work'[w] = Dropping(g, x)
  BY <1>4, <1>5, <1>10 DEF Without, Dropping
<1>11. CASE Start(w)
  <2>1. g.at = "start" /\ shown' = shown /\ fs' = fs /\ l.op \in Copies \cup {"rmr"}
    BY <1>2, <1>5, <1>11 DEF Start
  <2>2. l.op \in {"push", "put", "rmr"}
    BY <1>2, <1>5, <2>1 DEF Copies
  <2>3. PICK T : T = Todo(w)
    OBVIOUS
  <2>4. T = Begun(l, d, here, t)
    <3>1. \A i, p, b : pushItems(i, p, b) = SentItems(here, i, p, b)
      BY <1>5 DEF pushItems, SentItems
    <3>2. CASE l.op = "push"
      <4>1. T = push(l)
        BY <1>2, <1>5, <2>3, <3>2 DEF Todo
      <4> QED BY <3>1, <3>2, <4>1 DEF push, Begun
    <3>3. CASE l.op = "put"
      <4>1. T = putAction(l, s)
        BY <1>2, <1>5, <2>3, <3>3 DEF Todo
      <4> QED BY <1>5, <1>9, <3>1, <3>3, <4>1 DEF putAction, Begun
    <3>4. CASE l.op = "rmr"
      <4>1. T = rmItems(l, s)
        BY <1>2, <1>5, <2>3, <3>4 DEF Todo
      <4> QED BY <1>3, <1>5, <1>9, <3>4, <4>1 DEF rmItems, WalkOn, Begun
    <3> QED BY <2>2, <3>2, <3>3, <3>4
  <2>5. work' = [work EXCEPT ![w].at = "next", ![w].todo = T]
    BY <1>11, <2>3 DEF Start
  <2>6. work'[w] = [g EXCEPT !.at = "next", !.todo = T]
    BY <1>4, <1>5, <2>5
  <2>7. work'[w] = Getting(g, "next", T)
    BY <2>6 DEF Getting
  <2> QED BY <1>5, <1>7, <2>1, <2>2, <2>4, <2>7 DEF Moves
<1>12. CASE Finish(w)
  <2>1. g.at = "next" /\ g.todo = {} /\ shown' = shown /\ fs' = fs /\ work'[w] = Moving(g, "exit")
    BY <1>4, <1>5, <1>12 DEF Finish, Moving
  <2> QED BY <1>5, <1>7, <2>1 DEF Moves
<1>13. CASE Exit(w)
  <2>1. g.at = "exit" /\ shown' = shown /\ fs' = fs /\ work'[w] = Moving(g, "gone")
    BY <1>4, <1>5, <1>13 DEF Exit, Moving
  <2> QED BY <1>5, <1>7, <2>1 DEF Moves
<1>14. CASE Copy(w)
  <2>1. g.at = "next" /\ l.op \in {"push", "put"} /\ Reads(w) = Here /\ shown' = shown
    BY <1>2, <1>5, <1>14 DEF Copy, Copies, Changing
  <2>2. PICK x \in g.todo :
          /\ First(x, g.todo)
          /\ IF ~Alive(Reads(w)) \/ ~Alive(Writes(w)) THEN fs' = fs /\ work' = Without(w, x) /\ bars' = bars
             ELSE IF x.stat.kind = "dir" THEN CopyDir(w, x) /\ bars' = bars
             ELSE CopyFile(w, x)
    BY <1>5, <1>14, Zenon DEF Copy
  <2>3. View(fs'[s], work'[w], a) = Sent(l, here, x, v)
    <3>1. CASE x.stat.kind = "dir"
      <4>1. CopyDir(w, x)
        BY <1>2, <1>3, <2>1, <2>2, <3>1
      <4>2. fs'[s] = SentDir(l, x, t)
        <5>1. fs'[s] = CASE l.op = "push" -> PushDir(t, x) [] l.op = "pull" -> PullDir(t, x)
                         [] l.op = "put" -> PutDir(t, x) [] l.op = "get" -> GetDir(t, x)
          BY <1>2, <1>4, <1>5, <4>1 DEF CopyDir
        <5> QED BY <2>1, <5>1 DEF SentDir
      <4>3. work'[w] = Dropping(g, x)
        BY <1>10, <4>1 DEF CopyDir
      <4> QED BY <1>7, <3>1, <4>2, <4>3 DEF Sent
    <3>2. CASE x.stat.kind # "dir"
      <4>1. CopyFile(w, x)
        BY <1>2, <1>3, <2>1, <2>2, <3>2
      <4>2. PICK from, p : from = Real(here, x.from) /\ p = Parent(here, x, t)
        OBVIOUS
      <4>6. PICK o : o = IF from \in DOMAIN here /\ CanWrite(p, x.to) THEN OpenFile(p, x.to) ELSE p
        OBVIOUS
      <4>3. IF Is(here, from, "file") /\ CanWrite(p, x.to)
            THEN /\ fs' = [fs EXCEPT ![s] = o]
                 /\ work' = [work EXCEPT ![w].at = "copy", ![w].item = x, ![w].data = here[from].data]
            ELSE /\ fs' = [fs EXCEPT ![s] = o]
                 /\ work' = Without(w, x)
        <5>1. PICK q :
                /\ q = IF from \in DOMAIN here /\ s # Here THEN MkdirAll(t, Dir(x.to)) ELSE t
                /\ \E y \in {IF from \in DOMAIN here /\ CanWrite(q, x.to) THEN OpenFile(q, x.to) ELSE q} :
                   IF Is(here, from, "file") /\ CanWrite(q, x.to)
                   THEN /\ fs' = [fs EXCEPT ![s] = y]
                        /\ work' = [work EXCEPT ![w].at = "copy", ![w].item = x, ![w].data = here[from].data]
                   ELSE /\ fs' = [fs EXCEPT ![s] = IF l.op = "pull" THEN SetMode(y, x) ELSE y]
                        /\ work' = Without(w, x)
          BY <1>2, <1>5, <2>1, <4>1, <4>2, Zenon DEF CopyFile
        <5>2. PICK y :
                /\ y = IF from \in DOMAIN here /\ CanWrite(q, x.to) THEN OpenFile(q, x.to) ELSE q
                /\ IF Is(here, from, "file") /\ CanWrite(q, x.to)
                   THEN /\ fs' = [fs EXCEPT ![s] = y]
                        /\ work' = [work EXCEPT ![w].at = "copy", ![w].item = x, ![w].data = here[from].data]
                   ELSE /\ fs' = [fs EXCEPT ![s] = IF l.op = "pull" THEN SetMode(y, x) ELSE y]
                        /\ work' = Without(w, x)
          BY <5>1
        <5>3. q = p
          BY <1>2, <4>2, <5>1 DEF Parent
        <5>4. y = o
          BY <4>6, <5>2, <5>3
        <5> QED BY <2>1, <5>2, <5>3, <5>4
      <4>4. CASE Is(here, from, "file") /\ CanWrite(p, x.to)
        <5>1. PICK f : f = here[from].data
          OBVIOUS
        <5>2. work' = [work EXCEPT ![w].at = "copy", ![w].item = x, ![w].data = f]
          BY <4>3, <4>4, <5>1
        <5>3. work'[w] = [g EXCEPT !.at = "copy", !.item = x, !.data = f]
          BY <1>4, <1>5, <5>2
        <5>4. work'[w] = Opening(g, "copy", x, here[from].data)
          BY <5>1, <5>3 DEF Opening
        <5>5. fs'[s] = o
          BY <1>2, <1>4, <4>3, <4>4
        <5> QED BY <1>7, <3>2, <4>2, <4>4, <4>6, <5>4, <5>5 DEF Sent
      <4>5. CASE ~(Is(here, from, "file") /\ CanWrite(p, x.to))
        <5>1. fs'[s] = o /\ work'[w] = Dropping(g, x)
          BY <1>2, <1>4, <1>10, <4>3, <4>5
        <5> QED BY <1>7, <3>2, <4>2, <4>5, <4>6, <5>1 DEF Sent
      <4> QED BY <4>4, <4>5
    <3> QED BY <3>1, <3>2
  <2> QED BY <1>5, <1>7, <2>1, <2>2, <2>3 DEF Moves
<1>15. CASE Chunk(w) \/ CopyEnd(w)
  <2>1. g.at = "copy" /\ shown' = shown
    BY <1>5, <1>15 DEF Chunk, CopyEnd
  <2>2. PICK x, k, c : x = g.item /\ k = g.pos /\ c = g.data[k + 1]
    OBVIOUS
  <2>3. View(fs'[s], work'[w], a) = Fed(v)
    <3>1. CASE Chunk(w)
      <4>1. /\ k < Len(g.data)
            /\ fs' = [fs EXCEPT ![s] = Written(@, x.to, k, c)]
            /\ work' = [work EXCEPT ![w].pos = @ + 1]
        BY <1>2, <1>3, <1>5, <2>2, <3>1, Zenon DEF Chunk
      <4>2. fs'[s] = Written(t, x.to, k, c) /\ work'[w] = Going(g)
        BY <1>2, <1>4, <1>5, <4>1 DEF Going
      <4> QED BY <1>7, <2>2, <4>1, <4>2 DEF Fed
    <3>2. CASE CopyEnd(w)
      <4>1. /\ k >= Len(g.data)
            /\ fs' = [fs EXCEPT ![s] = SetMode(@, x)]
            /\ work' = Without(w, x)
        BY <1>2, <1>3, <1>5, <2>2, <3>2, Zenon DEF CopyEnd
      <4>2. fs'[s] = SetMode(t, x) /\ work'[w] = Dropping(g, x)
        BY <1>2, <1>4, <1>5, <1>10, <4>1
      <4>3. ~(k < Len(g.data))
        <5>1. k \in Nat /\ Len(g.data) \in Nat
          BY <1>5, <2>2 DEF TypeInv, IsWork
        <5> QED BY <4>1, <5>1
      <4> QED BY <1>7, <2>2, <4>2, <4>3 DEF Fed
    <3> QED BY <1>15, <3>1, <3>2
  <2> QED BY <1>5, <1>7, <2>1, <2>3 DEF Moves
<1>16. CASE doRM(w)
  <2>1. g.at = "next" /\ l.op = "rmr" /\ shown' = shown
    BY <1>2, <1>5, <1>16 DEF doRM
  <2>2. PICK x \in g.todo :
          /\ Deepest(x, g.todo)
          /\ IF CanRemove(t, x.from)
             THEN fs' = [fs EXCEPT ![s] = Removed(@, x.from)] /\ work' = Without(w, x)
             ELSE fs' = fs /\ work' = [work EXCEPT ![w].at = "exit"]
    BY <1>2, <1>3, <1>5, <1>16, Zenon DEF doRM
  <2>3. View(fs'[s], work'[w], a) = Erased(x, v)
    <3>1. CASE CanRemove(t, x.from)
      <4>1. fs'[s] = Removed(t, x.from) /\ work'[w] = Dropping(g, x)
        BY <1>2, <1>4, <1>5, <1>10, <2>2, <3>1
      <4> QED BY <1>7, <3>1, <4>1 DEF Erased
    <3>2. CASE ~CanRemove(t, x.from)
      <4>1. fs'[s] = t /\ work'[w] = Moving(g, "exit")
        BY <1>4, <1>5, <2>2, <3>2 DEF Moving
      <4> QED BY <1>7, <3>2, <4>1 DEF Erased
    <3> QED BY <3>1, <3>2
  <2> QED BY <1>5, <1>7, <2>1, <2>2, <2>3 DEF Moves
<1>17. CASE Request(w)
  <2>1. g.at = "start" /\ l.op \in Alone
    BY <1>2, <1>5, <1>17 DEF Request
  <2>2. /\ fs' = [fs EXCEPT ![s] = Answer(l, s, @)]
        /\ shown' = [shown EXCEPT ![s] = Shows(l, s)]
        /\ work' = [work EXCEPT ![w].at = "exit"]
    BY <1>2, <1>3, <1>5, <1>17, Zenon DEF Request
  <2>3. fs'[s] = Answer(l, s, t) /\ shown'[s] = Shows(l, s) /\ work'[w] = Moving(g, "exit")
    BY <1>2, <1>4, <1>5, <2>2 DEF Moving
  <2>4. Answer(l, s, t) = AnswerAt(l, d, t)
    BY <1>5, <1>9 DEF Answer, AnswerAt, mkdir, rm, symlink, chmod, chown, chgrp
  <2>5. Shows(l, s) = Says(l, d, t)
    <3>1. CdPath(s, l.dst) = Followed(d, l.dst, t)
      BY <1>5, <1>9 DEF CdPath, Followed
    <3>2. getRemoteLsData(s, l.dst) = Listed(d, l.dst, t)
      BY <1>5, <3>1 DEF getRemoteLsData, Listed
    <3> QED BY <1>3, <1>5, <3>2 DEF Shows, Says, doLs, pwdOf
  <2> QED BY <1>5, <1>7, <2>1, <2>3, <2>4, <2>5 DEF Moves
<1>18. ~CopyFails(w)
  <2>1. work[w].at = "copy" => Cmd.op \in Copies
    BY <1>2 DEF CommandInv
  <2>2. Cmd.op \in Copies => Reads(w) = Here
    BY <1>2 DEF Copies
  <2> QED BY <1>3, <2>1, <2>2 DEF CopyFails
<1> QED BY <1>1, <1>11, <1>12, <1>13, <1>14, <1>15, <1>16, <1>17, <1>18, Zenon DEF Worker

-----------------------------------------------------------------------------
(* What is left to do stays neat.                                          *)
LEMMA TodoNeat ==
  ASSUME TypeInv, NEW w \in Workers, Of(w).op \in {"push", "put", "rmr"}
  PROVE  Neat(Todo(w))
<1>1. \A x \in Todo(w) : IsItem(x)
  BY TodoFacts DEF Copies
<1>2. CASE Of(w).op \in {"push", "put"}
  <2>1. Unlike(Todo(w)) /\ \A x \in Todo(w) : x.i \in Sources(Of(w))
    BY <1>2, TodoFacts DEF Copies, Within
  <2>2. Sources(Of(w)) \subseteq Nat
    <3>1. w[1] \in 1..MaxLines
      BY DEF Workers
    <3>2. Of(w).src \in Seq(PathArg)
      BY <3>1 DEF TypeInv, Of, IsLine
    <3> QED BY <3>2 DEF Sources
  <2> QED BY <1>1, <2>1, <2>2 DEF Neat, IsItem
<1>3. CASE Of(w).op = "rmr"
  <2>1. PICK t, paths : Todo(w) = Items(1, t, paths, <<>>, <<>>)
    BY <1>3 DEF Todo, rmItems
  <2>2. \A x \in Todo(w) : x.i = 1
    BY <2>1, ItemFields
  <2>3. Unlike(Todo(w))
    BY <2>1, ItemsUnlike DEF Unlike
  <2> QED BY <1>1, <2>2, <2>3 DEF Neat, IsItem
<1> QED BY <1>2, <1>3

LEMMA TodoShrinks ==
  ASSUME TypeInv, NEW w \in Workers, Worker(w), ~Start(w)
  PROVE  work'[w].todo \subseteq work[w].todo
<1>1. IsWork(work[w]) /\ DOMAIN work = Workers
  BY DEF TypeInv
<1>2. ASSUME NEW x, work' = Without(w, x)
      PROVE  work'[w].todo \subseteq work[w].todo
  BY <1>2, WithoutIs DEF Dropped
<1>3. ASSUME NEW at, work' = [work EXCEPT ![w].at = at]
      PROVE  work'[w].todo \subseteq work[w].todo
  <2>1. work'[w] = [work[w] EXCEPT !.at = at]
    BY <1>1, <1>3
  <2> QED BY <1>1, <2>1, WorkMoves
<1>4. CASE Finish(w) \/ Exit(w) \/ Request(w)
  BY <1>3, <1>4 DEF Finish, Exit, Request
<1>5. CASE doRM(w)
  <2>1. PICK x : work' = Without(w, x) \/ work' = [work EXCEPT ![w].at = "exit"]
    BY <1>5 DEF doRM
  <2> QED BY <1>2, <1>3, <2>1
<1>6. CASE CopyEnd(w) \/ CopyFails(w)
  BY <1>2, <1>6 DEF CopyEnd, CopyFails
<1>7. CASE Chunk(w)
  <2>1. work' = [work EXCEPT ![w].pos = @ + 1] \/ work' = Without(w, work[w].item)
    BY <1>7 DEF Chunk
  <2>2. CASE work' = [work EXCEPT ![w].pos = @ + 1]
    <3>1. work'[w] = [work[w] EXCEPT !.pos = @ + 1]
      BY <1>1, <2>2
    <3> QED BY <1>1, <3>1, WorkGoesOn
  <2> QED BY <1>2, <2>1, <2>2
<1>8. CASE Copy(w)
  <2>1. PICK x \in work[w].todo :
          work' = Without(w, x) \/ CopyDir(w, x) \/ CopyFile(w, x)
    BY <1>8 DEF Copy
  <2>2. CASE CopyDir(w, x)
    BY <1>2, <2>2, Zenon DEF CopyDir
  <2>3. CASE CopyFile(w, x)
    <3>1. \/ work' = Without(w, x)
          \/ /\ Is(fs[Reads(w)], Real(fs[Reads(w)], x.from), "file")
             /\ work' = [work EXCEPT ![w].at = "copy", ![w].item = x,
                                     ![w].data = fs[Reads(w)][Real(fs[Reads(w)], x.from)].data]
      BY <2>3, Zenon DEF CopyFile
    <3>2. ASSUME NEW f, work' = [work EXCEPT ![w].at = "copy", ![w].item = x, ![w].data = f]
          PROVE  work'[w].todo = work[w].todo
      <4>1. work'[w] = [work[w] EXCEPT !.at = "copy", !.item = x, !.data = f]
        BY <1>1, <3>2
      <4>2. PICK a, b, c, d, e : work[w] = WorkOf(a, b, c, d, e) /\ work[w].todo = b
        BY <1>1, WorkIs
      <4>3. PICK v, z : v = [work[w] EXCEPT !.at = "copy"] /\ z = [v EXCEPT !.item = x]
        OBVIOUS
      <4>4. v = WorkOf("copy", b, c, d, e)
        <5>1. [WorkOf(a, b, c, d, e) EXCEPT !.at = "copy"] = WorkOf("copy", b, c, d, e)
          BY DEF WorkOf
        <5> QED BY <4>2, <4>3, <5>1, Zenon
      <4>5. z = WorkOf("copy", b, x, d, e)
        <5>1. [WorkOf("copy", b, c, d, e) EXCEPT !.item = x] = WorkOf("copy", b, x, d, e)
          BY DEF WorkOf
        <5> QED BY <4>3, <4>4, <5>1, Zenon
      <4>6. [work[w] EXCEPT !.at = "copy", !.item = x, !.data = f] = [z EXCEPT !.data = f]
        BY <4>2, <4>3 DEF WorkOf
      <4>7. [z EXCEPT !.data = f] = WorkOf("copy", b, x, f, e)
        <5>1. [WorkOf("copy", b, x, d, e) EXCEPT !.data = f] = WorkOf("copy", b, x, f, e)
          BY DEF WorkOf
        <5> QED BY <4>5, <5>1, Zenon
      <4>8. work'[w] = WorkOf("copy", b, x, f, e)
        BY <4>1, <4>6, <4>7, Zenon
      <4> QED BY <4>2, <4>8 DEF WorkOf
    <3> QED BY <1>2, <3>1, <3>2
  <2> QED BY <1>2, <2>1, <2>2, <2>3
<1> QED BY <1>4, <1>5, <1>6, <1>7, <1>8, Zenon DEF Worker

LEMMA NeatStays ==
  ASSUME TypeInv, NEW w \in Workers, Worker(w), Of(w).op \in Changing, Neat(work[w].todo)
  PROVE  Neat(work'[w].todo)
<1>1. CASE Start(w)
  <2>1. Of(w).op \in {"push", "put", "rmr"}
    BY <1>1 DEF Start, Changing, Copies, Alone
  <2>2. PICK T : T = Todo(w)
    OBVIOUS
  <2>3. work' = [work EXCEPT ![w].at = "next", ![w].todo = T]
    BY <1>1, <2>2 DEF Start
  <2>4. work'[w] = [work[w] EXCEPT !.at = "next", !.todo = T]
    BY <2>3 DEF TypeInv
  <2>5. \A x \in T : IsItem(x)
    BY <2>1, <2>2, TodoFacts DEF Copies
  <2>6. work'[w] = Getting(work[w], "next", T)
    BY <2>4 DEF Getting
  <2>7. work'[w].todo = T
    BY <2>5, <2>6, WorkGets DEF TypeInv
  <2> QED BY <2>1, <2>2, <2>7, TodoNeat
<1>2. CASE ~Start(w)
  BY <1>2, TodoShrinks DEF Neat, Unlike
<1> QED BY <1>1, <1>2

(* A goroutine says nothing for another server.                            *)
LEMMA OthersShown ==
  ASSUME NEW w \in Workers, Worker(w), DOMAIN shown = Servers
  PROVE  /\ DOMAIN shown' = Servers /\ \A s \in Servers : s # Server(w) => shown'[s] = shown[s]
         /\ Of(w).op \notin Alone => shown' = shown
         /\ UNCHANGED <<conn, told, pwd, left, walk, alike, losses>>
<1>1. Request(w) => Of(w).op \in Alone /\ shown' = [shown EXCEPT ![Server(w)] = Shows(Of(w), Server(w))]
  BY DEF Request
<1>2. ~Request(w) => shown' = shown
  BY DEF Worker, Start, Finish, Copy, Chunk, CopyEnd, CopyFails, doRM, Exit
<1>3. UNCHANGED session
  BY DEF Worker, Start, Finish, Copy, Chunk, CopyEnd, CopyFails, doRM, Request, Exit
<1> QED BY <1>1, <1>2, <1>3 DEF session

-----------------------------------------------------------------------------
(* The track of a command: all servers see what is on it, one after the    *)
(* other, some further on than others.                                     *)
Track(d, T, k) ==
  /\ k \in Nat
  /\ \A i \in 0..k : Neat(T[i].work.todo)
  /\ \A i \in 1..k : Moves(Cmd, d, fs[Here], T[i - 1], T[i])
  /\ \A s \in Targets : pwd[s] = d /\ \E i \in 0..k : ViewOf(s) = T[i]
OnTrack == \E d, T, k : Track(d, T, k)

(* They begin at the same place,                                           *)
LEMMA TrackBegins ==
  ASSUME \A s, u \in Targets' : pwd'[s] = pwd'[u] /\ ViewOf(s)' = ViewOf(u)',
         \A s \in Targets' : Neat(Goroutine(s)'.todo)
  PROVE  OnTrack'
<1>1. CASE Targets' = {}
  <2> DEFINE T == [i \in 0..0 |-> View({}, Idle, {})]
  <2>1. T[0].work.todo = {}
    BY DEF View, Idle
  <2>2. 0 \in Nat /\ 0..0 = {0} /\ 1..0 = {} /\ Neat({})
    BY DEF Neat, Unlike
  <2> HIDE DEF T
  <2>3. \E d : Track(d, T, 0)'
    BY <1>1, <2>1, <2>2 DEF Track
  <2> QED BY <2>3 DEF OnTrack
<1>2. ASSUME NEW s \in Targets'
      PROVE  OnTrack'
  <2>1. PICK d, v : d = pwd'[s] /\ v = ViewOf(s)'
    OBVIOUS
  <2>2. PICK T : T = [i \in 0..0 |-> v]
    OBVIOUS
  <2>3. T[0] = v /\ 0 \in Nat /\ 0..0 = {0} /\ 1..0 = {}
    BY <2>2
  <2>4. v.work = Goroutine(s)'
    BY <2>1 DEF ViewOf, View
  <2>5. \A u \in Targets' : pwd'[u] = d /\ ViewOf(u)' = v
    BY <1>2, <2>1
  <2>6. Neat(v.work.todo)
    BY <1>2, <2>4
  <2>7. Track(d, T, 0)'
    BY <2>3, <2>5, <2>6 DEF Track
  <2> QED BY <2>7 DEF OnTrack
<1> QED BY <1>1, <1>2

(* go on along it,                                                         *)
LEMMA TrackGoesOn ==
  ASSUME TypeInv, ScpInv, CommandInv, Cmd.op \in Changing, DOMAIN shown = Servers,
         NEW s \in Targets, conn[s] = "up", Worker(<<n, s>>), OnTrack
  PROVE  OnTrack'
<1>1. PICK d, T, k : Track(d, T, k)
  BY DEF OnTrack
<1>2. PICK w \in Workers : w = <<n, s>> /\ s \in Servers
  BY DEF Workers, ScpInv, Targets, Clients
<1>3. /\ Of(w) = Cmd /\ Server(w) = s /\ Writes(w) = s /\ s # Here /\ s \in Machines /\ Here \in Machines
  BY <1>2, ChangingFacts
<1>4. /\ UNCHANGED <<prog, n, line>> /\ \A v \in Workers : v # w => work'[v] = work[v]
      /\ \A m \in Machines : m # s => fs'[m] = fs[m]
  BY <1>2, <1>3, WorkerFacts DEF ScpInv
<1>5. /\ \A r \in Servers : r # s => shown'[r] = shown[r]
      /\ UNCHANGED <<conn, pwd>>
  BY <1>2, <1>3, OthersShown
<1>6. Cmd' = Cmd /\ Targets' = Targets /\ fs'[Here] = fs[Here]
  BY <1>3, <1>4, <1>5 DEF Cmd, Targets, Clients
<1>7. ASSUME NEW r \in Targets, r # s
      PROVE  ViewOf(r)' = ViewOf(r)
  <2>1. r \in Servers /\ r \in Machines /\ <<n, r>> \in Workers /\ <<n, r>> # w
    BY <1>2, <1>7 DEF Targets, Clients, Machines, Workers, ScpInv
  <2>2. fs'[r] = fs[r] /\ shown'[r] = shown[r] /\ Goroutine(r)' = Goroutine(r)
    BY <1>4, <1>5, <1>7, <2>1 DEF Goroutine
  <2> QED BY <2>2 DEF ViewOf
<1>8. PICK u : u = ViewOf(s)'
  OBVIOUS
<1>9. k \in Nat /\ pwd[s] = d
  BY <1>1 DEF Track
<1>10. PICK j \in 0..k : ViewOf(s) = T[j]
  BY <1>1 DEF Track
<1>11. Moves(Cmd, d, fs[Here], T[j], u)
  BY <1>2, <1>8, <1>9, <1>10, WorkerMoves
<1>12. Neat(u.work.todo)
  <2>1. T[j].work = work[w] /\ u.work = work'[w]
    BY <1>2, <1>4, <1>8, <1>10 DEF ViewOf, View, Goroutine
  <2>2. Neat(work[w].todo)
    BY <1>1, <1>10, <2>1 DEF Track
  <2> QED BY <1>2, <1>3, <2>1, <2>2, NeatStays
<1>13. CASE j < k
  <2>1. j + 1 \in 1..k /\ (j + 1) - 1 = j /\ j + 1 \in 0..k
    BY <1>9, <1>10, <1>13
  <2>2. Moves(Cmd, d, fs[Here], T[j], T[j + 1])
    BY <1>1, <2>1 DEF Track
  <2>3. Neat(T[j].work.todo)
    BY <1>1, <1>10 DEF Track
  <2>4. T[j + 1] = u
    BY <1>11, <2>2, <2>3, OneMove
  <2>5. \A r \in Targets : pwd[r] = d /\ \E i \in 0..k : ViewOf(r)' = T[i]
    BY <1>1, <1>7, <1>8, <2>1, <2>4 DEF Track
  <2>6. Track(d, T, k)'
    BY <1>1, <1>5, <1>6, <2>5 DEF Track
  <2> QED BY <2>6 DEF OnTrack
<1>14. CASE j = k
  <2>1. PICK V : V = [i \in 0..k + 1 |-> IF i \in 0..k THEN T[i] ELSE u]
    OBVIOUS
  <2>2. k + 1 \in Nat /\ k + 1 \notin 0..k /\ k + 1 \in 0..k + 1 /\ 0..k \subseteq 0..k + 1
        /\ (k + 1) - 1 = k /\ k \in 0..k
    BY <1>9
  <2>3. V[k + 1] = u /\ \A i \in 0..k : V[i] = T[i]
    BY <2>1, <2>2
  <2>4. \A i \in 0..k + 1 : i \in 0..k \/ i = k + 1
    BY <1>9
  <2>5. \A i \in 1..k + 1 : (i \in 1..k /\ i \in 0..k /\ i - 1 \in 0..k) \/ i = k + 1
    BY <1>9
  <2>6. \A i \in 0..k + 1 : Neat(V[i].work.todo)
    BY <1>1, <1>12, <2>3, <2>4 DEF Track
  <2>7. Moves(Cmd, d, fs[Here], V[k], V[k + 1])
    BY <1>11, <1>14, <2>2, <2>3
  <2>8. \A i \in 1..k + 1 : Moves(Cmd, d, fs[Here], V[i - 1], V[i])
    <3>1. ASSUME NEW i \in 1..k + 1
          PROVE  Moves(Cmd, d, fs[Here], V[i - 1], V[i])
      <4>1. CASE i \in 1..k /\ i \in 0..k /\ i - 1 \in 0..k
        BY <1>1, <2>3, <4>1 DEF Track
      <4>2. CASE i = k + 1
        BY <2>2, <2>7, <4>2
      <4> QED BY <2>5, <4>1, <4>2
    <3> QED BY <3>1
  <2>9. \A r \in Targets : pwd[r] = d /\ \E i \in 0..k + 1 : ViewOf(r)' = V[i]
    <3>1. ASSUME NEW r \in Targets
          PROVE  pwd[r] = d /\ \E i \in 0..k + 1 : ViewOf(r)' = V[i]
      <4>1. pwd[r] = d /\ \E i \in 0..k : ViewOf(r) = T[i]
        BY <1>1 DEF Track
      <4>2. CASE r = s
        BY <1>8, <2>2, <2>3, <4>1, <4>2
      <4>3. CASE r # s
        BY <1>7, <2>2, <2>3, <4>1, <4>3
      <4> QED BY <4>2, <4>3
    <3> QED BY <3>1
  <2>10. Track(d, V, k + 1)'
    BY <1>5, <1>6, <2>2, <2>6, <2>8, <2>9 DEF Track
  <2> QED BY <2>10 DEF OnTrack
<1> QED BY <1>9, <1>10, <1>13, <1>14

(* and are all at its end when their goroutines have ended.                *)
Same(S) == \A s, u \in S : fs[s] = fs[u] /\ shown[s] = shown[u]
LEMMA TrackEnds ==
  ASSUME OnTrack, \A s \in Targets : Goroutine(s).at = "gone"
  PROVE  Same(Targets)
<1>1. PICK d, T, k : Track(d, T, k)
  BY DEF OnTrack
<1>2. k \in Nat
  BY <1>1 DEF Track
<1>3. ASSUME NEW s \in Targets
      PROVE  ViewOf(s) = T[k]
  <2>1. PICK i \in 0..k : ViewOf(s) = T[i]
    BY <1>1 DEF Track
  <2>2. T[i].work.at = "gone"
    BY <2>1 DEF ViewOf, View
  <2>3. CASE i < k
    <3>1. i + 1 \in 1..k /\ (i + 1) - 1 = i
      BY <1>2, <2>3
    <3>2. Moves(Cmd, d, fs[Here], T[i], T[i + 1])
      BY <1>1, <3>1 DEF Track
    <3> QED BY <2>2, <3>2, MovesUntilGone
  <2>4. i < k \/ i = k
    BY <1>2
  <2> QED BY <2>1, <2>3, <2>4
<1>4. \A s, u \in Targets : ViewOf(s) = ViewOf(u)
  BY <1>3
<1> QED BY <1>4 DEF Same, ViewOf, View

-----------------------------------------------------------------------------
(* Only goroutines of get go on when nobody waits for them.                *)
Quiet == \A w \in Workers : w[1] = n /\ work[w].at \notin {"off", "gone"} => Cmd.op = "get"

(* Whose goroutines there are at which time; as long as nothing is lost,   *)
(* the clients' connections are up.                                        *)
ServedInv ==
  /\ losses \in Nat /\ (losses = 0 => \A s \in Servers : conn[s] # "lost")
  /\ DOMAIN shown = Servers
  /\ phase = "rmdir" => left \subseteq Clients
  /\ phase = "wait" => Cmd.op \in Changing \cup {"pull", "get", "via"}
  /\ phase \notin {"wait", "spawn"} => Quiet

(* The loop of rmdir: what it did on the clients that it has visited, it   *)
(* can do on those that are left.                                          *)
Rmdired ==
  /\ \A s, u \in Targets : shown[s] = shown[u]
  /\ \A s, u \in left : fs[s] = fs[u]
  /\ \A s, u \in Targets \ left : fs[s] = fs[u]
  /\ \A s \in left, u \in Targets \ left :
       /\ CanRemove(fs[s], Cmd.dst.p) /\ Is(fs[s], Entry(fs[s], Cmd.dst.p), "dir")
       /\ fs[u] = Removed(fs[s], Cmd.dst.p)

(* The same has been done on all servers: nothing, or the same command; as *)
(* long as it goes on, they are all on its track.                          *)
Even ==
  /\ phase \in {"start", "connect"} => shown = Nothing /\ \A s, u \in Servers : fs[s] = fs[u]
  /\ phase = "rmdir" => Rmdired
  /\ phase = "wait" /\ Cmd.op \in Changing => OnTrack
  /\ (phase \in {"prompt", "spawn", "end"} \/ (phase = "wait" /\ Cmd.op \in {"pull", "get"})) /\ Cmd.op # "via"
       => Same(Targets)
EvenInv == alike /\ losses = 0 /\ ~Abandoned => Even

-----------------------------------------------------------------------------
(* A goroutine that was left behind never ends: nobody waits for it.       *)
LEMMA LeftBehind ==
  ASSUME TypeInv, ScpInv, CommandInv, NEW w \in Workers, Worker(w), w[1] # n
  PROVE  w[1] < n /\ work'[w].at \notin {"off", "gone"} /\ work[w].at \notin {"off", "gone"}
<1>1. work[w].at # "off"
  BY WorkerFacts DEF TypeInv
<1>2. w[1] < n
  <2>1. w[1] \in Nat /\ n \in Nat
    BY DEF Workers, ScpInv
  <2> QED BY <1>1, <2>1, IdleWork DEF CommandInv
<1>3. work[w].at # "gone"
  BY DEF Worker, Start, Finish, Copy, Chunk, CopyEnd, CopyFails, doRM, Request, Exit
<1>4. CASE Of(w).op \in Copies
  <2>1. \/ Begins(w) \/ Leaves(w) \/ \E x : Drops(w, x)
        \/ \E x : Opens(w, x)
        \/ Takes(w) \/ Completes(w)
    BY <1>4, CopySteps
  <2>2. work'[w].at \notin {"off", "gone"}
    BY <1>2, <2>1 DEF Begins, Leaves, Drops, Dropped, Opens, Takes, Completes
  <2> QED BY <1>1, <1>2, <1>3, <2>2
<1>5. CASE Of(w).op \notin Copies
  BY <1>1, <1>2, <1>3, <1>5, OtherSteps
<1> QED BY <1>4, <1>5

LEMMA AbandonedStays ==
  ASSUME TypeInv, ScpInv, CommandInv, [Next]_vars, Abandoned
  PROVE  Abandoned'
<1>1. PICK v \in Workers : v[1] < n /\ work[v].at \notin {"off", "gone"}
  BY DEF Abandoned
<1>2. v[1] \in Nat /\ n \in Nat /\ v[1] # n
  BY <1>1 DEF Workers, ScpInv
<1>3. ASSUME n' \in {n, n + 1}, work'[v].at \notin {"off", "gone"}
      PROVE  Abandoned'
  <2>1. v[1] < n'
    BY <1>1, <1>2, <1>3
  <2> QED BY <1>3, <2>1 DEF Abandoned
<1>4. CASE \/ \E a \in ScpLines : lscpAction(a)
           \/ lsftpAction
           \/ Waited \/ ViaEnd
           \/ \E s \in Servers : createConnect(s) \/ rmdir(s) \/ Lose(s)
           \/ UNCHANGED vars
  <2>1. n' = n /\ work' = work
    BY <1>4 DEF lscpAction, lsftpAction, Waited, ViaEnd, createConnect, rmdir, Lose, vars, session
  <2> QED BY <1>1, <1>3, <2>1
<1>5. CASE Connected \/ \E s \in Servers : getAction(s)
  <2>1. n' = n /\ \E S : work' \in {work, Spawn(S)}
    BY <1>5 DEF Connected, getAction
  <2>2. work'[v] = work[v]
    BY <1>2, <2>1 DEF Spawn
  <2> QED BY <1>1, <1>3, <2>1, <2>2
<1>6. CASE ViaStep
  <2>1. n' = n /\ \E y : work' \in {work, [w \in Workers |-> IF w[1] = n /\ w[2] \in Targets THEN y ELSE work[w]]}
    BY <1>6, Zenon DEF ViaStep
  <2>2. work'[v] = work[v]
    BY <1>2, <2>1
  <2> QED BY <1>1, <1>3, <2>1, <2>2
<1>7. ASSUME NEW l \in SftpLines, Executor(l)
      PROVE  Abandoned'
  <2>1. n' = n + 1 /\ \A w \in Workers : w[1] # n' => work'[w] = work[w]
    BY <1>7 DEF Executor
  <2>2. v[1] # n'
    BY <1>1, <1>2, <2>1
  <2> QED BY <1>1, <1>3, <2>1, <2>2
<1>8. ASSUME NEW w \in Workers, Worker(w)
      PROVE  Abandoned'
  <2>1. n' = n /\ \A u \in Workers : u # w => work'[u] = work[u]
    BY <1>8, WorkerFacts DEF TypeInv
  <2>2. v = w => work'[v].at \notin {"off", "gone"}
    BY <1>2, <1>8, LeftBehind
  <2> QED BY <1>1, <1>3, <2>1, <2>2
<1> QED BY <1>4, <1>5, <1>6, <1>7, <1>8, Zenon DEF Next, Progress, Main

-----------------------------------------------------------------------------
LEMMA ServedInit == Init => ServedInv
<1> SUFFICES ASSUME Init
             PROVE  ServedInv
  OBVIOUS
<1>1. losses = 0 /\ (\A s \in Servers : conn[s] = "none") /\ DOMAIN shown = Servers /\ phase = "start"
  BY DEF Init, Nothing
<1>2. \A w \in Workers : work[w].at = "off"
  BY IdleWork DEF Init
<1> QED BY <1>1, <1>2 DEF ServedInv, Quiet

LEMMA ServedTyped ==
  ASSUME TypeInv, ScpInv, CommandInv, ServedInv, NEW l \in SftpLines, Executor(l)
  PROVE  /\ ServedInv'
         /\ Cmd' = Typed(l) /\ Cmd'.op = l.op /\ prog = "sftp" /\ phase = "prompt"
         /\ Targets = Clients /\ Targets' = Clients /\ UNCHANGED <<conn, alike, losses>>
         /\ \A s \in Servers : fs'[s] = fs[s]
         /\ shown' = IF l.op = "df" THEN getRemoteStat(l.dst) ELSE Nothing
         /\ phase' \in {"prompt", "spawn", "rmdir", "wait", "end"}
         /\ phase' = "wait" => /\ l.op \in Changing
                               /\ \A s \in Clients : Goroutine(s)' = Started
         /\ phase' = "rmdir" => left' = Clients
         /\ phase' = "spawn" => l.op = "get"
<1>1. /\ phase = "prompt" /\ n < MaxLines /\ n' = n + 1 /\ prog' = prog
      /\ UNCHANGED <<conn, alike, losses>>
      /\ line' = [line EXCEPT ![n + 1] = Typed(l)]
      /\ shown' = IF l.op = "df" THEN getRemoteStat(l.dst) ELSE Nothing
  BY DEF Executor
<1>2. prog = "sftp" /\ n \in 1..MaxLines /\ n + 1 \in 1..MaxLines
  BY <1>1, FilesAssumption DEF ScpInv, FilesAssumption
<1>3. Cmd' = Typed(l) /\ Cmd'.op = l.op
  <2>1. Cmd' = Typed(l)
    BY <1>1, <1>2 DEF Cmd, TypeInv
  <2> QED BY <2>1 DEF Typed
<1>4. Targets = Clients /\ Targets' = Clients
  BY <1>1, <1>2 DEF Targets, Clients
<1>5. \A s \in Servers : fs'[s] = fs[s]
  <2>1. \E t : fs' = [fs EXCEPT ![Here] = t]
    BY DEF Executor
  <2> QED BY <2>1, FilesAssumption DEF FilesAssumption, TypeInv, Machines
<1>6. PICK gets, all \in BOOLEAN :
        /\ gets => l.op = "get"
        /\ all => l.op \in Changing
        /\ l.op \in Alone \cup {"rmr"} => all
        /\ phase' = CASE l.op = "exit" -> "end"
                      [] (gets \/ l.op = "rmdir") /\ Clients # {} -> IF gets THEN "spawn" ELSE "rmdir"
                      [] all -> "wait"
                      [] OTHER -> "prompt"
        /\ left' = IF phase' \in {"spawn", "rmdir"} THEN Clients ELSE {}
        /\ work' = [w \in Workers |-> IF all /\ w[1] = n' /\ w[2] \in Clients THEN Started ELSE work[w]]
  <2>1. PICK gets : gets = (l.op = "get" /\ CanMkdirAll(fs[Here], Join(Here, l.dst).p))
    OBVIOUS
  <2>2. PICK all : all = (\/ l.op = "put" /\ Entry(fs[Here], Join(Here, l.src[1]).p) \in DOMAIN fs[Here]
                          \/ l.op \in Alone \cup {"rmr"})
    OBVIOUS
  <2>3. /\ phase' = CASE l.op = "exit" -> "end"
                      [] (gets \/ l.op = "rmdir") /\ Clients # {} -> IF gets THEN "spawn" ELSE "rmdir"
                      [] all -> "wait"
                      [] OTHER -> "prompt"
        /\ left' = IF phase' \in {"spawn", "rmdir"} THEN Clients ELSE {}
        /\ work' = [w \in Workers |-> IF all /\ w[1] = n' /\ w[2] \in Clients THEN Started ELSE work[w]]
    BY <2>1, <2>2, Zenon DEF Executor
  <2>4. gets \in BOOLEAN /\ all \in BOOLEAN /\ (gets => l.op = "get") /\ (all => l.op \in Changing)
        /\ (l.op \in Alone \cup {"rmr"} => all)
    BY <2>1, <2>2 DEF Changing
  <2> QED BY <2>3, <2>4
<1>7. /\ phase' \in {"prompt", "spawn", "rmdir", "wait", "end"}
      /\ phase' = "wait" => all
      /\ phase' = "rmdir" => left' = Clients
      /\ phase' = "spawn" => l.op = "get"
  BY <1>6
<1>8. phase' \notin {"wait", "spawn"} /\ l.op # "get" => Clients = {} \/ ~all
  <2>1. l.op \in {"exit", "rmdir"} => ~all
    BY <1>6 DEF Changing, Alone
  <2> QED BY <1>6, <2>1
<1>9. ASSUME NEW s \in Clients, all
      PROVE  Goroutine(s)' = Started
  <2>1. PICK w \in Workers : w = <<n', s>> /\ w[1] = n' /\ w[2] = s
    <3>1. <<n', s>> \in Workers
      BY <1>1, <1>2, <1>9 DEF Workers, Clients
    <3> QED BY <3>1
  <2> QED BY <1>6, <1>9, <2>1 DEF Goroutine
<1>10. Quiet' \/ phase' \in {"wait", "spawn"}
  <2>1. ASSUME NEW w \in Workers, w[1] = n', work'[w].at \notin {"off", "gone"}, phase' \notin {"wait", "spawn"}
        PROVE  l.op = "get"
    <3>1. work[w] = Idle
      <4>1. w[1] > n
        BY <1>1, <1>2, <2>1
      <4> QED BY <4>1 DEF CommandInv
    <3>2. all /\ w[2] \in Clients
      BY <1>6, <2>1, <3>1, IdleWork
    <3> QED BY <1>8, <2>1, <3>2
  <2> QED BY <1>3, <2>1 DEF Quiet
<1>11. DOMAIN shown' = Servers
  BY <1>1 DEF getRemoteStat, Nothing
<1>12. ServedInv'
  <2>1. phase' = "wait" => Cmd'.op \in Changing
    BY <1>3, <1>6, <1>7
  <2>2. Clients' = Clients
    BY <1>1 DEF Clients
  <2>3. losses' \in Nat /\ (losses' = 0 => \A s \in Servers : conn'[s] # "lost")
    BY <1>1 DEF ServedInv
  <2> QED BY <1>7, <1>10, <1>11, <2>1, <2>2, <2>3 DEF ServedInv, Quiet
<1> QED BY <1>1, <1>2, <1>3, <1>4, <1>5, <1>6, <1>7, <1>9, <1>12

-----------------------------------------------------------------------------
LEMMA ServedStep == TypeInv /\ ScpInv /\ CommandInv /\ ServedInv /\ [Next]_vars => ServedInv'
<1> SUFFICES ASSUME TypeInv, ScpInv, CommandInv, ServedInv, [Next]_vars
             PROVE  ServedInv'
  OBVIOUS
<1>1. ASSUME NEW l \in SftpLines, Executor(l)
      PROVE  ServedInv'
  BY <1>1, ServedTyped
<1>2. ASSUME UNCHANGED <<conn, losses, shown>>,
             phase' = "rmdir" => left' \subseteq Clients,
             phase' = "wait" => Cmd'.op \in Changing \cup {"pull", "get", "via"},
             phase' \in {"wait", "spawn"} \/ Quiet'
      PROVE  ServedInv'
  BY <1>2 DEF ServedInv, Quiet, Clients
<1>3. phase \in {"wait", "spawn"} \/ Quiet
  BY DEF ServedInv, Quiet
<1>4. phase \in {"start", "connect"} => n = 1 /\ \A w \in Workers : work[w].at = "off"
  BY IdleWork DEF CommandInv
<1>5. CASE (\E a \in ScpLines : lscpAction(a)) \/ lsftpAction
  <2>1. phase = "start" /\ phase' \in {"end", "connect"} /\ UNCHANGED <<conn, losses, shown, work>>
    BY <1>5 DEF lscpAction, lsftpAction
  <2>2. Quiet'
    BY <1>4, <2>1 DEF Quiet
  <2> QED BY <1>2, <2>1, <2>2
<1>6. ASSUME NEW s \in Servers, createConnect(s)
      PROVE  ServedInv'
  <2>1. /\ phase = "connect" /\ UNCHANGED <<phase, n, line, losses, shown, work>>
        /\ \E c \in {"up", "failed"} : conn' = [conn EXCEPT ![s] = c]
    BY <1>6 DEF createConnect
  <2>2. Quiet'
    BY <1>4, <2>1 DEF Quiet
  <2>3. losses = 0 => \A r \in Servers : conn'[r] # "lost"
    BY <2>1 DEF ServedInv, TypeInv
  <2> QED BY <2>1, <2>2, <2>3 DEF ServedInv, Quiet
<1>7. CASE Connected
  <2>1. /\ phase = "connect" /\ UNCHANGED <<conn, losses, shown, line, n>>
        /\ phase' \in {"prompt", "end", "via", "wait"}
        /\ phase' # "wait" => work' = work
        /\ phase' = "wait" => prog # "sftp" /\ Cmd.op # "via"
    BY <1>7 DEF Connected
  <2>2. phase' # "wait" => Quiet'
    BY <1>4, <2>1 DEF Quiet
  <2>3. ASSUME phase' = "wait"
        PROVE  Cmd.op \in {"push", "pull"}
    <3>1. ScpCommand(line[1]) /\ n = 1
      BY <2>1, <2>3 DEF ScpInv
    <3> QED BY <2>1, <2>3, <3>1 DEF ScpCommand, Cmd
  <2>4. Cmd' = Cmd
    BY <2>1 DEF Cmd
  <2> QED BY <1>2, <2>1, <2>2, <2>3, <2>4 DEF Changing
<1>8. CASE Waited
  <2>1. /\ phase = "wait" /\ phase' \in {"prompt", "via", "end"} /\ UNCHANGED <<conn, losses, shown, work, n, line>>
        /\ \A s \in Targets : work[<<n, s>>].at = "gone"
    BY <1>8 DEF Waited
  <2>2. ASSUME NEW w \in Workers, w[1] = n, work[w].at \notin {"off", "gone"}
        PROVE  FALSE
    <3>1. w = <<n, w[2]>>
      BY <2>2 DEF Workers
    <3>2. w[2] \in Targets
      BY <2>2 DEF CommandInv
    <3> QED BY <2>1, <2>2, <3>1, <3>2
  <2>3. Quiet'
    BY <2>1, <2>2 DEF Quiet
  <2> QED BY <1>2, <2>1, <2>3
<1>9. CASE ViaEnd
  <2>1. phase = "via" /\ phase' = "end" /\ UNCHANGED <<conn, losses, shown, work, n, line>>
    BY <1>9 DEF ViaEnd
  <2>2. Quiet'
    BY <1>3, <2>1 DEF Quiet, Cmd
  <2> QED BY <1>2, <2>1, <2>2
<1>10. CASE ViaStep
  <2>1. phase = "via" /\ UNCHANGED <<conn, losses, shown, n, line>>
        /\ (phase' = "wait" \/ (phase' = phase /\ work' = work))
    BY <1>10, Zenon DEF ViaStep
  <2>2. Cmd'.op = "via"
    BY <2>1 DEF CommandInv, Cmd
  <2>3. phase' # "wait" => Quiet'
    BY <1>3, <2>1 DEF Quiet, Cmd
  <2> QED BY <1>2, <2>1, <2>2, <2>3
<1>11. ASSUME NEW s \in Servers, rmdir(s)
       PROVE  ServedInv'
  <2>1. /\ phase = "rmdir" /\ UNCHANGED <<conn, losses, shown, work, n, line>>
        /\ left' \subseteq left /\ phase' \in {"prompt", "rmdir"}
    BY <1>11 DEF rmdir, Remaining
  <2>2. Quiet'
    BY <1>3, <2>1 DEF Quiet, Cmd
  <2> QED BY <1>2, <2>1, <2>2 DEF ServedInv
<1>12. ASSUME NEW s \in Servers, getAction(s)
       PROVE  ServedInv'
  <2>1. /\ phase = "spawn" /\ UNCHANGED <<conn, losses, shown, n, line>>
        /\ phase' \in {"prompt", "wait", "spawn"}
    BY <1>12 DEF getAction
  <2>2. Cmd'.op = "get"
    BY <2>1 DEF CommandInv, Cmd
  <2> QED BY <1>2, <2>1, <2>2 DEF Quiet
<1>13. ASSUME NEW s \in Servers, Lose(s)
       PROVE  ServedInv'
  <2>1. /\ UNCHANGED <<phase, n, line, left, shown, work>>
        /\ conn[s] = "up" /\ conn' = [conn EXCEPT ![s] = "lost"] /\ losses' = losses + 1
    BY <1>13 DEF Lose
  <2>2. losses' \in Nat /\ losses' # 0
    BY <2>1 DEF ServedInv
  <2>3. Clients' = Clients
    BY <2>1 DEF Clients, TypeInv
  <2>4. Quiet' = Quiet /\ Cmd' = Cmd
    BY <2>1 DEF Quiet, Cmd
  <2> QED BY <2>1, <2>2, <2>3, <2>4 DEF ServedInv
<1>14. ASSUME NEW w \in Workers, Worker(w)
       PROVE  ServedInv'
  <2>1. /\ UNCHANGED <<n, line, phase, conn, losses, left>> /\ DOMAIN shown' = Servers
        /\ \A v \in Workers : v # w => work'[v] = work[v]
        /\ work[w].at # "off"
    BY <1>14, WorkerFacts, OthersShown DEF ScpInv, ServedInv
  <2>2. work[w].at # "gone"
    BY <1>14 DEF Worker, Start, Finish, Copy, Chunk, CopyEnd, CopyFails, doRM, Request, Exit
  <2>3. phase' \in {"wait", "spawn"} \/ Quiet'
    BY <1>3, <2>1, <2>2 DEF Quiet, Cmd
  <2> QED BY <2>1, <2>3 DEF ServedInv, Quiet, Cmd, Clients
<1>15. CASE UNCHANGED vars
  BY <1>15 DEF vars, session, ServedInv, Quiet, Cmd, Clients
<1> QED BY <1>1, <1>5, <1>6, <1>7, <1>8, <1>9, <1>10, <1>11, <1>12, <1>13, <1>14, <1>15, Zenon
    DEF Next, Progress, Main

-----------------------------------------------------------------------------
LEMMA EvenInit == Init => EvenInv
<1> SUFFICES ASSUME Init, alike
             PROVE  Even
  BY DEF EvenInv
<1>1. phase = "start" /\ shown = Nothing /\ \A s, u \in Servers : fs[s] = fs[u]
  BY DEF Init
<1> QED BY <1>1 DEF Even

(* No server becomes like the others, and no lost connection comes back.   *)
LEMMA AlikeBefore ==
  ASSUME ServedInv, [Next]_vars
  PROVE  alike' = alike /\ (losses' = 0 => losses = 0)
<1>1. ASSUME UNCHANGED <<alike, losses>>
      PROVE  alike' = alike /\ (losses' = 0 => losses = 0)
  BY <1>1
<1>2. CASE \/ \E a \in ScpLines : lscpAction(a)
           \/ lsftpAction
           \/ Connected \/ Waited \/ ViaStep \/ ViaEnd
           \/ \E s \in Servers : createConnect(s) \/ rmdir(s) \/ getAction(s)
           \/ UNCHANGED vars
  BY <1>1, <1>2 DEF lscpAction, lsftpAction, Connected, Waited, ViaStep, ViaEnd, createConnect, rmdir, getAction, vars, session
<1>3. ASSUME NEW s \in Servers, Lose(s)
      PROVE  alike' = alike /\ (losses' = 0 => losses = 0)
  BY <1>3 DEF Lose, ServedInv
<1>4. ASSUME NEW l \in SftpLines, Executor(l)
      PROVE  UNCHANGED <<alike, losses>>
  BY <1>4 DEF Executor
<1>5. ASSUME NEW w \in Workers, Worker(w)
      PROVE  UNCHANGED <<alike, losses>>
  BY <1>5, OthersShown DEF ServedInv
<1> QED BY <1>1, <1>2, <1>3, <1>4, <1>5, Zenon DEF Next, Progress, Main

(* The clients have nothing lost, so that all can be asked.                *)
LEMMA ClientsUp ==
  ASSUME ServedInv, losses = 0, NEW s \in Clients
  PROVE  s \in Servers /\ conn[s] = "up" /\ Alive(s) /\ s # Here /\ s \in Machines
BY FilesAssumption DEF ServedInv, Clients, Alive, FilesAssumption, Machines

-----------------------------------------------------------------------------
(* A line that is typed.                                                   *)
LEMMA EvenTyped ==
  ASSUME TogetherInv, TypeInv, ScpInv, CommandInv, ServedInv, Even, losses = 0,
         NEW l \in SftpLines, Executor(l)
  PROVE  Even'
<1>1. /\ Cmd' = Typed(l) /\ Cmd'.op = l.op /\ prog = "sftp" /\ phase = "prompt"
      /\ Targets = Clients /\ Targets' = Clients /\ UNCHANGED <<conn, alike, losses>>
      /\ \A s \in Servers : fs'[s] = fs[s]
      /\ shown' = IF l.op = "df" THEN getRemoteStat(l.dst) ELSE Nothing
      /\ phase' \in {"prompt", "spawn", "rmdir", "wait", "end"}
      /\ phase' = "wait" => l.op \in Changing /\ \A s \in Clients : Goroutine(s)' = Started
      /\ phase' = "rmdir" => left' = Clients
  BY ServedTyped
<1>2. Clients \subseteq Servers
  BY DEF Clients
<1>3. \A s, u \in Clients : fs[s] = fs[u]
  <2>1. Cmd.op # "via"
    BY <1>1 DEF CommandInv, ScpInv, Cmd
  <2> QED BY <1>1, <2>1 DEF Even, Same
<1>4. \A s, u \in Clients : pwd'[s] = pwd'[u]
  BY <1>1, TypedTogether DEF TogetherInv, Together, Clients
<1>5. ASSUME NEW s \in Clients, NEW u \in Clients
      PROVE  shown'[s] = shown'[u]
  <2>1. s \in Servers /\ u \in Servers
    BY <1>2, <1>5
  <2>2. CASE l.op = "df"
    <3>1. Alive(s) /\ Alive(u)
      BY <1>5, ClientsUp
    <3>2. fs[s] = fs[u] /\ pwd[s] = pwd[u]
      BY <1>3, <1>5 DEF TogetherInv, Together
    <3>3. Join(s, l.dst) = Join(u, l.dst)
      BY <3>2 DEF Join
    <3>4. shown'[s] = IF Real(fs[s], Join(s, l.dst).p) \in DOMAIN fs[s] THEN {Join(s, l.dst).p} ELSE {}
      BY <1>1, <1>5, <2>1, <2>2, <3>1 DEF getRemoteStat
    <3>5. shown'[u] = IF Real(fs[u], Join(u, l.dst).p) \in DOMAIN fs[u] THEN {Join(u, l.dst).p} ELSE {}
      BY <1>1, <1>5, <2>1, <2>2, <3>1 DEF getRemoteStat
    <3> QED BY <3>2, <3>3, <3>4, <3>5
  <2>3. CASE l.op # "df"
    BY <1>1, <2>1, <2>3 DEF Nothing
  <2> QED BY <2>2, <2>3
<1>6. \A s, u \in Clients : fs'[s] = fs'[u]
  BY <1>1, <1>2, <1>3
<1>7. Same(Targets)'
  BY <1>1, <1>5, <1>6 DEF Same
<1>8. phase' = "rmdir" => Rmdired'
  BY <1>1, <1>5, <1>6 DEF Rmdired
<1>9. ASSUME phase' = "wait"
      PROVE  OnTrack'
  <2>1. \A s \in Targets' : Goroutine(s)' = Started
    BY <1>1, <1>9
  <2>2. Neat(Started.todo)
    BY IdleWork DEF Neat, Unlike
  <2>3. \A s, u \in Targets' : pwd'[s] = pwd'[u] /\ ViewOf(s)' = ViewOf(u)'
    BY <1>1, <1>4, <1>5, <1>6, <2>1 DEF ViewOf
  <2> QED BY <2>1, <2>2, <2>3, TrackBegins
<1> QED BY <1>1, <1>7, <1>8, <1>9 DEF Even

(* The loop of rmdir.                                                      *)
LEMMA EvenRemoves ==
  ASSUME TypeInv, ScpInv, CommandInv, ServedInv, Even, losses = 0,
         NEW s \in Servers, rmdir(s)
  PROVE  Even'
<1>1. PICK p, t : p = Cmd.dst.p /\ t = fs[s]
  OBVIOUS
<1>2. PICK ok : ok = (Alive(s) /\ CanRemove(t, p) /\ Is(t, Entry(t, p), "dir"))
  OBVIOUS
<1>3. /\ phase = "rmdir" /\ s \in left
      /\ fs' = IF ok THEN [fs EXCEPT ![s] = Removed(t, p)] ELSE fs
      /\ left' = IF ok THEN left \ {s} ELSE {}
      /\ phase' = IF left' = {} THEN "prompt" ELSE phase
      /\ UNCHANGED <<prog, n, line, conn, shown>>
  BY <1>1, <1>2, Zenon DEF rmdir, Remaining
<1>4. prog = "sftp" /\ Targets = Clients /\ Targets' = Clients /\ left \subseteq Clients /\ Cmd' = Cmd
  BY <1>3 DEF ScpInv, ServedInv, Targets, Clients, Cmd
<1>5. Rmdired
  BY <1>3 DEF Even
<1>6. Alive(s) /\ \A r \in Clients : r \in DOMAIN fs
  BY <1>3, <1>4, ClientsUp DEF TypeInv
<1>7. \A r, u \in Targets' : shown'[r] = shown'[u]
  BY <1>3, <1>4, <1>5 DEF Rmdired
<1>8. \A r \in left : fs[r] = t
  BY <1>1, <1>3, <1>5 DEF Rmdired
<1>9. \A u \in Clients \ left : CanRemove(t, p) /\ Is(t, Entry(t, p), "dir") /\ fs[u] = Removed(t, p)
  BY <1>1, <1>3, <1>4, <1>5 DEF Rmdired
<1>10. CASE ok
  <2>1. \A u \in Clients \ left' : fs'[u] = Removed(t, p)
    BY <1>3, <1>4, <1>6, <1>9, <1>10
  <2>2. \A r \in left' : fs'[r] = t
    BY <1>3, <1>4, <1>6, <1>8, <1>10
  <2>3. Rmdired'
    BY <1>1, <1>2, <1>4, <1>7, <1>10, <2>1, <2>2 DEF Rmdired
  <2>4. left' = {} => Same(Targets)'
    BY <1>4, <1>7, <2>1 DEF Same
  <2> QED BY <1>3, <2>3, <2>4 DEF Even
<1>11. CASE ~ok
  <2>1. \A u \in Clients : u \in left
    BY <1>2, <1>6, <1>9, <1>11
  <2>2. Same(Targets)' /\ phase' = "prompt"
    BY <1>3, <1>4, <1>7, <1>8, <1>11, <2>1 DEF Same
  <2> QED BY <2>2 DEF Even
<1> QED BY <1>2, <1>10, <1>11

(* A goroutine: those of push, put and the rest go along the track, those  *)
(* of pull and get change this machine only.                               *)
LEMMA EvenWorker ==
  ASSUME TypeInv, ScpInv, CommandInv, ServedInv, Even, losses = 0, ~Abandoned,
         NEW w \in Workers, Worker(w)
  PROVE  Even'
<1>1. w[1] = n /\ work[w].at # "gone"
  <2>1. w[1] = n
    BY LeftBehind DEF Abandoned
  <2> QED BY <2>1 DEF Worker, Start, Finish, Copy, Chunk, CopyEnd, CopyFails, doRM, Request, Exit
<1>2. /\ UNCHANGED <<prog, n, line, phase>> /\ work[w].at # "off"
      /\ \A m \in Machines : m # Writes(w) => fs'[m] = fs[m]
  BY WorkerFacts DEF ScpInv
<1>3. /\ Of(w).op \notin Alone => shown' = shown
      /\ UNCHANGED conn
  BY OthersShown DEF ServedInv
<1>4. Cmd' = Cmd /\ Targets' = Targets /\ Of(w) = Cmd
  BY <1>1, <1>2, <1>3 DEF Cmd, Targets, Clients, Of
<1>5. PICK s : s = w[2] /\ w = <<n, s>> /\ s \in Targets
  BY <1>1, <1>2 DEF Workers, CommandInv
<1>6. conn[s] = "up"
  BY <1>5, ClientsUp DEF Targets
<1>7. phase \notin {"start", "connect"}
  BY <1>2, IdleWork DEF CommandInv
<1>8. phase \notin {"wait", "spawn"} => Cmd.op = "get"
  BY <1>1, <1>2 DEF ServedInv, Quiet
<1>9. phase # "rmdir" /\ (phase = "spawn" => Cmd.op = "get")
  BY <1>8 DEF CommandInv
<1>10. CASE Cmd.op \in Changing
  <2>1. Cmd.op \notin {"get", "pull"}
    BY <1>10 DEF Changing, Alone
  <2>2. phase = "wait"
    BY <1>8, <1>9, <2>1
  <2>3. OnTrack'
    BY <1>5, <1>6, <1>10, <2>2, TrackGoesOn DEF Even, ServedInv
  <2> QED BY <1>2, <1>4, <2>1, <2>2, <2>3 DEF Even
<1>11. CASE Cmd.op \in {"pull", "get"}
  <2>1. Writes(w) = Here /\ shown' = shown
    BY <1>3, <1>4, <1>11 DEF Writes, Alone
  <2>2. \A r \in Targets : fs'[r] = fs[r]
    BY <1>2, <2>1, FilesAssumption DEF FilesAssumption, Targets, Clients, Machines
  <2>3. Cmd.op \notin Changing /\ Cmd.op # "via"
    BY <1>11 DEF Changing, Alone
  <2>4. phase \in {"prompt", "spawn", "end", "wait"} => Same(Targets)'
    BY <1>4, <1>11, <2>1, <2>2, <2>3 DEF Even, Same
  <2> QED BY <1>2, <1>4, <1>7, <1>9, <2>3, <2>4 DEF Even
<1>12. CASE Cmd.op \notin Changing \cup {"pull", "get"}
  BY <1>2, <1>4, <1>7, <1>8, <1>9, <1>12 DEF Even
<1> QED BY <1>10, <1>11, <1>12

-----------------------------------------------------------------------------
(* Before the first command all servers are the same.                      *)
LEMMA EvenBegins ==
  ASSUME TogetherInv, TypeInv, ScpInv, CommandInv, ServedInv, Even,
         (\E a \in ScpLines : lscpAction(a)) \/ lsftpAction \/ (\E s \in Servers : createConnect(s)) \/ Connected
  PROVE  Even'
<1>1. phase \in {"start", "connect"} /\ UNCHANGED <<fs, shown, pwd>>
  BY DEF lscpAction, lsftpAction, createConnect, Connected
<1>2. shown = Nothing /\ \A s, u \in Servers : fs[s] = fs[u]
  BY <1>1 DEF Even
<1>3. \A S : S \subseteq Servers => Same(S)'
  BY <1>1, <1>2 DEF Same, Nothing
<1>4. Targets' \subseteq Servers
  BY DEF Targets, Clients
<1>5. Same(Targets)'
  BY <1>3, <1>4 DEF Same
<1>6. CASE (\E a \in ScpLines : lscpAction(a)) \/ lsftpAction \/ \E s \in Servers : createConnect(s)
  <2>1. phase' \in {"start", "connect", "end"}
    BY <1>6 DEF lscpAction, lsftpAction, createConnect
  <2> QED BY <1>1, <1>2, <1>5, <2>1 DEF Even
<1>7. CASE Connected
  <2>1. /\ UNCHANGED <<prog, n, line, conn>> /\ phase' \in {"prompt", "end", "via", "wait"}
        /\ phase' = "wait" => work' = Spawn(Targets)
    BY <1>7 DEF Connected
  <2>2. Targets' = Targets /\ Cmd' = Cmd /\ Targets \subseteq Clients
    BY <2>1 DEF Targets, Clients, Cmd
  <2>3. ASSUME phase' = "wait"
        PROVE  OnTrack'
    <3>1. \A s \in Targets' : Goroutine(s)' = Started
      <4>1. ASSUME NEW s \in Targets
            PROVE  work'[<<n, s>>] = Started
        <5>1. PICK w \in Workers : w = <<n, s>> /\ w[1] = n /\ w[2] = s
          <6>1. <<n, s>> \in Workers
            BY <2>2, <4>1 DEF Workers, ScpInv, Clients
          <6> QED BY <6>1
        <5>2. work'[w] = Started
          BY <2>1, <2>3, <4>1, <5>1 DEF Spawn
        <5> QED BY <5>1, <5>2
      <4> QED BY <2>1, <2>2, <4>1 DEF Goroutine
    <3>2. Neat(Started.todo)
      BY IdleWork DEF Neat, Unlike
    <3>3. \A s, u \in Targets' : pwd'[s] = pwd'[u]
      BY <1>1, <2>2 DEF TogetherInv, Together
    <3>4. \A s, u \in Targets' : ViewOf(s)' = ViewOf(u)'
      BY <1>5, <3>1 DEF ViewOf, Same
    <3> QED BY <3>1, <3>2, <3>3, <3>4, TrackBegins
  <2> QED BY <1>5, <2>1, <2>3 DEF Even
<1> QED BY <1>6, <1>7

LEMMA EvenStep ==
  TogetherInv /\ TypeInv /\ ScpInv /\ CommandInv /\ ServedInv /\ EvenInv /\ [Next]_vars => EvenInv'
<1> SUFFICES ASSUME TogetherInv, TypeInv, ScpInv, CommandInv, ServedInv, EvenInv, [Next]_vars,
                    alike', losses' = 0, ~Abandoned'
             PROVE  Even'
  BY DEF EvenInv
<1>1. losses = 0 /\ ~Abandoned
  BY AlikeBefore, AbandonedStays
<1>2. Even
  BY <1>1, AlikeBefore DEF EvenInv
<1>3. ASSUME NEW l \in SftpLines, Executor(l)
      PROVE  Even'
  BY <1>1, <1>2, <1>3, EvenTyped
<1>4. CASE (\E a \in ScpLines : lscpAction(a)) \/ lsftpAction \/ (\E s \in Servers : createConnect(s)) \/ Connected
  BY <1>2, <1>4, EvenBegins
<1>5. CASE \E s \in Servers : rmdir(s)
  BY <1>1, <1>2, <1>5, EvenRemoves
<1>6. CASE \E w \in Workers : Worker(w)
  BY <1>1, <1>2, <1>6, EvenWorker
<1>7. CASE Waited
  <2>1. /\ phase = "wait" /\ phase' \in {"prompt", "via", "end"}
        /\ UNCHANGED <<fs, prog, n, line, conn, shown>>
        /\ \A s \in Targets : Goroutine(s).at = "gone"
    BY <1>7 DEF Waited, Goroutine
  <2>2. Cmd' = Cmd /\ Targets' = Targets
    BY <2>1 DEF Cmd, Targets, Clients
  <2>3. Cmd.op # "via" => Same(Targets)
    BY <1>2, <2>1, TrackEnds DEF Even, ServedInv
  <2> QED BY <2>1, <2>2, <2>3 DEF Even, Same
<1>8. CASE ViaStep \/ ViaEnd
  <2>1. Cmd.op = "via" /\ Cmd' = Cmd /\ phase' \in {"via", "wait", "end"}
    <3>1. phase = "via" /\ UNCHANGED <<n, line>>
      BY <1>8 DEF ViaStep, ViaEnd
    <3>2. phase' \in {"via", "wait", "end"}
      BY <1>8, <3>1, Zenon DEF ViaStep, ViaEnd
    <3> QED BY <3>1, <3>2 DEF CommandInv, Cmd
  <2>2. "via" \notin Changing
    BY DEF Changing, Alone
  <2> QED BY <2>1, <2>2 DEF Even
<1>9. ASSUME NEW s \in Servers, getAction(s)
      PROVE  Even'
  <2>1. /\ phase = "spawn" /\ phase' \in {"prompt", "wait", "spawn"} /\ UNCHANGED <<prog, n, line, conn, shown>>
        /\ \E t : fs' = [fs EXCEPT ![Here] = t] \/ fs' = fs
    BY <1>9 DEF getAction
  <2>2. Cmd' = Cmd /\ Targets' = Targets /\ Cmd.op = "get"
    BY <2>1 DEF Cmd, Targets, Clients, CommandInv
  <2>3. \A r \in Targets : fs'[r] = fs[r]
    BY <2>1, FilesAssumption DEF FilesAssumption, Targets, Clients, TypeInv, Machines
  <2>4. Same(Targets)'
    BY <1>2, <2>1, <2>2, <2>3 DEF Even, Same
  <2>5. "get" \notin Changing
    BY DEF Changing, Alone
  <2> QED BY <2>1, <2>2, <2>4, <2>5 DEF Even
<1>10. ASSUME NEW s \in Servers, Lose(s)
       PROVE  FALSE
  BY <1>1, <1>10 DEF Lose
<1>11. CASE UNCHANGED vars
  <2>1. /\ UNCHANGED <<fs, phase, prog, n, line, conn, pwd, left, work, shown>>
    BY <1>11 DEF vars, session
  <2>2. Cmd' = Cmd /\ Targets' = Targets
    BY <2>1 DEF Cmd, Targets, Clients
  <2>3. OnTrack' = OnTrack
    BY <2>1, <2>2 DEF OnTrack, Track, ViewOf, Goroutine
  <2> QED BY <1>2, <2>1, <2>2, <2>3 DEF Even, Rmdired, Same
<1> QED BY <1>3, <1>4, <1>5, <1>6, <1>7, <1>8, <1>9, <1>10, <1>11, Zenon DEF Next, Progress, Main

LEMMA EvenFiles == EvenInv => InStep
<1> SUFFICES ASSUME Even, Rest, Single
             PROVE  \A s, u \in Targets : fs[s] = fs[u] /\ shown[s] = shown[u]
  BY DEF EvenInv, InStep
<1>1. CASE Cmd.op = "via"
  BY <1>1 DEF Single
<1>2. CASE Cmd.op # "via"
  BY <1>2 DEF Even, Rest, Same
<1> QED BY <1>1, <1>2

(* Servers that begin alike stay alike (sftp/shell.go, scp/main.go): any   *)
(* number of them, whatever their files and the commands are, and whatever *)
(* the order in which their goroutines go on.                              *)
THEOREM ServersStayAlike == Spec => []InStep
<1> DEFINE Inv == TogetherInv /\ TypeInv /\ ScpInv /\ CommandInv /\ ServedInv /\ EvenInv
<1>1. Init => Inv
  BY TogetherInit, TypesInit, ScpInit, ServedInit, EvenInit
<1>2. Inv /\ [Next]_vars => Inv'
  BY TogetherStep, TypesStep, ScpStep, ServedStep, EvenStep
<1>3. Inv => InStep
  BY EvenFiles
<1> QED BY <1>1, <1>2, <1>3, PTL DEF Spec
=============================================================================
