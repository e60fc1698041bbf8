------------------------------- MODULE Login --------------------------------
(***************************************************************************)
(* bssh from its command line to the first session (app/ssh.go, conf/,     *)
(* ssh/run.go, ssh/auth.go, ssh/shell.go, ssh/connect.go), in several      *)
(* processes that share the configuration file and the .hosts file.  A     *)
(* process reads both, finds out which server is meant, collects the       *)
(* passwords it needs, writes them back encrypted, connects, and remembers *)
(* an address that was given directly.  It may be killed at any point; a   *)
(* file is rewritten by truncating it and writing it again.                *)
(***************************************************************************)
EXTENDS Conf, CmdLine

CONSTANTS
  Procs,      \* processes (terminals)
  Files,      \* configuration files to start with
  FirstConf,  \* the file that is created when there is none
  ArgLists,   \* command lines
  HostArg,    \* what a host argument is: [kind, name], [kind, user, pass, addr] or [kind, glob, contains]
  Answers,    \* passwords a user may type
  HostsFiles, \* .hosts files to start with
  MaxLaunches \* bound on processes started

NoFile == [state |-> "none"]
Torn == [state |-> "torn"]

(* An address that is given is known by its hash.  No template of servers  *)
(* is named like one.                                                      *)
AutoID(a) == <<"xx", a.user, a.pass, a.addr>>
HostLine == [user : Text, pass : Text, addr : Words, id : Seq(Words), line : Words]
Direct == [kind : {"direct"}, user : Words, pass : Words, addr : Words]
Addresses == {HostArg[h] : h \in {h \in DOMAIN HostArg : HostArg[h].kind = "direct"}}

ASSUME LoginAssumption ==
  /\ \A f \in Files : f = Mixed \/ IsFile(f)
  /\ IsFile(FirstConf)
  /\ Answers \subseteq Words \ {""}
  /\ HostsFiles \subseteq Seq(HostLine)
  /\ Parts \subseteq (Words \ {""}) \X Words
  /\ ArgLists \subseteq Seq(Argument)
  /\ \A args \in ArgLists \cup {<<>>} : Typed(args).hosts = <<>> \/ Typed(args).hosts[1] \in DOMAIN HostArg
  /\ Addresses \subseteq Direct
  /\ \A f \in (Files \cup {FirstConf}) \ {Mixed}, a \in Addresses : AutoID(a) \notin DOMAIN f.include.servers

VARIABLES
  conf,      \* the configuration file; NoFile, Torn while truncated, Mixed when it cannot be read
  lines,     \* the .hosts file, in order
  pc,        \* where each process is
  cli,       \* its command line, parsed
  server,    \* its cf.Server
  loaded,    \* its cf.tempHosts: the lines it read
  target,    \* the server argument it works on, <<>> if none
  methods,   \* its serverAuthMethodMap: pairs of an ID and a password or key
  decoded,   \* its decodedPasswordMap
  pbe,       \* it has a passphrase (viper's ss.PbePwd)
  file,      \* its Config, then the content it writes back
  config,    \* the ServerConfig it connects with
  launches,  \* processes started so far
  original,  \* history: the configuration file to start with
  answered,  \* history: the passwords typed for {Prompt}, with the line of the server
  cut        \* history: killed while the file was truncated, or two wrote it at a time

disk == <<conf, lines>>
own == <<cli, server, loaded, target, methods, decoded, pbe, file, config>>
history == <<launches, original, answered, cut>>
vars == <<disk, pc, own, history>>

NoConf == FromSection(NoSection, <<>>)
NoServer == [n \in {} |-> NoConf]

(* A truncated file is an empty one: no servers, no passphrase, defaults.  *)
EmptyFile ==
  [state |-> "whole", extra |-> TRUE, auto |-> TRUE, passphrase |-> FALSE, common |-> NoSection,
   servers |-> [k \in {} |-> NoSection], elsewhere |-> {}, include |-> [common |-> NoSection, servers |-> [k \in {} |-> NoSection]]]
Content == IF conf \in {NoFile, Torn} THEN EmptyFile ELSE conf

Set(f, p, v) == [f EXCEPT ![p] = v]
Goto(p, where) == pc' = Set(pc, p, where)

Init ==
  /\ conf \in Files \cup {NoFile}
  /\ lines \in HostsFiles
  /\ pc = [p \in Procs |-> "off"]
  /\ cli = [p \in Procs |-> Typed(<<>>)]
  /\ server = [p \in Procs |-> NoServer]
  /\ loaded = [p \in Procs |-> {}]
  /\ target = [p \in Procs |-> <<>>]
  /\ methods = [p \in Procs |-> {}]
  /\ decoded = [p \in Procs |-> {}]
  /\ pbe = [p \in Procs |-> FALSE]
  /\ file = [p \in Procs |-> EmptyFile]
  /\ config = [p \in Procs |-> NoConf]
  /\ launches = 0
  /\ original = conf
  /\ answered = {}
  /\ cut = FALSE

-----------------------------------------------------------------------------
(* Command line and configuration.                                         *)

(* main and the beginning of lsshAction.  The other programs read the      *)
(* configuration and choose servers in the same way.                       *)
Launch(p, args) ==
  /\ pc[p] = "off"
  /\ launches < MaxLaunches
  /\ SubCommand(args) = "ssh"
  /\ cli' = Set(cli, p, Typed(args))
  /\ Goto(p, "read")
  /\ launches' = launches + 1
  /\ UNCHANGED <<disk, server, loaded, target, methods, decoded, pbe, file, config, original, answered, cut>>

(* checkConfPath: there is no configuration; one is created, and that was  *)
(* it.                                                                     *)
CreateConf(p) ==
  /\ pc[p] = "read"
  /\ conf = NoFile
  /\ conf' = FirstConf
  /\ original' = FirstConf
  /\ Goto(p, "over")
  /\ UNCHANGED <<lines, own, launches, answered, cut>>

Load(p) ==
  /\ pc[p] = "read"
  /\ conf \notin {NoFile, Mixed}
  /\ loaded' = Set(loaded, p, {lines[i] : i \in DOMAIN lines})
  /\ file' = Set(file, p, Content)
  /\ pbe' = Set(pbe, p, Content.passphrase)
  /\ server' = Set(server, p, ReadConf(Content, {lines[i] : i \in DOMAIN lines}))
  /\ Goto(p, IF "l" \in cli[p].flags THEN "over" ELSE "select")
  /\ UNCHANGED <<disk, cli, target, methods, decoded, config, history>>

(* A file that is none any more: toml.DecodeFile fails.                    *)
Broken(p) ==
  /\ pc[p] = "read"
  /\ conf = Mixed
  /\ Goto(p, "over")
  /\ UNCHANGED <<disk, own, history>>

(* ExpandHosts with a host argument: a server's name, an address, or a     *)
(* pattern that means one server.                                          *)
Names(p, arg) ==
  IF arg.kind = "name" /\ arg.name \in DOMAIN server[p] THEN [host |-> {arg.name}, search |-> {}]
  ELSE IF arg.kind = "pattern" THEN EnsureSearchHost(server[p], arg)
  ELSE [host |-> {}, search |-> DOMAIN server[p]]

Expand(p) ==
  /\ pc[p] = "select"
  /\ cli[p].hosts # <<>>
  /\ LET arg == HostArg[cli[p].hosts[1]]
     IN \/ /\ arg.kind = "direct"
           /\ target' = Set(target, p, <<arg>>)
        \/ /\ arg.kind # "direct"
           /\ \E n \in Names(p, arg).host : target' = Set(target, p, <<[kind |-> "name", name |-> n]>>)
  /\ Goto(p, "auth")
  /\ UNCHANGED <<disk, cli, server, loaded, methods, decoded, pbe, file, config, history>>

(* Otherwise the list is shown, with the servers that matched if any did;  *)
(* to leave it is to end the process, as Killed does.                      *)
Choose(p) ==
  /\ pc[p] = "select"
  /\ LET shown == IF cli[p].hosts = <<>> THEN DOMAIN server[p] ELSE Names(p, HostArg[cli[p].hosts[1]]).search
     IN /\ cli[p].hosts # <<>> => HostArg[cli[p].hosts[1]].kind # "direct"
        /\ \E n \in shown : target' = Set(target, p, <<[kind |-> "name", name |-> n]>>)
  /\ Goto(p, "auth")
  /\ UNCHANGED <<disk, cli, server, loaded, methods, decoded, pbe, file, config, history>>

-----------------------------------------------------------------------------
(* CreateAuthMethodMap.                                                    *)

(* registerAuthMapPassword with decodePassword: what is added to the       *)
(* methods and to the passwords to encrypt.                                *)
PasswordMethods(name, c) == IF c.text["pass"].word = "" THEN {} ELSE {<<name, c.text["pass"].word>>}
KeyMethods(c) == IF c.text["key"].word = "" THEN {} ELSE {<<c.id, c.text["key"].word>>}
registerAutoEncryptPwd(f, t) ==
  IF t.word \in {"", "na"} \/ t.pbe \/ ~IsAutoEncryptPwd(f) THEN {} ELSE {t.word}

(* createAuthMethodMapForServer.  An address is no name of a server: its   *)
(* configuration is empty.                                                 *)
Selected(p) ==
  IF target[p][1].kind = "name" THEN server[p][target[p][1].name] ELSE NoConf
SelectedName(p) == IF target[p][1].kind = "name" THEN target[p][1].name ELSE <<>>

Collect(p) ==
  /\ pc[p] = "auth"
  /\ Selected(p).text["pass"] # Prompt
  /\ methods' = Set(methods, p, PasswordMethods(SelectedName(p), Selected(p)) \cup KeyMethods(Selected(p)))
  /\ decoded' = Set(decoded, p, registerAutoEncryptPwd(file[p], Selected(p).text["pass"]))
  /\ Goto(p, "encrypt")
  /\ UNCHANGED <<disk, cli, server, loaded, target, pbe, file, config, history>>

(* A password {Prompt}: it is asked for, and updatePromptPwd writes it to  *)
(* wherever the line of the host or its template stands in the file.       *)
Ask(p, answer) ==
  /\ pc[p] = "auth"
  /\ Selected(p).text["pass"] = Prompt
  /\ methods' = Set(methods, p, {<<SelectedName(p), answer>>} \cup KeyMethods(Selected(p)))
  /\ LET new == IF pbe[p] THEN AnswerFile(Content, Selected(p).raw, answer) ELSE Content
     IN IF new # Content
        THEN file' = Set(file, p, new) /\ Goto(p, "truncate")
        ELSE file' = file /\ Goto(p, "encrypt")
  /\ answered' = answered \cup {<<Selected(p).raw, answer>>}
  /\ UNCHANGED <<disk, cli, server, loaded, target, decoded, pbe, config, launches, original, cut>>

(* autoEncryptPwd: read the file again, encrypt, and write it if that      *)
(* changed it.                                                             *)
Encrypt(p) ==
  /\ pc[p] = "encrypt"
  /\ \E new \in IF pbe[p] THEN Rewritten(Content, decoded[p]) ELSE {Content} :
       IF decoded[p] # {} /\ new # Content
       THEN file' = Set(file, p, new) /\ Goto(p, "truncate")
       ELSE file' = file /\ Goto(p, "config")
  /\ decoded' = Set(decoded, p, {})
  /\ UNCHANGED <<disk, cli, server, loaded, target, methods, pbe, config, history>>

(* os.WriteFile, as writeConfContent calls it.  Two processes that both    *)
(* truncated the file write over each other: what is longer than the other *)
(* content stays behind it.                                                *)
Truncate(p) ==
  /\ pc[p] = "truncate"
  /\ conf' = Torn
  /\ cut' = (cut \/ \E q \in Procs : pc[q] = "write")
  /\ Goto(p, "write")
  /\ UNCHANGED <<lines, own, launches, original, answered>>

Write(p) ==
  /\ pc[p] = "write"
  /\ conf' \in {file[p]} \cup (IF conf \in {Torn, file[p]} THEN {} ELSE {Mixed})
  /\ Goto(p, "config")
  /\ UNCHANGED <<lines, own, history>>

-----------------------------------------------------------------------------
(* shell: the server's configuration, the connection, the address saved.   *)

DirectConf(a) ==
  [FromSection(NoSection, AutoID(a)) EXCEPT
     !.text = [@ EXCEPT !["user"] = Plain(a.user), !["pass"] = Plain(a.pass)], !.direct = TRUE]

(* getServerConfig with parseDirectServer: an address that was saved has   *)
(* its hash as an ID.                                                      *)
AlwaysNew(p) ==  \* deviation: the saved addresses are not looked up
  IF target[p][1].kind = "name" THEN Selected(p) ELSE DirectConf(target[p][1])
Given(p) ==
  IF target[p][1].kind = "name" THEN Selected(p)
  ELSE IF AutoID(target[p][1]) \in DOMAIN server[p] THEN server[p][AutoID(target[p][1])]
  ELSE DirectConf(target[p][1])

NotRegistered(p, c) == {m \in methods[p] : m[1] = c.id}  \* deviation: an address' password is not registered
ForID(p, c) ==
  {m \in methods[p] \cup (IF target[p][1].kind = "direct" THEN PasswordMethods(c.id, c) ELSE {}) : m[1] = c.id}

NoKey(p) ==
  /\ methods' = Set(methods, p, ForID(p, Given(p)) \cup methods[p])
  /\ config' = Set(config, p, Given(p))

AskPassword(p) ==
  \E answer \in Answers \cup {""} :
    /\ methods' = Set(methods, p, methods[p] \cup (IF answer = "" THEN {} ELSE {<<Given(p).id, answer>>}))
    /\ config' = Set(config, p, [Given(p) EXCEPT !.text["pass"] = IF answer = "" THEN @ ELSE Plain(answer)])

getServerConfig(p) ==
  /\ pc[p] = "config"
  /\ parseMode(cli[p]) = "shell"
  /\ IF ForID(p, Given(p)) # {} \/ Given(p).text["key"].word # ""
     THEN NoKey(p)
     ELSE AskPassword(p)
  /\ Goto(p, "dial")
  /\ UNCHANGED <<disk, cli, server, loaded, target, decoded, pbe, file, history>>

(* The other modes go on from here in their own way.                       *)
HandOver(p) ==
  /\ pc[p] = "config"
  /\ parseMode(cli[p]) # "shell"
  /\ Goto(p, "over")
  /\ UNCHANGED <<disk, own, history>>

(* CreateSSHConnect saves an address it could not connect to, shell one it *)
(* could: both go through WriteTempHosts.                                  *)
Dial(p) ==
  /\ pc[p] = "dial"
  /\ Goto(p, IF config[p].direct THEN "save" ELSE "over")
  /\ UNCHANGED <<disk, own, history>>

(* A line is compared without its encrypted password and its comment, but  *)
(* with its ID, if it has one; an address without its password.            *)
Bare(l) == [user |-> l.user.word, pass |-> IF l.pass.pbe THEN "" ELSE l.pass.word, addr |-> l.addr, id |-> l.id]
BareAddress(a, c) ==
  LET left(w) == IF w = c.text["pass"].word THEN "" ELSE w
  IN [user |-> left(a.user), pass |-> left(a.pass), addr |-> a.addr, id |-> <<>>]

Line(a, c, passphrase) ==
  LET pass == c.text["pass"].word
      shown(w) == IF passphrase /\ w = pass /\ pass # "" THEN PbeEncode(w) ELSE Plain(w)
  IN [user |-> shown(a.user), addr |-> a.addr, id |-> c.id, line |-> "",
      pass |-> IF pass = "" THEN Empty ELSE IF passphrase THEN PbeEncode(pass) ELSE Plain(a.pass)]

WriteTempHosts(p) ==
  /\ pc[p] = "save"
  /\ lines' = IF \E l \in loaded[p] : Bare(l) = BareAddress(target[p][1], config[p]) THEN lines
              ELSE Append(lines, Line(target[p][1], config[p], pbe[p]))
  /\ Goto(p, "over")
  /\ UNCHANGED <<conf, own, history>>

-----------------------------------------------------------------------------
(* A process ends, or is killed wherever it is.                            *)
Reset(p) ==
  /\ cli' = Set(cli, p, Typed(<<>>))
  /\ server' = Set(server, p, NoServer)
  /\ loaded' = Set(loaded, p, {})
  /\ target' = Set(target, p, <<>>)
  /\ methods' = Set(methods, p, {})
  /\ decoded' = Set(decoded, p, {})
  /\ pbe' = Set(pbe, p, FALSE)
  /\ file' = Set(file, p, EmptyFile)
  /\ config' = Set(config, p, NoConf)
  /\ Goto(p, "off")

Exit(p) ==
  /\ pc[p] = "over"
  /\ Reset(p)
  /\ UNCHANGED <<disk, history>>

Killed(p) ==
  /\ pc[p] \notin {"off", "over"}
  /\ Reset(p)
  /\ cut' = (cut \/ pc[p] = "write")
  /\ UNCHANGED <<disk, launches, original, answered>>

Next == \E p \in Procs :
  \/ \E args \in ArgLists : Launch(p, args)
  \/ CreateConf(p) \/ Load(p) \/ Broken(p) \/ Expand(p) \/ Choose(p)
  \/ Collect(p) \/ (\E a \in Answers : Ask(p, a)) \/ Encrypt(p) \/ Truncate(p) \/ Write(p)
  \/ getServerConfig(p) \/ HandOver(p) \/ Dial(p) \/ WriteTempHosts(p)
  \/ Exit(p) \/ Killed(p)

Spec == Init /\ [][Next]_vars

-----------------------------------------------------------------------------
Whole(f) == f \notin {NoFile, Torn, Mixed}
(* What the configuration file says outlives the passwords being encrypted *)
(* and answers being filled in by any number of processes (run.go:304-362):*)
(* a text is what it was, or the encryption of a password, or of what the  *)
(* user typed for a server whose very line stands there; user and key are  *)
(* not touched, and no text is spoilt, unless they or a part of them read  *)
(* like a password of a server, of the file, of one it includes or of the  *)
(* .hosts file.  It takes such a word elsewhere in the file, a process     *)
(* killed in os.WriteFile, or two in it at a time, to lose the file.       *)
SectionPasswords(s) == {s.text["pass"].word, s.tmpl.pass.word}
FilePasswords(f) ==
  UNION {SectionPasswords(s) : s \in {f.common, f.include.common} \cup {f.servers[k] : k \in DOMAIN f.servers}
                                     \cup {f.include.servers[k] : k \in DOMAIN f.include.servers}}
Passwords == Answers \cup FilePasswords(original) \cup {lines[i].pass.word : i \in DOMAIN lines} \cup {Spoilt.word}
Misread == Whole(original) /\ original.elsewhere \cap Passwords # {}

SameText(was, is, password) ==
  \/ is = was
  \/ is = PbeEncode(was.word) /\ (password \/ was.word \in Passwords)
  \/ is.word = Spoilt.word /\ \E w \in Passwords : <<was.word, w>> \in Parts
Answered(was, is) ==
  was.pass = Prompt /\ \E a \in answered : a[1] \in was.holds /\ is.pass = PbeEncode(a[2])
SameSection(was, is) ==
  /\ \A f \in TextFields : SameText(was.text[f], is.text[f], f = "pass")
  /\ is.timeout = was.timeout /\ is.tmpl = [was.tmpl EXCEPT !.pass = is.tmpl.pass]
  /\ SameText(was.tmpl.pass, is.tmpl.pass, TRUE) \/ Answered(was.tmpl, is.tmpl)
ConfigSurvives ==
  ~cut /\ conf # original /\ (\A p \in Procs : pc[p] # "write") /\ ~Misread =>
    /\ Whole(conf)
    /\ DOMAIN conf.servers = DOMAIN original.servers
    /\ SameSection(original.common, conf.common)
    /\ \A k \in DOMAIN conf.servers : SameSection(original.servers[k], conf.servers[k])

(* A server's password is offered when the server is connected to          *)
(* (run.go:374, shell.go:36, connect.go:89), be it a server of the file    *)
(* whose name is its ID, an address, or an address saved earlier.          *)
HasPassword(p) == <<config[p].id, config[p].text["pass"].word>> \in methods[p]
PasswordUsed ==
  \A p \in Procs : /\ pc[p] = "dial" /\ config[p].text["pass"] \notin {Empty, Prompt}
                   /\ target[p][1].kind = "name" => target[p][1].name = config[p].id
                   => HasPassword(p)

(* doc/ConfigMore.md says a template of several hosts stands for as many   *)
(* servers with the template's user and password.                          *)
TemplatePasswordUsed ==
  \A p \in Procs : pc[p] = "dial" /\ config[p].raw # "" /\ config[p].text["pass"] \notin {Empty, Prompt} => HasPassword(p)

(* An address is not saved by a process that found it among the saved ones *)
(* when it started (conf.go:717, shell.go:269).                            *)
NotSavedAgain ==
  [][\A p \in Procs : WriteTempHosts(p) /\ lines' # lines => lines'[Len(lines')].id \notin {l.id : l \in loaded[p]}]_vars

(* The command run on the servers is the one that was typed, options and   *)
(* all, if no option with a value precedes it, not even as one of several  *)
(* letters (common.go:370-430).                                            *)
CommandKept == \A p \in Procs : cli[p].plain => cli[p].args = cli[p].command
=============================================================================
