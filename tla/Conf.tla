-------------------------------- MODULE Conf --------------------------------
(***************************************************************************)
(* Configuration files (conf/conf.go, conf/tmpl.go, common/common.go,      *)
(* ssh/run.go) as operators: which servers a file defines, which of them a *)
(* host argument means, and how passwords are encrypted in place.          *)
(*                                                                         *)
(* A text is a word that is written out or in its {PBE} form.  A server    *)
(* name is a tuple, so that <<"web", "1">> is the first host of template   *)
(* <<"web">> and also the name one may give a server of one's own.         *)
(***************************************************************************)
EXTENDS Integers, Sequences, FiniteSets

CONSTANT Parts  \* pairs of a word and what stands in it after = : or /, up to its end, an @ or a blank

Plain(w) == [word |-> w, pbe |-> FALSE]
PbeEncode(w) == [word |-> w, pbe |-> TRUE]
Empty == Plain("")
Spoilt == Plain("??")  \* encrypted in part: it says something else
Prompt == Plain("{Prompt}")

-----------------------------------------------------------------------------
(* A section [server.x] or [common]: texts, a number (connect_timeout,     *)
(* alive_max, ...) and a template of hosts, with no host if there is none. *)
(* line stands for the text of a template with its password taken out;     *)
(* holds are the lines found in it: its own, and any that it is longer than.*)
(* MapReduce hands down strings, lists and booleans; numbers are none of   *)
(* its cases.                                                              *)
TextFields == {"user", "pass", "key"}
Words == STRING \cup {"", "xx", "??"}  \* with three that the program makes up
Text == {t \in [word : Words, pbe : BOOLEAN] : t.pbe => t.word # ""}
Template == [n : Nat, user : Text, pass : Text, line : Words, holds : SUBSET (Words \ {""})]
Section == [text : [TextFields -> Text], timeout : Nat, tmpl : Template]

ServerConfigDeduct(per, child) ==
  [child EXCEPT !.text = [f \in TextFields |-> IF @[f] = Empty THEN per.text[f] ELSE @[f]]]

(* A server as the program holds it.  raw: the host or template line that  *)
(* it came from, "" for none.                                              *)
FromSection(s, id) == [text |-> s.text, timeout |-> s.timeout, id |-> id, raw |-> "", direct |-> FALSE]
createServerConfigFromHost(t, c) ==
  [c EXCEPT !.text = [@ EXCEPT !["user"] = t.user, !["pass"] = t.pass], !.raw = t.line]

Number == <<"1", "2", "3">>
createKey(k, t, i) == IF t.n > 1 THEN k \o <<Number[i]>> ELSE k

(* Sections are added to the servers there are, over those of the same     *)
(* name.  A template is replaced by its hosts, which keep its ID; they are *)
(* added last.  No two templates of a file make the same name.             *)
parseConfigServers(server, sections, common) ==
  LET set(k) == ServerConfigDeduct(common, sections[k])
      tmpls == {k \in DOMAIN sections : sections[k].tmpl.n > 0}
      hosts == UNION {{<<k, i>> : i \in 1..sections[k].tmpl.n} : k \in tmpls}
      key(h) == createKey(h[1], sections[h[1]].tmpl, h[2])
  IN [name \in ((DOMAIN server \cup DOMAIN sections) \ tmpls) \cup {key(h) : h \in hosts} |->
        IF \E h \in hosts : key(h) = name
        THEN LET h == CHOOSE h \in hosts : key(h) = name
             IN createServerConfigFromHost(sections[h[1]].tmpl, FromSection(set(h[1]), h[1]))
        ELSE IF name \in DOMAIN sections THEN FromSection(set(name), name) ELSE server[name]]

(* The lines of the .hosts file are added unless their ID is taken; common *)
(* settings do not reach them.  A line without an ID is given a hash.      *)
LineID(l) == IF l.id = <<>> THEN <<"hash", l.user.word, l.pass.word, l.addr>> ELSE l.id
NoTemplate == [n |-> 0, user |-> Empty, pass |-> Empty, line |-> "", holds |-> {}]
NoSection == [text |-> [f \in TextFields |-> Empty], timeout |-> 0, tmpl |-> NoTemplate]
addHosts(server, lines) ==
  [id \in DOMAIN server \cup {LineID(l) : l \in lines} |->
     IF id \in DOMAIN server THEN server[id]
     ELSE createServerConfigFromHost(CHOOSE l \in lines : LineID(l) = id, FromSection(NoSection, id))]

(* A file: the main one with the sections of those it includes.  elsewhere *)
(* is what else in the text of the main one reads like a password to       *)
(* autoEncryptPwd: names of servers in quotes, addresses, paths, numbers.  *)
IsSections(sections) == \A k \in DOMAIN sections : sections[k] \in Section
IsFile(f) ==
  /\ DOMAIN f = {"state", "extra", "auto", "passphrase", "common", "servers", "include", "elsewhere"} /\ f.state = "whole"
  /\ f.common \in Section /\ IsSections(f.servers)
  /\ f.include.common \in Section /\ IsSections(f.include.servers)

(* ReadConf: the file's own servers, then hosts, then the include file's   *)
(* servers with its common settings over the main ones.                    *)
ReadConf(file, lines) ==
  LET own == parseConfigServers(<<>>, file.servers, file.common)
  IN parseConfigServers(addHosts(own, lines), file.include.servers,
                        ServerConfigDeduct(file.common, file.include.common))

-----------------------------------------------------------------------------
(* EnsureSearchHost: the one server an argument means (host), or those to  *)
(* choose from (search).  glob and contains give the servers that match by name, by *)
(* user@addr:port and by note: the first of the three that leaves a single *)
(* server decides, else all of them count.                                 *)
matchesFn(server, by) == {n \in DOMAIN server : n \in by}

Match(server, m) ==
  LET found == [i \in 1..3 |-> matchesFn(server, m[i])]
      single == {i \in 1..3 : Cardinality(found[i]) = 1}
  IN IF single = {} THEN found[1] \cup found[2] \cup found[3]
     ELSE found[CHOOSE i \in single : \A j \in single : i <= j]

EnsureSearchHost(server, arg) ==
  LET glob == Match(server, arg.glob)
      contains == Match(server, arg.contains)
  IN IF Cardinality(glob) = 1 THEN [host |-> glob, search |-> {}]
     ELSE IF Cardinality(contains) = 1 THEN [host |-> contains, search |-> {}]
     ELSE [host |-> {}, search |-> IF glob \cup contains = {} THEN DOMAIN server ELSE glob \cup contains]

-----------------------------------------------------------------------------
(* IsAutoEncryptPwd: either of two settings, each true unless it is 0.     *)
IsAutoEncryptPwd(file) == file.extra \/ file.auto

(* The .toml file with the given passwords encrypted: autoEncryptPwd looks *)
(* for them in the text, between a quote, = : or / and a quote, @ or blank.*)
(* A text is hit as a whole or in a part; the user of a template is not,   *)
(* it begins a line and ends with a colon.                                 *)
Encrypted(t, pwds) ==
  IF t.pbe THEN t
  ELSE IF t.word \in pwds THEN PbeEncode(t.word)
  ELSE IF \E w \in pwds : <<t.word, w>> \in Parts THEN Spoilt ELSE t
EncryptSection(s, pwds) ==
  [s EXCEPT !.text = [f \in TextFields |-> Encrypted(@[f], pwds)], !.tmpl.pass = Encrypted(@, pwds)]
EncryptFile(file, pwds) ==
  IF file.state = "mixed" THEN file
  ELSE [file EXCEPT !.common = EncryptSection(@, pwds),
                    !.servers = [k \in DOMAIN @ |-> EncryptSection(@[k], pwds)],
                    !.elsewhere = @ \ pwds]

(* A hit elsewhere leaves what the model keeps as it was, gives a server   *)
(* another name, or makes a file that cannot be read: an unquoted number   *)
(* is no number any more, an included file is not found (readIncludeFiles  *)
(* panics), the passphrase is another one.                                 *)
Mixed == [state |-> "mixed"]
Renamed(servers, k) ==
  [n \in (DOMAIN servers \ {k}) \cup {<<"{PBE}">> \o k} |-> servers[IF n \in DOMAIN servers THEN n ELSE k]]
Rewritten(file, pwds) ==
  LET new == EncryptFile(file, pwds)
  IN IF file.state = "mixed" \/ file.elsewhere \cap pwds = {} THEN {new}
     ELSE {new, Mixed} \cup {[new EXCEPT !.servers = Renamed(@, k)] : k \in DOMAIN new.servers}

(* updatePromptPwd: in every place of the file where the line stands, the  *)
(* answer takes the place of {Prompt}.                                     *)
AnswerAll(file, line, answer) ==  \* deviation: in other lines too
  IF file.state = "mixed" THEN file
  ELSE [file EXCEPT !.servers = [k \in DOMAIN @ |->
          [@[k] EXCEPT !.tmpl.pass = IF @ = Prompt THEN PbeEncode(answer) ELSE @]]]
AnswerSection(s, line, answer) ==
  IF s.tmpl.pass = Prompt /\ line \in s.tmpl.holds THEN [s EXCEPT !.tmpl.pass = PbeEncode(answer)] ELSE s
AnswerFile(file, line, answer) ==
  IF file.state = "mixed" THEN file
  ELSE [file EXCEPT !.servers = [k \in DOMAIN @ |-> AnswerSection(@[k], line, answer)]]
=============================================================================
