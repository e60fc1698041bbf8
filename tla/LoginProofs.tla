---------------------------- MODULE LoginProofs -----------------------------
(***************************************************************************)
(* What bssh does, from its command line to its first session, with the    *)
(* configuration file, the passwords and the saved addresses of Login, for *)
(* every file, any number of processes and any command lines:              *)
(*   ConfigKept       the file is lost to a kill in os.WriteFile, to two   *)
(*                    processes in it, or to a password that stands        *)
(*                    elsewhere in it, and to nothing else                 *)
(*   PasswordOffered  a server's password is offered to it                 *)
(*   SavedOnce        an address that was found is not saved again         *)
(***************************************************************************)
EXTENDS Login, SequenceTheorems, WellFoundedInduction, TLAPS

(* A server as the program holds it, and a file in which no template has   *)
(* the name of a hash.                                                     *)
IsConfig(c) ==
  /\ DOMAIN c = {"text", "timeout", "id", "raw", "direct"}
  /\ c.text \in [TextFields -> Text]
Safe(f) == IsFile(f) /\ \A a \in Addresses : AutoID(a) \notin DOMAIN f.include.servers

(* What each process keeps.                                                *)
PerProcess ==
  /\ DOMAIN pc = Procs /\ DOMAIN cli = Procs /\ DOMAIN server = Procs /\ DOMAIN loaded = Procs
  /\ DOMAIN target = Procs /\ DOMAIN methods = Procs /\ DOMAIN decoded = Procs /\ DOMAIN pbe = Procs
  /\ DOMAIN file = Procs /\ DOMAIN config = Procs

DiskInv ==
  /\ conf \in {NoFile, Torn, Mixed} \/ Safe(conf)
  /\ original \in {NoFile, Mixed} \/ Safe(original)
  /\ conf = NoFile => original = NoFile
  /\ lines \in Seq(HostLine)
  /\ \A a \in answered : a[2] \in Answers

(* The servers of a process: none was given as an address, and the saved   *)
(* addresses are among them.                                               *)
ServerInv(p) ==
  /\ \A n \in DOMAIN server[p] : IsConfig(server[p][n]) /\ ~server[p][n].direct
  /\ \A a \in Addresses : AutoID(a) \in {l.id : l \in loaded[p]} => AutoID(a) \in DOMAIN server[p]
ReadInv(p) ==
  /\ cli[p] \in {Typed(args) : args \in ArgLists \cup {<<>>}}
  /\ loaded[p] \subseteq HostLine
  /\ file[p] = Mixed \/ Safe(file[p])
  /\ "" \notin decoded[p]

(* The server it works on, and its password among the methods.             *)
Chosen == {"auth", "encrypt", "truncate", "write", "config", "dial", "save"}
TargetInv(p) ==
  pc[p] \in Chosen => \/ target[p][1].kind = "name" /\ target[p][1].name \in DOMAIN server[p]
                      \/ target[p][1] \in Addresses
MethodInv(p) ==
  pc[p] \in {"encrypt", "truncate", "write", "config"} =>
    \/ Selected(p).text["pass"] = Prompt
    \/ PasswordMethods(SelectedName(p), Selected(p)) \subseteq methods[p]
ConfigInv(p) ==
  /\ pc[p] \in {"dial", "save"} /\ config[p].direct =>
       /\ target[p][1].kind = "direct"
       /\ config[p].id = AutoID(target[p][1]) /\ config[p].id \notin DOMAIN server[p]
  /\ pc[p] \in {"dial", "save"} => IsConfig(config[p])
  /\ pc[p] = "save" => config[p].direct
OfferInv(p) ==
  /\ pc[p] = "dial" /\ config[p].text["pass"] \notin {Empty, Prompt}
  /\ target[p][1].kind = "name" => target[p][1].name = config[p].id
  => HasPassword(p)
ProcessInv(p) == ReadInv(p) /\ ServerInv(p) /\ TargetInv(p) /\ MethodInv(p) /\ ConfigInv(p) /\ OfferInv(p)

LoginInv == PerProcess /\ DiskInv /\ \A p \in Procs : ProcessInv(p)

(* No process has got far as long as there is no file, or a spoilt one.    *)
BlankInv ==
  original \in {NoFile, Mixed} =>
    /\ conf = original
    /\ \A p \in Procs : pc[p] \in {"off", "read", "over"} /\ server[p] = NoServer /\ decoded[p] = {}

(* A file that says what the first one said, up to encryption and answers. *)
Similar(f) ==
  /\ Safe(f)
  /\ f.include = original.include /\ f.elsewhere \subseteq original.elsewhere
  /\ DOMAIN f.servers = DOMAIN original.servers
  /\ SameSection(original.common, f.common)
  /\ \A k \in DOMAIN f.servers : SameSection(original.servers[k], f.servers[k])

(* What is on the disk, and what is about to be written, as long as no     *)
(* password stands elsewhere in the file: one process at a time writes it, *)
(* and what it is written with is a password.                              *)
Prepares(p) ==
  /\ pc[p] \in {"truncate", "write"} => Similar(file[p])
  /\ decoded[p] \subseteq Passwords
  /\ \A n \in DOMAIN server[p] : server[p][n].text["pass"].word \in Passwords \cup {""}
WriterInv ==
  /\ conf = Torn \/ Similar(conf)
  /\ conf = Torn => \E p \in Procs : pc[p] = "write"
  /\ \A p \in Procs : pc[p] = "write" => conf = Torn
  /\ \A p, q \in Procs : pc[p] = "write" /\ pc[q] = "write" => p = q
KeptInv ==
  ~cut /\ original \notin {NoFile, Mixed} /\ ~Misread => WriterInv /\ \A p \in Procs : Prepares(p)
FileInv == BlankInv /\ KeptInv

-----------------------------------------------------------------------------
(* Sections and files.                                                     *)

LEMMA PlainText ==
  ASSUME NEW w \in Words
  PROVE  Plain(w) \in Text /\ Plain(w).word = w /\ ~Plain(w).pbe
<1>1. Plain(w) \in [word : Words, pbe : BOOLEAN] /\ ~Plain(w).pbe /\ Plain(w).word = w
  BY DEF Plain
<1> QED BY <1>1 DEF Text

LEMMA PbeText ==
  ASSUME NEW w
  PROVE  PbeEncode(w).pbe /\ PbeEncode(w).word = w /\ (w \in Words \ {""} => PbeEncode(w) \in Text)
<1>1. PbeEncode(w).pbe /\ PbeEncode(w).word = w
  BY DEF PbeEncode
<1>2. w \in Words => PbeEncode(w) \in [word : Words, pbe : BOOLEAN]
  BY DEF PbeEncode
<1> QED BY <1>1, <1>2 DEF Text

LEMMA SpoiltText == Spoilt \in Text /\ Spoilt.word = "??" /\ ~Spoilt.pbe
<1>1. "??" \in Words
  BY DEF Words
<1> QED BY <1>1, PlainText DEF Spoilt

(* A text is encrypted, or spoilt, or left alone.                          *)
LEMMA EncryptedText ==
  ASSUME NEW t \in Text, NEW pwds, "" \notin pwds
  PROVE  /\ Encrypted(t, pwds) \in Text
         /\ \/ Encrypted(t, pwds) = t
            \/ Encrypted(t, pwds) = PbeEncode(t.word) /\ t.word \in pwds /\ ~t.pbe
            \/ Encrypted(t, pwds) = Spoilt /\ ~t.pbe /\ \E w \in pwds : <<t.word, w>> \in Parts
BY SpoiltText DEF Encrypted, Text, PbeEncode

LEMMA EncryptedSection ==
  ASSUME NEW s \in Section, NEW pwds, "" \notin pwds
  PROVE  /\ EncryptSection(s, pwds) \in Section
         /\ \A f \in TextFields : EncryptSection(s, pwds).text[f] = Encrypted(s.text[f], pwds)
         /\ EncryptSection(s, pwds).timeout = s.timeout
         /\ EncryptSection(s, pwds).tmpl = [s.tmpl EXCEPT !.pass = Encrypted(s.tmpl.pass, pwds)]
<1> DEFINE text == [f \in TextFields |-> Encrypted(s.text[f], pwds)]
           pass == Encrypted(s.tmpl.pass, pwds)
<1>1. s \in [text : [TextFields -> Text], timeout : Nat, tmpl : Template] /\ s.tmpl \in Template
  BY DEF Section
<1>2. text \in [TextFields -> Text] /\ pass \in Text
  BY <1>1, EncryptedText DEF Template
<1>3. EncryptSection(s, pwds) = [s EXCEPT !.text = text, !.tmpl = [s.tmpl EXCEPT !.pass = pass]]
  BY <1>1 DEF EncryptSection
<1>4. \A f \in TextFields : text[f] = Encrypted(s.text[f], pwds)
  OBVIOUS
<1>5. pass = Encrypted(s.tmpl.pass, pwds)
  OBVIOUS
<1> HIDE DEF text, pass
<1> DEFINE tmpl == [s.tmpl EXCEPT !.pass = pass]
<1>6. tmpl \in Template
  BY <1>1, <1>2 DEF Template
<1>7. EncryptSection(s, pwds) = [s EXCEPT !.text = text, !.tmpl = tmpl]
  BY <1>3
<1>9. tmpl = [s.tmpl EXCEPT !.pass = Encrypted(s.tmpl.pass, pwds)]
  BY <1>5
<1> HIDE DEF tmpl
<1>8. /\ EncryptSection(s, pwds) \in [text : [TextFields -> Text], timeout : Nat, tmpl : Template]
      /\ EncryptSection(s, pwds).text = text /\ EncryptSection(s, pwds).tmpl = tmpl
      /\ EncryptSection(s, pwds).timeout = s.timeout
  BY <1>1, <1>2, <1>6, <1>7
<1> QED BY <1>4, <1>8, <1>9 DEF Section

(* autoEncryptPwd keeps the servers and what is included.                  *)
LEMMA EncryptedFile ==
  ASSUME NEW f, Safe(f), NEW pwds, "" \notin pwds
  PROVE  /\ Safe(EncryptFile(f, pwds))
         /\ EncryptFile(f, pwds).include = f.include
         /\ EncryptFile(f, pwds).common = EncryptSection(f.common, pwds)
         /\ EncryptFile(f, pwds).servers = [k \in DOMAIN f.servers |-> EncryptSection(f.servers[k], pwds)]
         /\ EncryptFile(f, pwds).elsewhere = f.elsewhere \ pwds
<1>1. PICK servers : servers = [k \in DOMAIN f.servers |-> EncryptSection(f.servers[k], pwds)]
  OBVIOUS
<1>2. PICK common : common = EncryptSection(f.common, pwds)
  OBVIOUS
<1>3. common \in Section /\ IsSections(servers)
  BY <1>1, <1>2, EncryptedSection DEF IsSections, Safe, IsFile
<1>4. PICK e : e = EncryptFile(f, pwds)
  OBVIOUS
<1>5. e = [f EXCEPT !.common = common, !.servers = servers, !.elsewhere = f.elsewhere \ pwds]
  BY <1>1, <1>2, <1>4 DEF EncryptFile, Safe, IsFile
<1>6. /\ DOMAIN e = DOMAIN f /\ e.state = f.state /\ e.include = f.include /\ e.common = common /\ e.servers = servers
      /\ e.elsewhere = f.elsewhere \ pwds
  BY <1>5 DEF Safe, IsFile
<1>7. Safe(e)
  BY <1>3, <1>6 DEF Safe, IsFile
<1> QED
  <2>1. e.servers = [k \in DOMAIN f.servers |-> EncryptSection(f.servers[k], pwds)]
    BY <1>1, <1>6
  <2>2. e.common = EncryptSection(f.common, pwds)
    BY <1>2, <1>6
  <2> QED BY <1>4, <1>6, <1>7, <2>1, <2>2

(* A hit elsewhere leaves a file with the same sections, or none.          *)
LEMMA RewrittenFile ==
  ASSUME NEW f, Safe(f), NEW pwds, "" \notin pwds, NEW new \in Rewritten(f, pwds)
  PROVE  /\ new = Mixed \/ Safe(new)
         /\ f.elsewhere \cap pwds = {} => new = EncryptFile(f, pwds)
<1>1. PICK e : e = EncryptFile(f, pwds)
  OBVIOUS
<1>2. Safe(e)
  BY <1>1, EncryptedFile
<1>3. \/ new \in {e, Mixed}
      \/ \E k \in DOMAIN e.servers : new = [e EXCEPT !.servers = Renamed(e.servers, k)]
  BY <1>1 DEF Rewritten
<1>4. ASSUME NEW k \in DOMAIN e.servers, new = [e EXCEPT !.servers = Renamed(e.servers, k)]
      PROVE  Safe(new)
  <2>1. PICK servers : servers = Renamed(e.servers, k)
    OBVIOUS
  <2>2. \A n \in DOMAIN servers : \E m \in DOMAIN e.servers : servers[n] = e.servers[m]
    BY <2>1 DEF Renamed
  <2>3. IsSections(e.servers)
    BY <1>2 DEF Safe, IsFile
  <2>4. IsSections(servers)
    BY <2>2, <2>3 DEF IsSections
  <2>5. DOMAIN new = DOMAIN e /\ new.state = e.state /\ new.include = e.include /\ new.common = e.common /\ new.servers = servers
    BY <1>2, <1>4, <2>1 DEF Safe, IsFile
  <2> QED BY <1>2, <2>4, <2>5 DEF Safe, IsFile
<1>5. f.elsewhere \cap pwds = {} => new = e
  BY <1>1 DEF Rewritten
<1> QED BY <1>1, <1>2, <1>3, <1>4, <1>5

(* updatePromptPwd changes templates that ask, where the line is found.    *)
LEMMA AnsweredSection ==
  ASSUME NEW s \in Section, NEW line, NEW answer \in Answers
  PROVE  /\ AnswerSection(s, line, answer) \in Section
         /\ \/ AnswerSection(s, line, answer) = s
            \/ /\ s.tmpl.pass = Prompt /\ line \in s.tmpl.holds
               /\ AnswerSection(s, line, answer).text = s.text
               /\ AnswerSection(s, line, answer).timeout = s.timeout
               /\ AnswerSection(s, line, answer).tmpl = [s.tmpl EXCEPT !.pass = PbeEncode(answer)]
<1>1. s.tmpl \in Template
  BY DEF Section
<1>2. PbeEncode(answer) \in Text
  BY LoginAssumption, PbeText DEF LoginAssumption
<1>3. PICK tmpl : tmpl = [s.tmpl EXCEPT !.pass = PbeEncode(answer)]
  OBVIOUS
<1>4. tmpl \in Template
  BY <1>1, <1>2, <1>3 DEF Template
<1>5. PICK e : e = [s EXCEPT !.tmpl = tmpl]
  OBVIOUS
<1>6. e \in Section /\ e.text = s.text /\ e.timeout = s.timeout /\ e.tmpl = tmpl
  BY <1>4, <1>5 DEF Section
<1>7. \/ AnswerSection(s, line, answer) = s
      \/ AnswerSection(s, line, answer) = e /\ s.tmpl.pass = Prompt /\ line \in s.tmpl.holds
  BY <1>3, <1>5 DEF AnswerSection, Section
<1> QED BY <1>3, <1>6, <1>7

LEMMA AnsweredFile ==
  ASSUME NEW f, Safe(f), NEW line, NEW answer \in Answers
  PROVE  LET e == AnswerFile(f, line, answer)
         IN /\ Safe(e) /\ e.include = f.include /\ e.common = f.common /\ e.elsewhere = f.elsewhere
            /\ DOMAIN e.servers = DOMAIN f.servers
            /\ \A n \in DOMAIN f.servers : e.servers[n] = AnswerSection(f.servers[n], line, answer)
<1>1. PICK servers : servers = [k \in DOMAIN f.servers |-> AnswerSection(f.servers[k], line, answer)]
  OBVIOUS
<1>2. IsSections(servers)
  BY <1>1, AnsweredSection DEF IsSections, Safe, IsFile
<1>3. PICK e : e = AnswerFile(f, line, answer)
  OBVIOUS
<1>4. e = [f EXCEPT !.servers = servers]
  BY <1>1, <1>3 DEF AnswerFile, Safe, IsFile
<1>5. /\ DOMAIN e = DOMAIN f /\ e.state = f.state /\ e.include = f.include /\ e.common = f.common /\ e.servers = servers
      /\ e.elsewhere = f.elsewhere
  BY <1>4 DEF Safe, IsFile
<1>6. Safe(e)
  BY <1>2, <1>5 DEF Safe, IsFile
<1> QED BY <1>1, <1>3, <1>5, <1>6

-----------------------------------------------------------------------------
(* Servers.                                                                *)

LEMMA DeductFacts ==
  ASSUME NEW per \in Section, NEW child \in Section
  PROVE  LET s == ServerConfigDeduct(per, child)
         IN /\ s \in Section /\ s.tmpl = child.tmpl
            /\ s.text["pass"] \in {per.text["pass"], child.text["pass"]}
<1> DEFINE text == [f \in TextFields |-> IF child.text[f] = Empty THEN per.text[f] ELSE child.text[f]]
           s == ServerConfigDeduct(per, child)
<1>1. per.text \in [TextFields -> Text] /\ child.text \in [TextFields -> Text]
  BY DEF Section
<1>2. text \in [TextFields -> Text]
  BY <1>1
<1>3. text["pass"] \in {per.text["pass"], child.text["pass"]}
  BY DEF TextFields
<1>4. s = [child EXCEPT !.text = text]
  BY DEF ServerConfigDeduct
<1> HIDE DEF text
<1>5. s \in Section /\ s.tmpl = child.tmpl /\ s.text = text
  BY <1>2, <1>4 DEF Section
<1> QED BY <1>3, <1>5

LEMMA SectionConfig ==
  ASSUME NEW s \in Section, NEW id
  PROVE  LET c == FromSection(s, id)
         IN IsConfig(c) /\ ~c.direct /\ c.text = s.text /\ c.id = id
BY DEF FromSection, IsConfig, Section

LEMMA HostConfig ==
  ASSUME NEW t, t.user \in Text, t.pass \in Text, NEW c, IsConfig(c)
  PROVE  LET h == createServerConfigFromHost(t, c)
         IN IsConfig(h) /\ h.direct = c.direct /\ h.id = c.id /\ h.text["pass"] = t.pass
<1> DEFINE h == createServerConfigFromHost(t, c)
<1>1. c.text \in [TextFields -> Text] /\ DOMAIN c = {"text", "timeout", "id", "raw", "direct"}
  BY DEF IsConfig
<1>2. PICK text : text = [c.text EXCEPT !["user"] = t.user, !["pass"] = t.pass]
  OBVIOUS
<1>3. text \in [TextFields -> Text] /\ text["pass"] = t.pass
  BY <1>1, <1>2 DEF TextFields
<1>4. h = [c EXCEPT !.text = text, !.raw = t.line]
  BY <1>2 DEF createServerConfigFromHost
<1> HIDE DEF h
<1>5. DOMAIN h = DOMAIN c /\ h.text = text /\ h.direct = c.direct /\ h.id = c.id
  BY <1>1, <1>4
<1>6. IsConfig(h)
  BY <1>1, <1>3, <1>5 DEF IsConfig
<1> QED BY <1>3, <1>5, <1>6 DEF h

(* The words of passwords of sections, and of servers.                     *)
SectionsPasswords(sections) == UNION {SectionPasswords(sections[k]) : k \in DOMAIN sections}
ServerPasswords(known) == {known[n].text["pass"].word : n \in DOMAIN known}
AreConfigs(known) == \A n \in DOMAIN known : IsConfig(known[n]) /\ ~known[n].direct

(* A known is one there was, a section or a host of a template.           *)
LEMMA ParseFacts ==
  ASSUME NEW known, NEW sections, NEW common \in Section, IsSections(sections), AreConfigs(known)
  PROVE  LET r == parseConfigServers(known, sections, common)
         IN /\ AreConfigs(r)
            /\ DOMAIN known \ DOMAIN sections \subseteq DOMAIN r
            /\ ServerPasswords(r) \subseteq
                 ServerPasswords(known) \cup SectionsPasswords(sections) \cup {common.text["pass"].word}
<1> DEFINE r == parseConfigServers(known, sections, common)
           set(k) == ServerConfigDeduct(common, sections[k])
           tmpls == {k \in DOMAIN sections : sections[k].tmpl.n > 0}
           hosts == UNION {{<<k, i>> : i \in 1..sections[k].tmpl.n} : k \in tmpls}
           key(h) == createKey(h[1], sections[h[1]].tmpl, h[2])
           names == ((DOMAIN known \cup DOMAIN sections) \ tmpls) \cup {key(h) : h \in hosts}
           words == ServerPasswords(known) \cup SectionsPasswords(sections) \cup {common.text["pass"].word}
           ok(c) == IsConfig(c) /\ ~c.direct /\ c.text["pass"].word \in words
<1>1. r = [name \in names |->
             IF \E h \in hosts : key(h) = name
             THEN LET h == CHOOSE h \in hosts : key(h) = name
                  IN createServerConfigFromHost(sections[h[1]].tmpl, FromSection(set(h[1]), h[1]))
             ELSE IF name \in DOMAIN sections THEN FromSection(set(name), name) ELSE known[name]]
  BY DEF parseConfigServers
<1>2. ASSUME NEW k \in DOMAIN sections
      PROVE  /\ set(k) \in Section /\ ok(FromSection(set(k), k))
             /\ sections[k].tmpl.user \in Text /\ sections[k].tmpl.pass \in Text
             /\ sections[k].tmpl.pass.word \in words
  <2>1. sections[k] \in Section
    BY DEF IsSections
  <2>2. set(k) \in Section /\ set(k).text["pass"] \in {common.text["pass"], sections[k].text["pass"]}
    BY <2>1, DeductFacts
  <2>3. sections[k].text["pass"].word \in words /\ sections[k].tmpl.pass.word \in words
    BY DEF SectionsPasswords, SectionPasswords
  <2>4. IsConfig(FromSection(set(k), k)) /\ ~FromSection(set(k), k).direct
        /\ FromSection(set(k), k).text = set(k).text
    BY <2>2, SectionConfig
  <2> HIDE DEF words, set
  <2>5. FromSection(set(k), k).text["pass"].word \in words
    <3>1. common.text["pass"].word \in words
      BY DEF words
    <3> QED BY <2>2, <2>3, <2>4, <3>1
  <2> QED BY <2>1, <2>2, <2>3, <2>4, <2>5 DEF Section, Template
<1>3. ASSUME NEW h \in hosts
      PROVE  ok(createServerConfigFromHost(sections[h[1]].tmpl, FromSection(set(h[1]), h[1])))
  <2>1. h[1] \in DOMAIN sections
    OBVIOUS
  <2> HIDE DEF words, set, hosts
  <2> QED BY <1>2, <2>1, HostConfig
<1>4. ASSUME NEW n \in DOMAIN known
      PROVE  ok(known[n])
  BY DEF AreConfigs, ServerPasswords
<1>5. ASSUME NEW n \in names
      PROVE  ok(r[n])
  <2> HIDE DEF words, set, hosts, key, ok, r
  <2>1. CASE \E h \in hosts : key(h) = n
    <3>1. (CHOOSE h \in hosts : key(h) = n) \in hosts
      BY <2>1
    <3> QED BY <1>1, <1>3, <2>1, <3>1
  <2>2. CASE ~\E h \in hosts : key(h) = n
    <3>1. n \in DOMAIN known \cup DOMAIN sections
      BY <2>2
    <3>2. r[n] = IF n \in DOMAIN sections THEN FromSection(set(n), n) ELSE known[n]
      BY <1>1, <2>2
    <3> QED BY <1>2, <1>4, <3>1, <3>2
  <2> QED BY <2>1, <2>2
<1>6. DOMAIN r = names /\ DOMAIN known \ DOMAIN sections \subseteq names
  BY <1>1
<1> HIDE DEF r, names, words
<1> QED BY <1>5, <1>6 DEF AreConfigs, ServerPasswords, r, words

LEMMA NoSectionType == NoSection \in Section /\ Empty \in Text
<1>1. Empty \in Text
  <2>1. "" \in Words
    BY DEF Words
  <2> QED BY <2>1, PlainText DEF Empty
<1>2. NoTemplate \in Template
  <2>1. "" \in Words
    BY DEF Words
  <2> QED BY <1>1, <2>1 DEF Template, NoTemplate
<1> QED BY <1>1, <1>2 DEF NoSection, Section

LEMMA HostsFacts ==
  ASSUME NEW known, AreConfigs(known), NEW L, L \subseteq HostLine
  PROVE  LET r == addHosts(known, L)
         IN /\ AreConfigs(r)
            /\ DOMAIN r = DOMAIN known \cup {LineID(l) : l \in L}
            /\ ServerPasswords(r) \subseteq ServerPasswords(known) \cup {l.pass.word : l \in L}
<1> DEFINE r == addHosts(known, L)
           words == ServerPasswords(known) \cup {l.pass.word : l \in L}
<1>1. NoSection \in Section
  BY NoSectionType
<1>2. DOMAIN r = DOMAIN known \cup {LineID(l) : l \in L}
  BY DEF addHosts
<1>3. ASSUME NEW id \in DOMAIN r
      PROVE  IsConfig(r[id]) /\ ~r[id].direct /\ r[id].text["pass"].word \in words
  <2>1. CASE id \in DOMAIN known
    <3>1. r[id] = known[id]
      BY <2>1 DEF addHosts
    <3> QED BY <2>1, <3>1 DEF AreConfigs, ServerPasswords
  <2>2. CASE id \notin DOMAIN known
    <3> DEFINE l == CHOOSE l \in L : LineID(l) = id
    <3>1. l \in L
      BY <1>2, <2>2
    <3>2. r[id] = createServerConfigFromHost(l, FromSection(NoSection, id))
      BY <1>2, <2>2 DEF addHosts
    <3> HIDE DEF l, r
    <3>3. l.user \in Text /\ l.pass \in Text /\ l.pass.word \in words
      BY <3>1 DEF HostLine
    <3> QED BY <1>1, <3>2, <3>3, SectionConfig, HostConfig
  <2> QED BY <2>1, <2>2
<1> HIDE DEF r, words
<1> QED BY <1>2, <1>3 DEF AreConfigs, ServerPasswords, r, words

(* The servers of a file and of the saved addresses.                       *)
LEMMA ReadFacts ==
  ASSUME NEW f, Safe(f), NEW L, L \subseteq HostLine
  PROVE  LET r == ReadConf(f, L)
         IN /\ AreConfigs(r)
            /\ \A a \in Addresses : AutoID(a) \in {l.id : l \in L} => AutoID(a) \in DOMAIN r
            /\ ServerPasswords(r) \subseteq FilePasswords(f) \cup {l.pass.word : l \in L}
<1> DEFINE mine == parseConfigServers(<<>>, f.servers, f.common)
           hosts == addHosts(mine, L)
           per == ServerConfigDeduct(f.common, f.include.common)
           r == ReadConf(f, L)
<1>1. /\ f.common \in Section /\ IsSections(f.servers)
      /\ f.include.common \in Section /\ IsSections(f.include.servers)
  BY DEF Safe, IsFile
<1>2. AreConfigs(<<>>) /\ ServerPasswords(<<>>) = {}
  BY DEF AreConfigs, ServerPasswords
<1>3. AreConfigs(mine) /\ ServerPasswords(mine) \subseteq SectionsPasswords(f.servers) \cup {f.common.text["pass"].word}
  BY <1>1, <1>2, ParseFacts
<1>4. /\ AreConfigs(hosts) /\ {LineID(l) : l \in L} \subseteq DOMAIN hosts
      /\ ServerPasswords(hosts) \subseteq ServerPasswords(mine) \cup {l.pass.word : l \in L}
  BY <1>3, HostsFacts
<1>5. per \in Section /\ per.text["pass"] \in {f.common.text["pass"], f.include.common.text["pass"]}
  BY <1>1, DeductFacts
<1>6. r = parseConfigServers(hosts, f.include.servers, per)
  BY DEF ReadConf
<1> HIDE DEF mine, hosts, per, r
<1>7. /\ AreConfigs(r) /\ DOMAIN hosts \ DOMAIN f.include.servers \subseteq DOMAIN r
      /\ ServerPasswords(r) \subseteq
           ServerPasswords(hosts) \cup SectionsPasswords(f.include.servers) \cup {per.text["pass"].word}
  BY <1>1, <1>4, <1>5, <1>6, ParseFacts
<1>8. ASSUME NEW a \in Addresses, NEW l \in L, l.id = AutoID(a)
      PROVE  AutoID(a) \in DOMAIN r
  <2>1. LineID(l) = AutoID(a)
    BY <1>8 DEF LineID, AutoID
  <2>2. AutoID(a) \notin DOMAIN f.include.servers
    BY DEF Safe
  <2> QED BY <1>4, <1>7, <2>1, <2>2
<1>9. /\ SectionsPasswords(f.servers) \subseteq FilePasswords(f)
      /\ SectionsPasswords(f.include.servers) \subseteq FilePasswords(f)
      /\ f.common.text["pass"].word \in FilePasswords(f) /\ f.include.common.text["pass"].word \in FilePasswords(f)
  BY DEF SectionsPasswords, FilePasswords, SectionPasswords
<1>10. per.text["pass"].word \in FilePasswords(f)
  BY <1>5, <1>9
<1>11. ServerPasswords(r) \subseteq FilePasswords(f) \cup {l.pass.word : l \in L}
  BY <1>3, <1>4, <1>7, <1>9, <1>10
<1> QED BY <1>7, <1>8, <1>11 DEF r

-----------------------------------------------------------------------------
(* Files that say the same.                                                *)

(* Encrypting passwords of the first file, or of what it includes, or of   *)
(* the saved addresses, changes nothing that the file says.                *)
LEMMA EncryptedSameText ==
  ASSUME NEW was \in Text, NEW is \in Text, NEW password \in BOOLEAN, SameText(was, is, password),
         NEW pwds, "" \notin pwds, pwds \subseteq Passwords
  PROVE  SameText(was, Encrypted(is, pwds), password)
<1>1. PICK e : e = Encrypted(is, pwds)
  OBVIOUS
<1>2. \/ e = is
      \/ e = PbeEncode(is.word) /\ is.word \in Passwords /\ ~is.pbe
      \/ e = Spoilt /\ ~is.pbe /\ \E w \in Passwords : <<is.word, w>> \in Parts
  BY <1>1, EncryptedText
<1> HIDE DEF Passwords
<1>3. CASE is = was
  BY <1>1, <1>2, <1>3, Zenon DEF SameText
<1>4. CASE is = PbeEncode(was.word) /\ (password \/ was.word \in Passwords)
  <2>1. is.pbe
    BY <1>4, PbeText
  <2> QED BY <1>1, <1>2, <1>4, <2>1 DEF SameText
<1>5. CASE is.word = Spoilt.word /\ \E w \in Passwords : <<was.word, w>> \in Parts
  <2>1. e.word = Spoilt.word
    BY <1>2, <1>5, PbeText
  <2> QED BY <1>1, <1>5, <2>1 DEF SameText
<1> QED BY <1>3, <1>4, <1>5 DEF SameText

LEMMA EncryptedSame ==
  ASSUME NEW was \in Section, NEW is \in Section, SameSection(was, is),
         NEW pwds, "" \notin pwds, pwds \subseteq Passwords
  PROVE  SameSection(was, EncryptSection(is, pwds))
<1>1. PICK e : e = EncryptSection(is, pwds)
  OBVIOUS
<1>2. /\ \A f \in TextFields : is.text[f] \in Text /\ was.text[f] \in Text
      /\ is.tmpl \in Template /\ was.tmpl \in Template /\ is.tmpl.pass \in Text /\ was.tmpl.pass \in Text
  BY DEF Section, Template
<1>3. PICK pass : pass = Encrypted(is.tmpl.pass, pwds)
  OBVIOUS
<1>4. /\ e.timeout = is.timeout /\ e.tmpl = [is.tmpl EXCEPT !.pass = pass]
      /\ \A f \in TextFields : e.text[f] = Encrypted(is.text[f], pwds)
  BY <1>1, <1>3, EncryptedSection
<1>5. /\ \A f \in TextFields : SameText(was.text[f], is.text[f], f = "pass")
      /\ is.timeout = was.timeout /\ is.tmpl = [was.tmpl EXCEPT !.pass = is.tmpl.pass]
      /\ SameText(was.tmpl.pass, is.tmpl.pass, TRUE) \/ Answered(was.tmpl, is.tmpl)
  BY DEF SameSection
<1> HIDE DEF Passwords
<1>6. ASSUME NEW f \in TextFields
      PROVE  SameText(was.text[f], e.text[f], f = "pass")
  <2>1. SameText(was.text[f], Encrypted(is.text[f], pwds), f = "pass")
    BY <1>2, <1>5, EncryptedSameText
  <2> QED BY <1>4, <2>1
<1>7. e.tmpl = [was.tmpl EXCEPT !.pass = e.tmpl.pass] /\ e.tmpl.pass = pass
  BY <1>2, <1>4, <1>5 DEF Template
<1>8. SameText(was.tmpl.pass, pass, TRUE) \/ Answered(was.tmpl, e.tmpl)
  <2>1. CASE SameText(was.tmpl.pass, is.tmpl.pass, TRUE)
    BY <1>2, <1>3, <2>1, EncryptedSameText
  <2>2. CASE Answered(was.tmpl, is.tmpl)
    <3>1. is.tmpl.pass.pbe
      BY <2>2, PbeText DEF Answered
    <3>2. pass = is.tmpl.pass
      BY <1>3, <3>1 DEF Encrypted
    <3> QED BY <1>7, <2>2, <3>2 DEF Answered
  <2> QED BY <1>5, <2>1, <2>2
<1>9. e.timeout = was.timeout
  BY <1>4, <1>5
<1> QED BY <1>1, <1>6, <1>7, <1>8, <1>9 DEF SameSection

LEMMA EncryptedSimilar ==
  ASSUME NEW f, Similar(f), Safe(original), NEW pwds, "" \notin pwds, pwds \subseteq Passwords
  PROVE  Similar(EncryptFile(f, pwds))
<1>1. PICK e : e = EncryptFile(f, pwds)
  OBVIOUS
<1>2. /\ Safe(e) /\ e.include = f.include /\ e.common = EncryptSection(f.common, pwds)
      /\ e.servers = [k \in DOMAIN f.servers |-> EncryptSection(f.servers[k], pwds)]
      /\ e.elsewhere \subseteq f.elsewhere
  <2>1. Safe(f)
    BY DEF Similar
  <2> HIDE DEF Passwords
  <2>2. e.elsewhere = f.elsewhere \ pwds
    BY <1>1, <2>1, EncryptedFile
  <2>3. e.elsewhere \subseteq f.elsewhere
    BY <2>2
  <2>4. Safe(e) /\ e.include = f.include /\ e.common = EncryptSection(f.common, pwds)
    BY <1>1, <2>1, EncryptedFile
  <2>5. e.servers = [k \in DOMAIN f.servers |-> EncryptSection(f.servers[k], pwds)]
    <3>1. EncryptFile(f, pwds).servers = [k \in DOMAIN f.servers |-> EncryptSection(f.servers[k], pwds)]
      <4> HIDE <1>1
      <4> QED BY <2>1, EncryptedFile, Zenon
    <3> QED BY <1>1, <3>1, Zenon
  <2> QED BY <2>3, <2>4, <2>5
<1>3. /\ f.common \in Section /\ original.common \in Section
      /\ \A k \in DOMAIN f.servers : f.servers[k] \in Section /\ original.servers[k] \in Section
  BY DEF Similar, Safe, IsFile, IsSections
<1>4. SameSection(original.common, e.common)
  <2>1. SameSection(original.common, f.common)
    BY DEF Similar
  <2>2. SameSection(original.common, EncryptSection(f.common, pwds))
    BY <1>3, <2>1, EncryptedSame
  <2> QED BY <1>2, <2>2
<1>5. ASSUME NEW k \in DOMAIN f.servers
      PROVE  SameSection(original.servers[k], e.servers[k])
  <2>1. SameSection(original.servers[k], f.servers[k])
    BY DEF Similar
  <2>2. SameSection(original.servers[k], EncryptSection(f.servers[k], pwds))
    BY <1>3, <2>1, EncryptedSame
  <2> QED BY <1>2, <2>2
<1> QED BY <1>1, <1>2, <1>4, <1>5 DEF Similar

(* There is nothing to encrypt or to answer in an empty file.              *)
LEMMA NothingChanges ==
  ASSUME NEW S, NEW r, r = [k \in S |-> r[k]], NEW f, NEW x, x = r[f]
  PROVE  [r EXCEPT ![f] = x] = r
OBVIOUS

LEMMA EmptyFacts ==
  /\ Safe(EmptyFile)
  /\ \A pwds : "" \notin pwds => Rewritten(EmptyFile, pwds) = {EmptyFile}
  /\ \A k, answer : AnswerFile(EmptyFile, k, answer) = EmptyFile
<1>1. NoSection \in Section
  BY NoSectionType
<1>2. /\ DOMAIN EmptyFile = {"state", "extra", "auto", "passphrase", "common", "servers", "include", "elsewhere"}
      /\ EmptyFile = [k \in DOMAIN EmptyFile |-> EmptyFile[k]]
      /\ EmptyFile.state = "whole" /\ EmptyFile.common = NoSection
      /\ EmptyFile.servers = [k \in {} |-> NoSection] /\ DOMAIN EmptyFile.servers = {}
      /\ EmptyFile.include.common = NoSection /\ DOMAIN EmptyFile.include.servers = {}
      /\ EmptyFile.elsewhere = {}
  BY DEF EmptyFile
<1>3. Safe(EmptyFile)
  BY <1>1, <1>2 DEF Safe, IsFile, IsSections
<1>4. ASSUME NEW pwds, "" \notin pwds
      PROVE  Rewritten(EmptyFile, pwds) = {EmptyFile}
  <2>1. Encrypted(Empty, pwds) = Empty
    <3>1. Empty.word = "" /\ ~Empty.pbe
      BY DEF Empty, Plain
    <3>2. \A w \in pwds : <<"", w>> \notin Parts
      BY LoginAssumption DEF LoginAssumption
    <3> QED BY <1>4, <3>1, <3>2 DEF Encrypted
  <2>2. EncryptSection(NoSection, pwds) = NoSection
    <3>1. /\ NoSection = [k \in DOMAIN NoSection |-> NoSection[k]]
          /\ NoSection.tmpl = [k \in DOMAIN NoSection.tmpl |-> NoSection.tmpl[k]]
          /\ NoSection.tmpl.pass = Empty /\ NoSection.text = [f \in TextFields |-> Empty]
      BY DEF NoSection, NoTemplate
    <3>2. PICK text : text = [f \in TextFields |-> Encrypted(NoSection.text[f], pwds)]
      OBVIOUS
    <3>3. text = NoSection.text
      BY <2>1, <3>1, <3>2
    <3>4. PICK tmpl : tmpl = [NoSection.tmpl EXCEPT !.pass = Encrypted(NoSection.tmpl.pass, pwds)]
      OBVIOUS
    <3>5. tmpl = NoSection.tmpl
      BY <2>1, <3>1, <3>4
    <3>6. [NoSection EXCEPT !.text = text] = NoSection /\ [NoSection EXCEPT !.tmpl = tmpl] = NoSection
      BY <3>1, <3>3, <3>5, NothingChanges
    <3>7. EncryptSection(NoSection, pwds) = [NoSection EXCEPT !.text = text, !.tmpl = tmpl]
      <4>1. NoSection.tmpl = NoTemplate /\ DOMAIN NoSection = {"text", "timeout", "tmpl"}
        BY DEF NoSection
      <4> QED BY <3>2, <3>4, <4>1 DEF EncryptSection
    <3> QED BY <3>6, <3>7, Zenon
  <2>3. PICK servers : servers = [k \in DOMAIN EmptyFile.servers |-> EncryptSection(EmptyFile.servers[k], pwds)]
    OBVIOUS
  <2>4. servers = EmptyFile.servers
    BY <1>2, <2>3
  <2>5. /\ [EmptyFile EXCEPT !.common = NoSection] = EmptyFile /\ [EmptyFile EXCEPT !.servers = servers] = EmptyFile
        /\ [EmptyFile EXCEPT !.elsewhere = {}] = EmptyFile
    BY <1>2, <2>4, NothingChanges
  <2>6. EncryptFile(EmptyFile, pwds) = [EmptyFile EXCEPT !.common = NoSection, !.servers = servers, !.elsewhere = {}]
    BY <1>2, <2>2, <2>3 DEF EncryptFile
  <2>7. EncryptFile(EmptyFile, pwds) = EmptyFile
    BY <2>5, <2>6, Zenon
  <2> QED BY <1>2, <2>7 DEF Rewritten
<1>5. ASSUME NEW line, NEW answer
      PROVE  AnswerFile(EmptyFile, line, answer) = EmptyFile
  <2>1. PICK servers : servers = [n \in DOMAIN EmptyFile.servers |-> AnswerSection(EmptyFile.servers[n], line, answer)]
    OBVIOUS
  <2>2. servers = EmptyFile.servers
    BY <1>2, <2>1
  <2>3. [EmptyFile EXCEPT !.servers = servers] = EmptyFile
    BY <1>2, <2>2, NothingChanges
  <2>4. AnswerFile(EmptyFile, line, answer) = [EmptyFile EXCEPT !.servers = servers]
    BY <1>2, <2>1 DEF AnswerFile
  <2> QED BY <2>3, <2>4, Zenon
<1> QED BY <1>3, <1>4, <1>5

(* A file that says the same has the same passwords, and what was typed.   *)
LEMMA SimilarPasswords ==
  ASSUME NEW f, Similar(f), \A a \in answered : a[2] \in Answers
  PROVE  FilePasswords(f) \subseteq Passwords
<1>1. ASSUME NEW was, NEW is, SameSection(was, is), SectionPasswords(was) \subseteq Passwords
      PROVE  SectionPasswords(is) \subseteq Passwords
  <2>1. is.text["pass"].word \in {was.text["pass"].word, Spoilt.word}
    BY <1>1 DEF SameSection, SameText, PbeEncode, TextFields
  <2>2. is.tmpl.pass.word \in {was.tmpl.pass.word, Spoilt.word} \/ is.tmpl.pass.word \in Answers
    <3>1. SameText(was.tmpl.pass, is.tmpl.pass, TRUE) \/ Answered(was.tmpl, is.tmpl)
      BY <1>1 DEF SameSection
    <3>2. \A w : PbeEncode(w).word = w
      BY PbeText
    <3> QED BY <3>1, <3>2 DEF SameText, Answered
  <2>3. Answers \subseteq Passwords /\ Spoilt.word \in Passwords
    BY DEF Passwords
  <2> QED BY <1>1, <2>1, <2>2, <2>3 DEF SectionPasswords
<1>2. FilePasswords(original) \subseteq Passwords
  BY DEF Passwords
<1>3. SectionPasswords(f.common) \subseteq Passwords
  <2>1. SectionPasswords(original.common) \subseteq Passwords
    BY <1>2 DEF FilePasswords
  <2> QED BY <1>1, <2>1 DEF Similar
<1>4. ASSUME NEW k \in DOMAIN f.servers
      PROVE  SectionPasswords(f.servers[k]) \subseteq Passwords
  <2>1. SectionPasswords(original.servers[k]) \subseteq Passwords
    BY <1>2 DEF FilePasswords, Similar
  <2> QED BY <1>1, <2>1 DEF Similar
<1>5. /\ SectionPasswords(f.include.common) \subseteq Passwords
      /\ \A k \in DOMAIN f.include.servers : SectionPasswords(f.include.servers[k]) \subseteq Passwords
  <2>1. f.include = original.include
    BY DEF Similar
  <2> QED BY <1>2, <2>1 DEF FilePasswords
<1> QED BY <1>3, <1>4, <1>5 DEF FilePasswords

(* It still says the same when more was typed or saved.                    *)
LEMMA SimilarLater ==
  ASSUME NEW f, Similar(f), original' = original, answered \subseteq answered', Passwords \subseteq Passwords'
  PROVE  Similar(f)'
<1> HIDE DEF Passwords
<1>1. ASSUME NEW was, NEW is, SameSection(was, is)
      PROVE  SameSection(was, is)'
  <2>1. \A t, u, password : SameText(t, u, password) => SameText(t, u, password)'
    BY DEF SameText
  <2>2. Answered(was.tmpl, is.tmpl) => Answered(was.tmpl, is.tmpl)'
    BY DEF Answered
  <2> QED BY <1>1, <2>1, <2>2 DEF SameSection
<1> QED BY <1>1 DEF Similar

-----------------------------------------------------------------------------
(* Steps of a process.                                                     *)

Act(p) ==
  \/ \E args \in ArgLists : Launch(p, args)
  \/ CreateConf(p) \/ Load(p) \/ Broken(p) \/ Expand(p) \/ Choose(p)
  \/ Collect(p) \/ (\E a \in Answers : Ask(p, a)) \/ Encrypt(p) \/ Truncate(p) \/ Write(p)
  \/ getServerConfig(p) \/ HandOver(p) \/ Dial(p) \/ WriteTempHosts(p)
  \/ Exit(p) \/ Killed(p)

Same(q) ==
  /\ pc'[q] = pc[q] /\ cli'[q] = cli[q] /\ server'[q] = server[q] /\ loaded'[q] = loaded[q]
  /\ target'[q] = target[q] /\ methods'[q] = methods[q] /\ decoded'[q] = decoded[q] /\ pbe'[q] = pbe[q]
  /\ file'[q] = file[q] /\ config'[q] = config[q]

LEMMA SetFacts ==
  ASSUME NEW f, DOMAIN f = Procs, NEW p \in Procs, NEW v
  PROVE  /\ DOMAIN Set(f, p, v) = Procs /\ Set(f, p, v)[p] = v
         /\ \A q \in Procs : q # p => Set(f, p, v)[q] = f[q]
BY DEF Set

(* A process changes nothing that another one keeps for itself.            *)
Local(p) == PerProcess' /\ \A q \in Procs : q # p => Same(q)
LEMMA OnlyOwn ==
  ASSUME PerProcess, NEW p \in Procs, Act(p)
  PROVE  Local(p)
<1> USE SetFacts DEF Local, PerProcess, Same, Goto, own
<1>1. ASSUME NEW args, Launch(p, args)
      PROVE  Local(p)
  BY <1>1 DEF Launch
<1>2. CASE CreateConf(p)
  BY <1>2 DEF CreateConf
<1>3. CASE Load(p)
  BY <1>3 DEF Load
<1>4. CASE Broken(p)
  BY <1>4 DEF Broken
<1>5. CASE Expand(p)
  <2>1. \E t : target' = Set(target, p, t)
    BY <1>5 DEF Expand
  <2>2. pc' = Set(pc, p, "auth")
    BY <1>5 DEF Expand
  <2> QED BY <1>5, <2>1, <2>2 DEF Expand
<1>6. CASE Choose(p)
  BY <1>6 DEF Choose
<1>7. CASE Collect(p)
  BY <1>7 DEF Collect
<1>8. ASSUME NEW a, Ask(p, a)
      PROVE  Local(p)
  BY <1>8 DEF Ask
<1>9. CASE Encrypt(p)
  <2>1. /\ file' = file \/ \E f : file' = Set(file, p, f)
        /\ \E v : pc' = Set(pc, p, v)
    BY <1>9, Zenon DEF Encrypt, Goto
  <2> QED BY <1>9, <2>1 DEF Encrypt
<1>10. CASE Truncate(p)
  BY <1>10 DEF Truncate
<1>11. CASE Write(p)
  BY <1>11 DEF Write
<1>12. CASE getServerConfig(p)
  <2>1. PICK m, c : methods' = Set(methods, p, m) /\ config' = Set(config, p, c)
    <3>1. NoKey(p) \/ AskPassword(p)
      BY <1>12, Zenon DEF getServerConfig
    <3> QED BY <3>1, Zenon DEF NoKey, AskPassword
  <2>2. /\ pc' = Set(pc, p, "dial")
        /\ UNCHANGED <<disk, cli, server, loaded, target, decoded, pbe, file, history>>
    BY <1>12 DEF getServerConfig
  <2> QED BY <2>1, <2>2
<1>13. CASE HandOver(p)
  BY <1>13 DEF HandOver
<1>14. CASE Dial(p)
  BY <1>14 DEF Dial
<1>15. CASE WriteTempHosts(p)
  BY <1>15 DEF WriteTempHosts
<1>16. CASE Exit(p) \/ Killed(p)
  <2>1. Reset(p)
    BY <1>16 DEF Exit, Killed
  <2>2. PICK no : no = FALSE
    OBVIOUS
  <2>3. pbe' = Set(pbe, p, no)
    BY <2>1, <2>2, Zenon DEF Reset
  <2>4. /\ cli' = Set(cli, p, Typed(<<>>)) /\ server' = Set(server, p, NoServer) /\ loaded' = Set(loaded, p, {})
        /\ target' = Set(target, p, <<>>) /\ methods' = Set(methods, p, {}) /\ decoded' = Set(decoded, p, {})
        /\ file' = Set(file, p, EmptyFile) /\ config' = Set(config, p, NoConf) /\ pc' = Set(pc, p, "off")
    BY <2>1, Zenon DEF Reset
  <2> QED BY <2>3, <2>4
<1> HIDE DEF Local, PerProcess, Same, Goto, own
<1> QED BY <1>1, <1>2, <1>3, <1>4, <1>5, <1>6, <1>7, <1>8, <1>9, <1>10, <1>11, <1>12, <1>13, <1>14, <1>15, <1>16,
           Zenon DEF Act

LEMMA OthersKeep ==
  ASSUME NEW q, ProcessInv(q), Same(q)
  PROVE  ProcessInv(q)'
<1> USE DEF Same
<1>1. ReadInv(q)' /\ ServerInv(q)' /\ TargetInv(q)'
  BY DEF ProcessInv, ReadInv, ServerInv, TargetInv, Chosen
<1>2. Selected(q)' = Selected(q) /\ SelectedName(q)' = SelectedName(q)
  BY DEF Selected, SelectedName
<1>3. MethodInv(q)'
  BY <1>2 DEF ProcessInv, MethodInv
<1>4. ConfigInv(q)' /\ OfferInv(q)'
  BY DEF ProcessInv, ConfigInv, OfferInv, HasPassword
<1> QED BY <1>1, <1>3, <1>4 DEF ProcessInv

(* What a host argument means is a server, or several to choose from.      *)
LEMMA MatchFacts ==
  ASSUME NEW known, NEW arg
  PROVE  /\ EnsureSearchHost(known, arg).host \subseteq DOMAIN known
         /\ EnsureSearchHost(known, arg).search \subseteq DOMAIN known
<1>1. ASSUME NEW m
      PROVE  Match(known, m) \subseteq DOMAIN known
  <2> DEFINE found == [i \in 1..3 |-> matchesFn(known, m[i])]
             single == {i \in 1..3 : Cardinality(found[i]) = 1}
  <2>1. \A i \in 1..3 : found[i] \subseteq DOMAIN known
    BY DEF matchesFn
  <2>2. Match(known, m) = IF single = {} THEN found[1] \cup found[2] \cup found[3]
                          ELSE found[CHOOSE i \in single : \A j \in single : i <= j]
    BY DEF Match
  <2>3. single \subseteq 1..3
    OBVIOUS
  <2> HIDE DEF found, single
  <2>4. CASE single = {}
    BY <2>1, <2>2, <2>4
  <2>5. CASE single # {}
    <3>1. \E i \in single : \A j \in single : i <= j
      <4>1. CASE 1 \in single
        BY <2>3, <4>1
      <4>2. CASE 1 \notin single /\ 2 \in single
        BY <2>3, <4>2
      <4>3. CASE 1 \notin single /\ 2 \notin single
        <5>1. \A j \in single : j = 3
          BY <2>3, <4>3
        <5>2. 3 \in single
          BY <2>5, <5>1
        <5> QED BY <5>1, <5>2
      <4> QED BY <4>1, <4>2, <4>3
    <3>2. (CHOOSE i \in single : \A j \in single : i <= j) \in single
      BY <3>1
    <3> QED BY <2>1, <2>2, <2>3, <2>5, <3>2
  <2> QED BY <2>4, <2>5
<1>2. PICK glob, contains : glob = Match(known, arg.glob) /\ contains = Match(known, arg.contains)
  OBVIOUS
<1>3. glob \subseteq DOMAIN known /\ contains \subseteq DOMAIN known
  BY <1>1, <1>2
<1>4. EnsureSearchHost(known, arg) =
        IF Cardinality(glob) = 1 THEN [host |-> glob, search |-> {}]
        ELSE IF Cardinality(contains) = 1 THEN [host |-> contains, search |-> {}]
        ELSE [host |-> {}, search |-> IF glob \cup contains = {} THEN DOMAIN known ELSE glob \cup contains]
  BY <1>2 DEF EnsureSearchHost
<1> QED BY <1>3, <1>4

LEMMA NamesFacts ==
  ASSUME NEW p, NEW arg
  PROVE  Names(p, arg).host \subseteq DOMAIN server[p] /\ Names(p, arg).search \subseteq DOMAIN server[p]
<1>1. CASE arg.kind = "name" /\ arg.name \in DOMAIN server[p]
  BY <1>1 DEF Names
<1>2. CASE ~(arg.kind = "name" /\ arg.name \in DOMAIN server[p]) /\ arg.kind = "pattern"
  <2>1. Names(p, arg) = EnsureSearchHost(server[p], arg)
    BY <1>2 DEF Names
  <2> QED BY <2>1, MatchFacts
<1>3. CASE ~(arg.kind = "name" /\ arg.name \in DOMAIN server[p]) /\ arg.kind # "pattern"
  BY <1>3 DEF Names
<1> QED BY <1>1, <1>2, <1>3

(* Neither no file nor half a file is a file.                              *)
LEMMA NotSpoilt ==
  ASSUME NEW f, Safe(f)
  PROVE  f # Mixed /\ f # Torn /\ f # NoFile
<1>1. f.state = "whole" /\ Mixed.state = "mixed" /\ Torn.state = "torn" /\ NoFile.state = "none"
  BY DEF Safe, IsFile, Mixed, Torn, NoFile
<1> QED BY <1>1

(* What is read is a file; answers go into a file as passwords do.         *)
LEMMA ContentFacts ==
  ASSUME DiskInv
  PROVE  Content = Mixed \/ Safe(Content)
BY EmptyFacts DEF DiskInv, Content

LEMMA NewContent ==
  ASSUME DiskInv, NEW line, NEW answer \in Answers, AnswerFile(Content, line, answer) # Content
  PROVE  Safe(AnswerFile(Content, line, answer))
<1>1. CASE Content = Mixed
  <2>1. Content.state = "mixed"
    BY <1>1 DEF Mixed
  <2> QED BY <2>1 DEF AnswerFile
<1>2. CASE Safe(Content)
  BY <1>2, AnsweredFile
<1> QED BY <1>1, <1>2, ContentFacts

LEMMA RewrittenContent ==
  ASSUME DiskInv, NEW pwds, "" \notin pwds, NEW new \in Rewritten(Content, pwds)
  PROVE  new = Mixed \/ Safe(new)
<1>1. CASE Content = Mixed
  <2>1. Content.state = "mixed"
    BY <1>1 DEF Mixed
  <2> QED BY <1>1, <2>1 DEF Rewritten, EncryptFile
<1>2. CASE Safe(Content)
  BY <1>2, RewrittenFile
<1> QED BY <1>1, <1>2, ContentFacts

(* A saved address is a line of the .hosts file.                           *)
LEMMA LineFacts ==
  ASSUME NEW a \in Addresses, NEW c, IsConfig(c), c.id = AutoID(a), NEW passphrase
  PROVE  Line(a, c, passphrase) \in HostLine /\ Line(a, c, passphrase).id = AutoID(a)
<1>1. a.user \in Words /\ a.pass \in Words /\ a.addr \in Words
  BY LoginAssumption DEF LoginAssumption, Direct
<1>2. AutoID(a) \in Seq(Words)
  <2>1. "xx" \in Words
    BY DEF Words
  <2> QED BY <1>1, <2>1 DEF AutoID
<1>3. PICK pass : pass = c.text["pass"].word
  OBVIOUS
<1>4. pass \in Words
  BY <1>3 DEF IsConfig, Text, TextFields
<1>5. PICK user : user = IF passphrase /\ a.user = pass /\ pass # "" THEN PbeEncode(a.user) ELSE Plain(a.user)
  OBVIOUS
<1>6. PICK kept : kept = IF pass = "" THEN Empty ELSE IF passphrase THEN PbeEncode(pass) ELSE Plain(a.pass)
  OBVIOUS
<1>7. user \in Text
  <2>1. Plain(a.user) \in Text
    BY <1>1, PlainText
  <2>2. pass # "" => PbeEncode(pass) \in Text
    BY <1>4, PbeText
  <2> QED BY <1>5, <2>1, <2>2
<1>8. kept \in Text
  <2>1. Plain(a.pass) \in Text
    BY <1>1, PlainText
  <2>2. pass # "" => PbeEncode(pass) \in Text
    BY <1>4, PbeText
  <2> QED BY <1>6, <2>1, <2>2, NoSectionType
<1>9. Line(a, c, passphrase) = [user |-> user, addr |-> a.addr, id |-> c.id, line |-> "", pass |-> kept]
  BY <1>3, <1>5, <1>6 DEF Line
<1>10. "" \in Words
  BY DEF Words
<1>11. c.id \in Seq(Words)
  BY <1>2
<1>12. PICK l : l = [user |-> user, addr |-> a.addr, id |-> c.id, line |-> "", pass |-> kept]
  OBVIOUS
<1>13. l \in HostLine /\ l.id = c.id
  BY <1>1, <1>7, <1>8, <1>10, <1>11, <1>12 DEF HostLine
<1> QED BY <1>9, <1>12, <1>13

LEMMA DiskStep ==
  ASSUME LoginInv, NEW p \in Procs, Act(p)
  PROVE  DiskInv'
<1>1. DiskInv /\ ProcessInv(p)
  BY DEF LoginInv
<1>2. CASE UNCHANGED <<conf, lines, original, answered>>
  BY <1>1, <1>2 DEF DiskInv
<1>3. CASE CreateConf(p)
  <2>1. Safe(FirstConf)
    <3>1. FirstConf # Mixed
      <4>1. Mixed.state = "mixed"
        BY DEF Mixed
      <4> QED BY <4>1, LoginAssumption DEF LoginAssumption, IsFile
    <3> QED BY <3>1, LoginAssumption DEF LoginAssumption, Safe
  <2>2. conf' = FirstConf /\ original' = FirstConf /\ lines' = lines /\ answered' = answered
    BY <1>3 DEF CreateConf
  <2> QED BY <1>1, <2>1, <2>2, NotSpoilt DEF DiskInv
<1>4. ASSUME NEW a \in Answers, Ask(p, a)
      PROVE  DiskInv'
  <2>1. answered' = answered \cup {<<Selected(p).raw, a>>} /\ conf' = conf /\ lines' = lines /\ original' = original
    BY <1>4 DEF Ask, disk
  <2> QED BY <1>1, <2>1 DEF DiskInv
<1>5. CASE Truncate(p)
  <2>1. NoFile.state = "none" /\ Torn.state = "torn"
    BY DEF NoFile, Torn
  <2> QED BY <1>1, <1>5, <2>1 DEF DiskInv, Truncate
<1>6. CASE Write(p)
  <2>1. conf' \in {file[p], Mixed} /\ UNCHANGED <<lines, original, answered>>
    BY <1>6 DEF Write, history
  <2>2. NoFile.state = "none" /\ Mixed.state = "mixed"
    BY DEF NoFile, Mixed
  <2> QED BY <1>1, <2>1, <2>2, NotSpoilt DEF DiskInv, ProcessInv, ReadInv
<1>7. CASE WriteTempHosts(p)
  <2>1. conf' = conf /\ original' = original /\ answered' = answered
    BY <1>7 DEF WriteTempHosts, history
  <2>2. target[p][1] \in Addresses /\ IsConfig(config[p]) /\ config[p].id = AutoID(target[p][1])
    BY <1>1, <1>7 DEF WriteTempHosts, ProcessInv, TargetInv, ConfigInv, Chosen
  <2>3. lines' = lines \/ lines' = Append(lines, Line(target[p][1], config[p], pbe[p]))
    BY <1>7 DEF WriteTempHosts
  <2>4. Line(target[p][1], config[p], pbe[p]) \in HostLine
    BY <2>2, LineFacts
  <2>5. lines' \in Seq(HostLine)
    BY <1>1, <2>3, <2>4 DEF DiskInv
  <2> QED BY <1>1, <2>1, <2>5 DEF DiskInv
<1>8. \/ UNCHANGED <<conf, lines, original, answered>> \/ CreateConf(p) \/ Truncate(p) \/ Write(p)
      \/ WriteTempHosts(p) \/ \E a \in Answers : Ask(p, a)
  BY DEF Act, disk, history, Launch, Load, Broken, Expand, Choose, Collect, Encrypt, getServerConfig, HandOver, Dial,
         Exit, Killed
<1> QED BY <1>2, <1>3, <1>4, <1>5, <1>6, <1>7, <1>8

(* What a process reads and what it prepares to write are files.           *)
LEMMA ReadStep ==
  ASSUME LoginInv, NEW p \in Procs, Act(p)
  PROVE  (ReadInv(p) /\ ServerInv(p))'
<1>1. PerProcess /\ DiskInv /\ ReadInv(p) /\ ServerInv(p)
  BY DEF LoginInv, ProcessInv
<1>2. CASE /\ cli'[p] = cli[p] /\ loaded'[p] = loaded[p] /\ server'[p] = server[p]
           /\ file'[p] = file[p] /\ decoded'[p] = decoded[p]
  BY <1>1, <1>2 DEF ReadInv, ServerInv
<1>3. ASSUME NEW args \in ArgLists, Launch(p, args)
      PROVE  (ReadInv(p) /\ ServerInv(p))'
  <2>1. cli' = Set(cli, p, Typed(args)) /\ UNCHANGED <<loaded, server, file, decoded>>
    BY <1>3 DEF Launch
  <2>2. cli'[p] = Typed(args)
    BY <1>1, <2>1, SetFacts DEF PerProcess
  <2> QED BY <1>1, <2>1, <2>2 DEF ReadInv, ServerInv
<1>4. CASE Load(p)
  <2>1. PICK L : L = {lines[i] : i \in DOMAIN lines}
    OBVIOUS
  <2>2. L \subseteq HostLine
    BY <1>1, <2>1 DEF DiskInv
  <2>3. Safe(Content)
    <3>1. conf = Torn \/ Safe(conf)
      BY <1>1, <1>4 DEF Load, DiskInv
    <3> QED BY <3>1, EmptyFacts DEF Content
  <2>4. /\ loaded' = Set(loaded, p, L) /\ file' = Set(file, p, Content)
        /\ server' = Set(server, p, ReadConf(Content, L)) /\ UNCHANGED <<cli, decoded>>
    BY <1>4, <2>1 DEF Load
  <2>5. loaded'[p] = L /\ file'[p] = Content /\ server'[p] = ReadConf(Content, L)
    BY <1>1, <2>4, SetFacts DEF PerProcess
  <2>6. /\ AreConfigs(server'[p])
        /\ \A a \in Addresses : AutoID(a) \in {l.id : l \in L} => AutoID(a) \in DOMAIN server'[p]
    BY <2>2, <2>3, <2>5, ReadFacts
  <2> QED BY <1>1, <2>2, <2>3, <2>4, <2>5, <2>6 DEF ReadInv, ServerInv, AreConfigs
<1>5. CASE Collect(p)
  <2>1. PICK pwds : pwds = registerAutoEncryptPwd(file[p], Selected(p).text["pass"])
    OBVIOUS
  <2>2. "" \notin pwds
    BY <2>1 DEF registerAutoEncryptPwd
  <2>3. decoded' = Set(decoded, p, pwds) /\ UNCHANGED <<cli, loaded, server, file>>
    BY <1>5, <2>1 DEF Collect
  <2>4. decoded'[p] = pwds
    BY <1>1, <2>3, SetFacts DEF PerProcess
  <2> QED BY <1>1, <2>2, <2>3, <2>4 DEF ReadInv, ServerInv
<1>6. ASSUME NEW a \in Answers, Ask(p, a)
      PROVE  (ReadInv(p) /\ ServerInv(p))'
  <2>1. PICK new : new = IF pbe[p] THEN AnswerFile(Content, Selected(p).raw, a) ELSE Content
    OBVIOUS
  <2>2. (file' = Set(file, p, new) /\ new # Content) \/ file' = file
    BY <1>6, <2>1 DEF Ask
  <2>3. new # Content => Safe(new)
    <3>1. new # Content => new = AnswerFile(Content, Selected(p).raw, a)
      BY <2>1
    <3> QED BY <1>1, <3>1, NewContent
  <2>4. file'[p] = Mixed \/ Safe(file'[p])
    <3>1. file[p] = Mixed \/ Safe(file[p])
      BY <1>1 DEF ReadInv
    <3>2. file' = Set(file, p, new) => file'[p] = new
      BY <1>1, SetFacts DEF PerProcess
    <3>3. CASE file' = Set(file, p, new) /\ new # Content
      BY <2>3, <3>2, <3>3
    <3>4. CASE file' = file
      BY <3>1, <3>4
    <3> QED BY <2>2, <3>3, <3>4
  <2>5. UNCHANGED <<cli, loaded, server, decoded>>
    BY <1>6 DEF Ask
  <2> QED BY <1>1, <2>4, <2>5 DEF ReadInv, ServerInv
<1>7. CASE Encrypt(p)
  <2>1. PICK new \in IF pbe[p] THEN Rewritten(Content, decoded[p]) ELSE {Content} :
          (file' = Set(file, p, new) /\ new # Content) \/ file' = file
    BY <1>7 DEF Encrypt
  <2>2. (file' = Set(file, p, new) /\ new # Content) \/ file' = file
    BY <2>1
  <2>3. new # Content => new = Mixed \/ Safe(new)
    <3>1. new # Content => new \in Rewritten(Content, decoded[p])
      BY <2>1
    <3> QED BY <1>1, <3>1, RewrittenContent DEF ReadInv
  <2>4. file'[p] = Mixed \/ Safe(file'[p])
    <3>1. file[p] = Mixed \/ Safe(file[p])
      BY <1>1 DEF ReadInv
    <3>2. file' = Set(file, p, new) => file'[p] = new
      BY <1>1, SetFacts DEF PerProcess
    <3>3. CASE file' = Set(file, p, new) /\ new # Content
      BY <2>3, <3>2, <3>3
    <3>4. CASE file' = file
      BY <3>1, <3>4
    <3> QED BY <2>2, <3>3, <3>4
  <2>5. UNCHANGED <<cli, loaded, server>> /\ decoded' = Set(decoded, p, {})
    BY <1>7 DEF Encrypt
  <2>6. decoded'[p] = {}
    BY <1>1, <2>5, SetFacts DEF PerProcess
  <2> QED BY <1>1, <2>4, <2>5, <2>6 DEF ReadInv, ServerInv
<1>8. CASE Exit(p) \/ Killed(p)
  <2>1. Reset(p)
    BY <1>8 DEF Exit, Killed
  <2>2. /\ cli' = Set(cli, p, Typed(<<>>)) /\ server' = Set(server, p, NoServer) /\ loaded' = Set(loaded, p, {})
        /\ decoded' = Set(decoded, p, {}) /\ file' = Set(file, p, EmptyFile)
    BY <2>1, Zenon DEF Reset
  <2>3. /\ cli'[p] = Typed(<<>>) /\ server'[p] = NoServer /\ loaded'[p] = {} /\ decoded'[p] = {}
        /\ file'[p] = EmptyFile
    BY <1>1, <2>2, SetFacts DEF PerProcess
  <2>4. DOMAIN NoServer = {}
    BY DEF NoServer
  <2> QED BY <2>3, <2>4, EmptyFacts DEF ReadInv, ServerInv
<1>9. CASE UNCHANGED <<cli, loaded, server, file, decoded>>
  BY <1>2, <1>9
<1>10. \/ UNCHANGED <<cli, loaded, server, file, decoded>> \/ (\E args \in ArgLists : Launch(p, args)) \/ Load(p)
       \/ Collect(p) \/ (\E a \in Answers : Ask(p, a)) \/ Encrypt(p) \/ Exit(p) \/ Killed(p)
  BY DEF Act, own, CreateConf, Broken, Expand, Choose, Truncate, Write, getServerConfig, HandOver, Dial, WriteTempHosts
<1> QED BY <1>3, <1>4, <1>5, <1>6, <1>7, <1>8, <1>9, <1>10

(* The server of a process is one it read, or an address.                  *)
LEMMA TargetStep ==
  ASSUME LoginInv, NEW p \in Procs, Act(p)
  PROVE  (TargetInv(p) /\ MethodInv(p))'
<1>1. PerProcess /\ ReadInv(p) /\ TargetInv(p) /\ MethodInv(p)
  BY DEF LoginInv, ProcessInv
<1>2. \A v : pc' = Set(pc, p, v) => pc'[p] = v
  BY <1>1, SetFacts DEF PerProcess
<1>3. CASE pc'[p] \notin Chosen
  BY <1>3 DEF TargetInv, MethodInv, Chosen
<1>4. ASSUME UNCHANGED <<target, server>>, pc[p] \in Chosen
      PROVE  TargetInv(p)' /\ Selected(p)' = Selected(p) /\ SelectedName(p)' = SelectedName(p)
  BY <1>1, <1>4 DEF TargetInv, Selected, SelectedName
<1>5. ASSUME UNCHANGED <<target, server, methods>>, pc[p] \in {"encrypt", "truncate", "write", "config"}
      PROVE  (TargetInv(p) /\ MethodInv(p))'
  <2>1. TargetInv(p)' /\ Selected(p)' = Selected(p) /\ SelectedName(p)' = SelectedName(p)
    BY <1>4, <1>5 DEF Chosen
  <2> QED BY <1>1, <1>5, <2>1 DEF MethodInv
<1>6. CASE Expand(p)
  <2>1. PICK arg : arg = HostArg[cli[p].hosts[1]]
    OBVIOUS
  <2>2. cli[p].hosts # <<>> => cli[p].hosts[1] \in DOMAIN HostArg
    BY <1>1, LoginAssumption DEF ReadInv, LoginAssumption
  <2>3. arg.kind = "direct" => arg \in Addresses
    BY <1>6, <2>1, <2>2 DEF Expand, Addresses
  <2>4. /\ \/ arg.kind = "direct" /\ target' = Set(target, p, <<arg>>)
           \/ \E n \in Names(p, arg).host : target' = Set(target, p, <<[kind |-> "name", name |-> n]>>)
        /\ pc' = Set(pc, p, "auth") /\ server' = server
    BY <1>6, <2>1 DEF Expand, Goto
  <2>5. \A v : target' = Set(target, p, v) => target'[p] = v
    BY <1>1, SetFacts DEF PerProcess
  <2>6. \/ target'[p] = <<arg>> /\ arg \in Addresses
        \/ \E n \in DOMAIN server[p] : target'[p] = <<[kind |-> "name", name |-> n]>>
    BY <2>3, <2>4, <2>5, NamesFacts
  <2>7. pc'[p] = "auth" /\ server' = server
    BY <1>2, <2>4
  <2>8. CASE target'[p] = <<arg>> /\ arg \in Addresses
    BY <2>7, <2>8 DEF TargetInv, MethodInv
  <2>9. ASSUME NEW n \in DOMAIN server[p], target'[p] = <<[kind |-> "name", name |-> n]>>
        PROVE  (TargetInv(p) /\ MethodInv(p))'
    BY <2>7, <2>9 DEF TargetInv, MethodInv
  <2> QED BY <2>6, <2>8, <2>9
<1>7. CASE Choose(p)
  <2>1. PICK shown : shown = IF cli[p].hosts = <<>> THEN DOMAIN server[p] ELSE Names(p, HostArg[cli[p].hosts[1]]).search
    OBVIOUS
  <2>2. shown \subseteq DOMAIN server[p]
    BY <2>1, NamesFacts
  <2>3. /\ \E n \in shown : target' = Set(target, p, <<[kind |-> "name", name |-> n]>>)
        /\ pc' = Set(pc, p, "auth") /\ server' = server
    BY <1>7, <2>1 DEF Choose, Goto
  <2>4. PICK n \in shown : target' = Set(target, p, <<[kind |-> "name", name |-> n]>>)
    BY <2>3
  <2>5. target'[p] = <<[kind |-> "name", name |-> n]>>
    BY <1>1, <2>4, SetFacts DEF PerProcess
  <2> QED BY <1>2, <2>2, <2>3, <2>5 DEF TargetInv, MethodInv
<1>8. CASE Collect(p)
  <2>1. PICK m : /\ m = PasswordMethods(SelectedName(p), Selected(p)) \cup KeyMethods(Selected(p))
                 /\ methods' = Set(methods, p, m)
    BY <1>8 DEF Collect
  <2>2. methods'[p] = m
    BY <1>1, <2>1, SetFacts DEF PerProcess
  <2>3. UNCHANGED <<target, server>> /\ pc[p] = "auth"
    BY <1>8 DEF Collect
  <2>4. TargetInv(p)' /\ Selected(p)' = Selected(p) /\ SelectedName(p)' = SelectedName(p)
    BY <1>4, <2>3 DEF Chosen
  <2>5. PasswordMethods(SelectedName(p)', Selected(p)') \subseteq methods'[p]
    BY <2>1, <2>2, <2>4
  <2> QED BY <2>4, <2>5 DEF MethodInv
<1>9. ASSUME NEW a, Ask(p, a)
      PROVE  (TargetInv(p) /\ MethodInv(p))'
  <2>1. UNCHANGED <<target, server>> /\ pc[p] = "auth" /\ Selected(p).text["pass"] = Prompt
    BY <1>9 DEF Ask
  <2>2. TargetInv(p)' /\ Selected(p)' = Selected(p)
    BY <1>4, <2>1 DEF Chosen
  <2> QED BY <2>1, <2>2 DEF MethodInv
<1>10. CASE Encrypt(p)
  BY <1>5, <1>10 DEF Encrypt
<1>11. CASE Truncate(p)
  BY <1>5, <1>11 DEF Truncate, own
<1>12. CASE Write(p)
  BY <1>5, <1>12 DEF Write, own
<1>13. CASE getServerConfig(p)
  <2>1. UNCHANGED <<target, server>> /\ pc[p] = "config" /\ pc' = Set(pc, p, "dial")
    BY <1>13 DEF getServerConfig, Goto
  <2>2. TargetInv(p)'
    BY <1>4, <2>1 DEF Chosen
  <2> QED BY <1>2, <2>1, <2>2 DEF MethodInv
<1>14. CASE Dial(p)
  <2>1. UNCHANGED <<target, server>> /\ pc[p] = "dial" /\ pc'[p] \in {"save", "over"}
    BY <1>2, <1>14 DEF Dial, Goto, own
  <2>2. TargetInv(p)'
    BY <1>4, <2>1 DEF Chosen
  <2> QED BY <2>1, <2>2 DEF MethodInv
<1>15. \/ pc'[p] \notin Chosen \/ Expand(p) \/ Choose(p) \/ Collect(p) \/ (\E a \in Answers : Ask(p, a)) \/ Encrypt(p)
       \/ Truncate(p) \/ Write(p) \/ getServerConfig(p) \/ Dial(p)
  <2>1. /\ (\E args \in ArgLists : Launch(p, args)) => pc'[p] = "read"
        /\ CreateConf(p) \/ Broken(p) \/ HandOver(p) \/ WriteTempHosts(p) => pc'[p] = "over"
        /\ Exit(p) \/ Killed(p) => pc'[p] = "off"
    BY <1>2 DEF Launch, CreateConf, Broken, HandOver, WriteTempHosts, Exit, Killed, Reset, Goto
  <2>2. Load(p) => pc'[p] \in {"over", "select"}
    BY <1>2 DEF Load, Goto
  <2> QED BY <2>1, <2>2 DEF Act, Chosen
<1> QED BY <1>3, <1>6, <1>7, <1>8, <1>9, <1>10, <1>11, <1>12, <1>13, <1>14, <1>15

(* The configuration of an address, and one with a typed password.         *)
LEMMA DirectFacts ==
  ASSUME NEW a \in Addresses
  PROVE  IsConfig(DirectConf(a)) /\ DirectConf(a).id = AutoID(a) /\ a.kind = "direct"
<1>1. a \in Direct
  BY LoginAssumption DEF LoginAssumption
<1>2. Plain(a.user) \in Text /\ Plain(a.pass) \in Text
  BY <1>1, PlainText DEF Direct
<1>3. PICK c : c = FromSection(NoSection, AutoID(a))
  OBVIOUS
<1>4. IsConfig(c) /\ c.id = AutoID(a)
  BY <1>3, NoSectionType, SectionConfig DEF FromSection
<1>5. PICK text : text = [c.text EXCEPT !["user"] = Plain(a.user), !["pass"] = Plain(a.pass)]
  OBVIOUS
<1>6. text \in [TextFields -> Text]
  BY <1>2, <1>4, <1>5 DEF IsConfig
<1>7. DirectConf(a) = [c EXCEPT !.text = text, !.direct = TRUE]
  BY <1>3, <1>4, <1>5 DEF DirectConf, IsConfig
<1>8. IsConfig(DirectConf(a)) /\ DirectConf(a).id = AutoID(a)
  BY <1>4, <1>6, <1>7 DEF IsConfig
<1> QED BY <1>1, <1>8 DEF Direct

LEMMA TypedFacts ==
  ASSUME NEW c, IsConfig(c), NEW t \in Text
  PROVE  LET d == [c EXCEPT !.text["pass"] = t]
         IN IsConfig(d) /\ d.id = c.id /\ d.direct = c.direct /\ d.text["pass"] = t
<1>1. PICK text : text = [c.text EXCEPT !["pass"] = t]
  OBVIOUS
<1>2. text \in [TextFields -> Text] /\ text["pass"] = t
  BY <1>1 DEF IsConfig, TextFields
<1>3. PICK d : d = [c EXCEPT !.text["pass"] = t]
  OBVIOUS
<1>4. d = [c EXCEPT !.text = text]
  BY <1>1, <1>3 DEF IsConfig
<1>5. IsConfig(d) /\ d.id = c.id /\ d.direct = c.direct /\ d.text["pass"] = t
  BY <1>2, <1>4 DEF IsConfig
<1> QED BY <1>3, <1>5

LEMMA EmptyWord ==
  ASSUME NEW t \in Text, t # Empty
  PROVE  t.word # ""
<1>1. SUFFICES ASSUME t.word = ""
               PROVE  FALSE
  OBVIOUS
<1>2. t \in [word : Words, pbe : BOOLEAN] /\ ~t.pbe
  BY <1>1 DEF Text
<1>3. t = [word |-> t.word, pbe |-> t.pbe]
  BY <1>2
<1>4. t.pbe = FALSE
  BY <1>2
<1> QED BY <1>1, <1>3, <1>4 DEF Empty, Plain

(* getServerConfig: what is known of the server, and its password.         *)
LEMMA GivenFacts ==
  ASSUME LoginInv, NEW p \in Procs, pc[p] = "config"
  PROVE  LET g == Given(p)
         IN /\ IsConfig(g)
            /\ g.direct => /\ target[p][1].kind = "direct"
                           /\ g.id = AutoID(target[p][1]) /\ g.id \notin DOMAIN server[p]
            /\ (/\ g.text["pass"] \notin {Empty, Prompt}
                /\ target[p][1].kind = "name" => target[p][1].name = g.id)
               => \/ <<g.id, g.text["pass"].word>> \in methods[p]
                  \/ <<g.id, g.text["pass"].word>> \in ForID(p, g)
<1>1. ServerInv(p) /\ TargetInv(p) /\ MethodInv(p)
  BY DEF LoginInv, ProcessInv
<1>2. PICK t, g : t = target[p][1] /\ g = Given(p)
  OBVIOUS
<1>3. (t.kind = "name" /\ t.name \in DOMAIN server[p]) \/ t \in Addresses
  BY <1>1, <1>2 DEF TargetInv, Chosen
<1>4. CASE t.kind = "name" /\ t.name \in DOMAIN server[p]
  <2>1. g = Selected(p) /\ g = server[p][t.name] /\ SelectedName(p) = t.name
    BY <1>2, <1>4 DEF Given, Selected, SelectedName
  <2>2. IsConfig(g) /\ ~g.direct
    BY <1>1, <1>4, <2>1 DEF ServerInv
  <2>3. g.text["pass"] = Prompt \/ PasswordMethods(t.name, g) \subseteq methods[p]
    BY <1>1, <2>1 DEF MethodInv
  <2>4. g.text["pass"] # Empty => g.text["pass"].word # ""
    BY <2>2, EmptyWord DEF IsConfig, TextFields
  <2>5. g.text["pass"] \notin {Empty, Prompt} => <<t.name, g.text["pass"].word>> \in methods[p]
    BY <2>3, <2>4 DEF PasswordMethods
  <2> QED BY <1>2, <1>4, <2>2, <2>5
<1>5. CASE t \in Addresses
  <2>1. t.kind = "direct" /\ IsConfig(DirectConf(t)) /\ DirectConf(t).id = AutoID(t)
    BY <1>5, DirectFacts
  <2>2. g = IF AutoID(t) \in DOMAIN server[p] THEN server[p][AutoID(t)] ELSE DirectConf(t)
    BY <1>2, <2>1 DEF Given
  <2>3. IsConfig(g) /\ (g.direct => g.id = AutoID(t) /\ g.id \notin DOMAIN server[p])
    BY <1>1, <2>1, <2>2 DEF ServerInv
  <2>4. g.text["pass"] # Empty => g.text["pass"].word # ""
    BY <2>3, EmptyWord DEF IsConfig, TextFields
  <2>5. g.text["pass"] # Empty => <<g.id, g.text["pass"].word>> \in ForID(p, g)
    BY <1>2, <2>1, <2>4 DEF ForID, PasswordMethods
  <2> QED BY <1>2, <2>1, <2>3, <2>5
<1> QED BY <1>3, <1>4, <1>5

LEMMA ConfigStep ==
  ASSUME LoginInv, NEW p \in Procs, Act(p)
  PROVE  (ConfigInv(p) /\ OfferInv(p))'
<1>1. PerProcess /\ ConfigInv(p) /\ OfferInv(p)
  BY DEF LoginInv, ProcessInv
<1>2. \A v : pc' = Set(pc, p, v) => pc'[p] = v
  BY <1>1, SetFacts DEF PerProcess
<1>3. CASE pc'[p] \notin {"dial", "save"}
  BY <1>3 DEF ConfigInv, OfferInv
<1>4. CASE getServerConfig(p)
  <2>1. PICK g : g = Given(p)
    OBVIOUS
  <2>2. PICK c, m : /\ config' = Set(config, p, c) /\ methods' = Set(methods, p, m)
                    /\ \/ c = g /\ m = ForID(p, g) \cup methods[p]
                       \/ ForID(p, g) = {} /\ c = [g EXCEPT !.text["pass"] = @] /\ m = methods[p]
                       \/ \E answer \in Answers : /\ c = [g EXCEPT !.text["pass"] = Plain(answer)]
                                                  /\ m = methods[p] \cup {<<g.id, answer>>}
    <3>1. \/ NoKey(p)
          \/ ForID(p, g) = {} /\ AskPassword(p)
      BY <1>4, <2>1, Zenon DEF getServerConfig
    <3>2. CASE NoKey(p)
      BY <2>1, <3>2 DEF NoKey
    <3>3. CASE ForID(p, g) = {} /\ AskPassword(p)
      <4>1. PICK answer \in Answers \cup {""} :
              /\ methods' = Set(methods, p, methods[p] \cup (IF answer = "" THEN {} ELSE {<<g.id, answer>>}))
              /\ config' = Set(config, p, [g EXCEPT !.text["pass"] = IF answer = "" THEN @ ELSE Plain(answer)])
        BY <2>1, <3>3 DEF AskPassword
      <4>2. CASE answer = ""
        <5>1. methods[p] \cup {} = methods[p]
          OBVIOUS
        <5> QED BY <3>3, <4>1, <4>2, <5>1, Zenon
      <4>3. CASE answer # ""
        BY <4>1, <4>3
      <4> QED BY <4>2, <4>3
    <3> QED BY <3>1, <3>2, <3>3
  <2>3. pc'[p] = "dial" /\ target' = target /\ server' = server
    BY <1>2, <1>4 DEF getServerConfig, Goto
  <2>4. config'[p] = c /\ methods'[p] = m
    BY <1>1, <2>2, SetFacts DEF PerProcess
  <2>5. /\ IsConfig(g)
        /\ g.direct => /\ target[p][1].kind = "direct"
                       /\ g.id = AutoID(target[p][1]) /\ g.id \notin DOMAIN server[p]
        /\ (/\ g.text["pass"] \notin {Empty, Prompt}
            /\ target[p][1].kind = "name" => target[p][1].name = g.id)
           => <<g.id, g.text["pass"].word>> \in methods[p] \/ <<g.id, g.text["pass"].word>> \in ForID(p, g)
    BY <1>4, <2>1, GivenFacts DEF getServerConfig
  <2>6. IsConfig(c) /\ c.id = g.id /\ c.direct = g.direct
    <3>1. CASE c = g
      BY <2>5, <3>1
    <3>2. CASE c = [g EXCEPT !.text["pass"] = @]
      <4>1. g.text["pass"] \in Text
        BY <2>5 DEF IsConfig, TextFields
      <4>2. c = [g EXCEPT !.text["pass"] = g.text["pass"]]
        BY <2>5, <3>2 DEF IsConfig
      <4> QED BY <2>5, <4>1, <4>2, TypedFacts
    <3>3. ASSUME NEW answer \in Answers, c = [g EXCEPT !.text["pass"] = Plain(answer)]
          PROVE  IsConfig(c) /\ c.id = g.id /\ c.direct = g.direct
      <4>1. Plain(answer) \in Text
        BY PlainText, LoginAssumption DEF LoginAssumption
      <4> QED BY <2>5, <3>3, <4>1, TypedFacts
    <3> QED BY <2>2, <3>1, <3>2, <3>3
  <2>7. (/\ c.text["pass"] \notin {Empty, Prompt}
         /\ target[p][1].kind = "name" => target[p][1].name = c.id)
        => <<c.id, c.text["pass"].word>> \in m
    <3>1. CASE c = g /\ m = ForID(p, g) \cup methods[p]
      BY <2>5, <3>1
    <3>2. CASE ForID(p, g) = {} /\ c = [g EXCEPT !.text["pass"] = @] /\ m = methods[p]
      <4>1. g.text["pass"] \in Text
        BY <2>5 DEF IsConfig, TextFields
      <4>2. c = [g EXCEPT !.text["pass"] = g.text["pass"]]
        BY <2>5, <3>2 DEF IsConfig
      <4>3. c.text["pass"] = g.text["pass"]
        BY <2>5, <4>1, <4>2, TypedFacts
      <4> QED BY <2>5, <2>6, <3>2, <4>3
    <3>3. ASSUME NEW answer \in Answers, c = [g EXCEPT !.text["pass"] = Plain(answer)], <<g.id, answer>> \in m
          PROVE  <<c.id, c.text["pass"].word>> \in m
      <4>1. Plain(answer) \in Text /\ Plain(answer).word = answer
        BY PlainText, LoginAssumption DEF LoginAssumption
      <4>2. c.text["pass"] = Plain(answer)
        BY <2>5, <3>3, <4>1, TypedFacts
      <4> QED BY <2>6, <3>3, <4>1, <4>2
    <3> QED BY <2>2, <3>1, <3>2, <3>3
  <2>8. ConfigInv(p)'
    BY <2>3, <2>4, <2>5, <2>6 DEF ConfigInv
  <2>9. OfferInv(p)'
    BY <2>3, <2>4, <2>7 DEF OfferInv, HasPassword
  <2> QED BY <2>8, <2>9
<1>5. CASE Dial(p)
  <2>1. pc[p] = "dial" /\ pc'[p] = (IF config[p].direct THEN "save" ELSE "over") /\ UNCHANGED <<target, server, config>>
    BY <1>2, <1>5 DEF Dial, Goto, own
  <2> QED BY <1>1, <2>1 DEF ConfigInv, OfferInv
<1>6. pc'[p] \notin {"dial", "save"} \/ getServerConfig(p) \/ Dial(p)
  <2>1. /\ (\E args \in ArgLists : Launch(p, args)) => pc'[p] = "read"
        /\ CreateConf(p) \/ Broken(p) \/ HandOver(p) \/ WriteTempHosts(p) => pc'[p] = "over"
        /\ Expand(p) \/ Choose(p) => pc'[p] = "auth"
        /\ Collect(p) => pc'[p] = "encrypt"
        /\ Truncate(p) => pc'[p] = "write"
        /\ Write(p) => pc'[p] = "config"
        /\ Exit(p) \/ Killed(p) => pc'[p] = "off"
    BY <1>2 DEF Launch, CreateConf, Broken, HandOver, WriteTempHosts, Expand, Choose, Collect, Truncate, Write, Exit,
                Killed, Reset, Goto
  <2>2. Load(p) => pc'[p] \in {"over", "select"}
    BY <1>2 DEF Load, Goto
  <2>3. /\ Encrypt(p) => pc'[p] \in {"truncate", "config"}
        /\ \A a \in Answers : Ask(p, a) => pc'[p] \in {"truncate", "encrypt"}
    BY <1>2 DEF Encrypt, Ask, Goto
  <2> QED BY <2>1, <2>2, <2>3 DEF Act
<1> QED BY <1>3, <1>4, <1>5, <1>6

LEMMA LoginInit == Init => LoginInv
<1> SUFFICES ASSUME Init
             PROVE  LoginInv
  OBVIOUS
<1>1. PerProcess
  BY DEF Init, PerProcess
<1>2. \A f \in Files : f = Mixed \/ Safe(f)
  BY LoginAssumption DEF LoginAssumption, Safe
<1>3. DiskInv
  BY <1>2, LoginAssumption DEF Init, DiskInv, LoginAssumption
<1>4. ASSUME NEW p \in Procs
      PROVE  ProcessInv(p)
  <2>1. pc[p] = "off" /\ cli[p] = Typed(<<>>) /\ server[p] = NoServer /\ loaded[p] = {} /\ decoded[p] = {}
        /\ file[p] = EmptyFile
    BY DEF Init
  <2>2. DOMAIN NoServer = {}
    BY DEF NoServer
  <2>3. ReadInv(p) /\ ServerInv(p)
    BY <2>1, <2>2, EmptyFacts DEF ReadInv, ServerInv
  <2> QED BY <2>1, <2>3 DEF ProcessInv, TargetInv, MethodInv, ConfigInv, OfferInv, Chosen
<1> QED BY <1>1, <1>3, <1>4 DEF LoginInv

LEMMA LoginStep == LoginInv /\ [Next]_vars => LoginInv'
<1> SUFFICES ASSUME LoginInv, [Next]_vars
             PROVE  LoginInv'
  OBVIOUS
<1>1. ASSUME NEW p \in Procs, Act(p)
      PROVE  LoginInv'
  <2>1. DiskInv'
    BY <1>1, DiskStep
  <2>2. PerProcess' /\ \A q \in Procs : q # p => Same(q)
    BY <1>1, OnlyOwn DEF LoginInv, Local
  <2>3. \A q \in Procs : q # p => ProcessInv(q)'
    BY <2>2, OthersKeep DEF LoginInv
  <2>4. ProcessInv(p)'
    BY <1>1, ReadStep, TargetStep, ConfigStep DEF ProcessInv
  <2> QED BY <2>1, <2>2, <2>3, <2>4 DEF LoginInv
<1>2. CASE UNCHANGED vars
  <2>1. /\ PerProcess' /\ DiskInv' /\ \A q \in Procs : Same(q)
    BY <1>2 DEF LoginInv, vars, disk, own, history, PerProcess, DiskInv, Same
  <2> QED BY <2>1, OthersKeep DEF LoginInv
<1> QED BY <1>1, <1>2, Zenon DEF Next, Act

(* A server's password is offered when the server is connected to          *)
(* (run.go:374, shell.go:36, connect.go:89): for every file and every      *)
(* answer.                                                                 *)
THEOREM PasswordOffered == Spec => []PasswordUsed
<1>1. LoginInv => PasswordUsed
  BY DEF LoginInv, ProcessInv, OfferInv, PasswordUsed
<1> QED BY <1>1, LoginInit, LoginStep, PTL DEF Spec

(* An address is not saved by a process that found it among the saved ones *)
(* when it started (conf.go:717, shell.go:269).                            *)
THEOREM SavedOnce == Spec => NotSavedAgain
<1> DEFINE Once == \A p \in Procs :
             WriteTempHosts(p) /\ lines' # lines => lines'[Len(lines')].id \notin {l.id : l \in loaded[p]}
<1>1. ASSUME LoginInv, NEW p \in Procs, WriteTempHosts(p), lines' # lines
      PROVE  lines'[Len(lines')].id \notin {l.id : l \in loaded[p]}
  <2>1. /\ target[p][1] \in Addresses /\ IsConfig(config[p]) /\ config[p].id = AutoID(target[p][1])
        /\ config[p].id \notin DOMAIN server[p]
    BY <1>1 DEF WriteTempHosts, LoginInv, ProcessInv, TargetInv, ConfigInv, Chosen
  <2>2. config[p].id \notin {l.id : l \in loaded[p]}
    BY <1>1, <2>1 DEF LoginInv, ProcessInv, ServerInv
  <2>3. PICK line : line = Line(target[p][1], config[p], pbe[p])
    OBVIOUS
  <2>4. line \in HostLine /\ line.id = config[p].id
    BY <2>1, <2>3, LineFacts
  <2>5. lines \in Seq(HostLine) /\ lines' = Append(lines, line)
    BY <1>1, <2>3 DEF WriteTempHosts, LoginInv, DiskInv
  <2>6. lines'[Len(lines')] = line
    BY <2>4, <2>5
  <2> QED BY <2>2, <2>4, <2>6
<1>2. LoginInv => Once
  BY <1>1
<1>3. LoginInv /\ [Next]_vars => [Once]_vars
  BY <1>2
<1> QED BY <1>3, LoginInit, LoginStep, PTL DEF Spec, NotSavedAgain

-----------------------------------------------------------------------------
(* The configuration file.                                                 *)

(* Nothing that was typed or saved is forgotten.                           *)
LEMMA Grows ==
  ASSUME LoginInv, NEW p \in Procs, Act(p), ~CreateConf(p)
  PROVE  original' = original /\ answered \subseteq answered' /\ Passwords \subseteq Passwords'
<1>1. original' = original
  BY DEF Act, history, Launch, Load, Broken, Expand, Choose, Collect, Ask, Encrypt, Truncate, Write, getServerConfig,
         HandOver, Dial, WriteTempHosts, Exit, Killed
<1>2. answered \subseteq answered'
  BY DEF Act, history, Launch, Load, Broken, Expand, Choose, Collect, Ask, Encrypt, Truncate, Write, getServerConfig,
         HandOver, Dial, WriteTempHosts, Exit, Killed
<1>3. lines' = lines \/ \E line : lines' = Append(lines, line)
  BY DEF Act, disk, Launch, Load, Broken, Expand, Choose, Collect, Ask, Encrypt, Truncate, Write, getServerConfig,
         HandOver, Dial, WriteTempHosts, Exit, Killed
<1>4. \A i \in DOMAIN lines : i \in DOMAIN lines' /\ lines'[i] = lines[i]
  <2>1. lines \in Seq(HostLine)
    BY DEF LoginInv, DiskInv
  <2> QED BY <1>3, <2>1
<1>5. {lines[i].pass.word : i \in DOMAIN lines} \subseteq {lines'[i].pass.word : i \in DOMAIN lines'}
  BY <1>4
<1> QED BY <1>1, <1>2, <1>5 DEF Passwords

(* An answer takes the place of {Prompt}.                                  *)
LEMMA AnsweredSimilar ==
  ASSUME NEW f, Similar(f), Safe(original), NEW line, NEW answer \in Answers, answered' = answered \cup {<<line, answer>>},
         original' = original, lines' = lines
  PROVE  Similar(AnswerFile(f, line, answer))'
<1>1. answered \subseteq answered' /\ Passwords \subseteq Passwords'
  BY DEF Passwords
<1>2. Similar(f)'
  BY <1>1, SimilarLater
<1>3. PICK e : e = AnswerFile(f, line, answer)
  OBVIOUS
<1>4. /\ Safe(e) /\ e.include = f.include /\ e.common = f.common /\ DOMAIN e.servers = DOMAIN f.servers
      /\ e.elsewhere = f.elsewhere
      /\ \A n \in DOMAIN f.servers : e.servers[n] = AnswerSection(f.servers[n], line, answer)
  BY <1>3, AnsweredFile DEF Similar
<1>5. ASSUME NEW n \in DOMAIN f.servers
      PROVE  SameSection(original.servers[n], e.servers[n])'
  <2>1. PICK was, is, new : was = original.servers[n] /\ is = f.servers[n] /\ new = e.servers[n]
    OBVIOUS
  <2>2. SameSection(was, is)'
    BY <1>2, <2>1 DEF Similar
  <2>3. is \in Section /\ new = AnswerSection(is, line, answer)
    BY <1>4, <2>1 DEF Similar, Safe, IsFile, IsSections
  <2>4. CASE new = is
    BY <1>5, <2>1, <2>2, <2>4
  <2>5. CASE /\ is.tmpl.pass = Prompt /\ line \in is.tmpl.holds /\ new.text = is.text /\ new.timeout = is.timeout
             /\ new.tmpl = [is.tmpl EXCEPT !.pass = PbeEncode(answer)]
    <3>1. is.tmpl \in Template
      BY <2>3 DEF Section
    <3>2. SameSection(was, is)
      BY <2>1 DEF Similar
    <3>3. is.tmpl = [was.tmpl EXCEPT !.pass = is.tmpl.pass] /\ was.tmpl \in Template
      <4>1. was \in Section
        BY <2>1 DEF Similar, Safe, IsFile, IsSections
      <4> QED BY <3>2, <4>1 DEF SameSection, Section
    <3>4. ~Prompt.pbe /\ Prompt.word # Spoilt.word
      BY SpoiltText DEF Prompt, Plain
    <3>5. was.tmpl.pass = Prompt
      <4>1. SameText(was.tmpl.pass, is.tmpl.pass, TRUE) \/ Answered(was.tmpl, is.tmpl)
        BY <3>2 DEF SameSection
      <4> QED BY <2>5, <3>4, <4>1, PbeText DEF SameText, Answered
    <3>6. was.tmpl.holds = is.tmpl.holds
      BY <3>1, <3>3 DEF Template
    <3>7. new.tmpl = [was.tmpl EXCEPT !.pass = PbeEncode(answer)] /\ new.tmpl.pass = PbeEncode(answer)
      BY <2>5, <3>1, <3>3 DEF Template
    <3>8. Answered(was.tmpl, new.tmpl)'
      <4>1. <<line, answer>> \in answered' /\ <<line, answer>>[1] \in was.tmpl.holds
        BY <2>5, <3>6
      <4>2. new.tmpl.pass = PbeEncode(<<line, answer>>[2])
        BY <3>7
      <4> QED BY <3>5, <4>1, <4>2 DEF Answered
    <3>9. SameSection(was, new)'
      BY <2>2, <2>5, <3>7, <3>8 DEF SameSection
    <3> QED BY <2>1, <3>9
  <2>6. new = is \/ /\ is.tmpl.pass = Prompt /\ line \in is.tmpl.holds /\ new.text = is.text /\ new.timeout = is.timeout
                    /\ new.tmpl = [is.tmpl EXCEPT !.pass = PbeEncode(answer)]
    BY <2>3, AnsweredSection
  <2> QED BY <2>4, <2>5, <2>6
<1>6. Similar(e)'
  BY <1>2, <1>4, <1>5 DEF Similar
<1> QED BY <1>3, <1>6

(* What a process prepares to write says what the file says.               *)
LEMMA PrepareStep ==
  ASSUME LoginInv, WriterInv, NEW p \in Procs, Prepares(p), Act(p), ~CreateConf(p), original \notin {NoFile, Mixed},
         ~Misread
  PROVE  Prepares(p)'
<1>1. PerProcess /\ DiskInv /\ ReadInv(p) /\ TargetInv(p)
  BY DEF LoginInv, ProcessInv
<1>2. original' = original /\ answered \subseteq answered' /\ Passwords \subseteq Passwords'
  BY Grows
<1>3. \A f : Similar(f) => Similar(f)'
  BY <1>2, SimilarLater
<1>4. \A v : pc' = Set(pc, p, v) => pc'[p] = v
  BY <1>1, SetFacts DEF PerProcess
<1>5. ASSUME decoded'[p] = decoded[p] \/ decoded'[p] = {}, server'[p] = server[p] \/ server'[p] = NoServer,
             pc'[p] \in {"truncate", "write"} => Similar(file[p])'
      PROVE  Prepares(p)'
  <2>1. DOMAIN NoServer = {}
    BY DEF NoServer
  <2> HIDE DEF Passwords
  <2> QED BY <1>2, <1>5, <2>1 DEF Prepares
<1>6. CASE pc'[p] \notin {"truncate", "write"} /\ decoded' = decoded /\ server' = server
  BY <1>5, <1>6
<1>7. CASE Load(p)
  <2>1. PICK L : L = {lines[i] : i \in DOMAIN lines}
    OBVIOUS
  <2>2. L \subseteq HostLine
    BY <1>1, <2>1 DEF DiskInv
  <2>3. /\ server' = Set(server, p, ReadConf(Content, L)) /\ decoded' = decoded
        /\ pc'[p] \in {"over", "select"}
    BY <1>4, <1>7, <2>1 DEF Load, Goto
  <2>4. server'[p] = ReadConf(Content, L)
    BY <1>1, <2>3, SetFacts DEF PerProcess
  <2>5. Safe(Content) /\ FilePasswords(Content) \subseteq Passwords \cup {""}
    <3>1. CASE conf = Torn
      <4>1. Content = EmptyFile
        BY <3>1 DEF Content
      <4>2. SectionPasswords(NoSection) = {""}
        BY DEF SectionPasswords, NoSection, NoTemplate, Empty, Plain, TextFields
      <4>3. /\ EmptyFile.common = NoSection /\ EmptyFile.include.common = NoSection
            /\ DOMAIN EmptyFile.servers = {} /\ DOMAIN EmptyFile.include.servers = {}
        BY DEF EmptyFile
      <4>4. FilePasswords(EmptyFile) \subseteq {""}
        BY <4>2, <4>3 DEF FilePasswords
      <4> QED BY <4>1, <4>4, EmptyFacts
    <3>2. CASE Similar(conf)
      <4>1. Content = conf
        BY <3>2, NotSpoilt DEF Content, Similar
      <4> QED BY <1>1, <3>2, <4>1, SimilarPasswords DEF DiskInv, Similar
    <3> QED BY <3>1, <3>2 DEF WriterInv
  <2>6. {l.pass.word : l \in L} \subseteq Passwords
    BY <2>1 DEF Passwords
  <2>7. ServerPasswords(server'[p]) \subseteq Passwords \cup {""}
    BY <2>2, <2>4, <2>5, <2>6, ReadFacts
  <2> HIDE DEF Passwords
  <2> QED BY <1>2, <2>3, <2>7 DEF Prepares, ServerPasswords
<1>8. CASE Collect(p)
  <2>1. PICK word : word = Selected(p).text["pass"].word
    OBVIOUS
  <2>2. PICK pwds : pwds = registerAutoEncryptPwd(file[p], Selected(p).text["pass"])
    OBVIOUS
  <2>3. decoded' = Set(decoded, p, pwds) /\ server' = server /\ pc'[p] = "encrypt"
    BY <1>4, <1>8, <2>2 DEF Collect, Goto
  <2>4. decoded'[p] = pwds
    BY <1>1, <2>3, SetFacts DEF PerProcess
  <2>5. word \in Passwords \cup {""}
    <3>1. CASE target[p][1].kind = "name" /\ target[p][1].name \in DOMAIN server[p]
      BY <2>1, <3>1 DEF Selected, Prepares
    <3>2. CASE target[p][1] \in Addresses
      <4>1. Selected(p) = NoConf
        BY <3>2, DirectFacts DEF Selected
      <4>2. NoConf.text["pass"].word = ""
        BY DEF NoConf, FromSection, NoSection, Empty, Plain, TextFields
      <4> QED BY <2>1, <4>1, <4>2
    <3> QED BY <1>1, <1>8, <3>1, <3>2 DEF TargetInv, Collect, Chosen
  <2>6. pwds \subseteq Passwords
    BY <2>1, <2>2, <2>5 DEF registerAutoEncryptPwd
  <2> HIDE DEF Passwords
  <2> QED BY <1>2, <2>3, <2>4, <2>6 DEF Prepares
<1>9. ASSUME NEW a \in Answers, Ask(p, a)
      PROVE  Prepares(p)'
  <2>1. PICK k, new : k = Selected(p).raw /\ new = IF pbe[p] THEN AnswerFile(Content, k, a) ELSE Content
    OBVIOUS
  <2>2. /\ UNCHANGED <<conf, lines, server, decoded>> /\ answered' = answered \cup {<<k, a>>}
        /\ \/ new # Content /\ file' = Set(file, p, new) /\ pc' = Set(pc, p, "truncate")
           \/ pc' = Set(pc, p, "encrypt")
    BY <1>9, <2>1 DEF Ask, disk, Goto
  <2>3. CASE new # Content /\ file' = Set(file, p, new) /\ pc' = Set(pc, p, "truncate")
    <3>1. new = AnswerFile(Content, k, a)
      BY <2>1, <2>3
    <3>2. conf # Torn
      BY <2>3, <3>1, EmptyFacts DEF Content
    <3>3. Similar(conf) /\ Content = conf
      BY <3>2, NotSpoilt DEF WriterInv, Similar, Content
    <3>4. Similar(new)'
      <4>1. Safe(original)
        BY <1>1 DEF DiskInv
      <4> QED BY <1>2, <2>2, <3>1, <3>3, <4>1, AnsweredSimilar
    <3>5. file'[p] = new
      BY <1>1, <2>3, SetFacts DEF PerProcess
    <3> QED BY <1>5, <2>2, <3>4, <3>5
  <2>4. CASE pc' = Set(pc, p, "encrypt")
    BY <1>4, <1>5, <2>2, <2>4
  <2> QED BY <2>2, <2>3, <2>4
<1>10. CASE Encrypt(p)
  <2>1. PICK new \in IF pbe[p] THEN Rewritten(Content, decoded[p]) ELSE {Content} :
          \/ new # Content /\ file' = Set(file, p, new)
          \/ pc' = Set(pc, p, "config")
    BY <1>10 DEF Encrypt, Goto
  <2>2. /\ server' = server /\ decoded' = Set(decoded, p, {})
        /\ \/ new # Content /\ file' = Set(file, p, new)
           \/ pc' = Set(pc, p, "config")
    BY <1>10, <2>1 DEF Encrypt
  <2>3. decoded'[p] = {}
    BY <1>1, <2>2, SetFacts DEF PerProcess
  <2>4. CASE new # Content /\ file' = Set(file, p, new)
    <3>1. new \in Rewritten(Content, decoded[p])
      BY <2>1, <2>4
    <3>2. conf # Torn
      <4>1. "" \notin decoded[p]
        BY <1>1 DEF ReadInv
      <4>2. conf = Torn => Content = EmptyFile
        BY DEF Content
      <4>3. Rewritten(EmptyFile, decoded[p]) = {EmptyFile}
        BY <4>1, EmptyFacts
      <4> QED BY <2>4, <3>1, <4>2, <4>3
    <3>3. Similar(conf) /\ Content = conf
      BY <3>2, NotSpoilt DEF WriterInv, Similar, Content
    <3>4. Similar(new)
      <4>1. Safe(original) /\ Whole(original)
        BY <1>1, NotSpoilt DEF DiskInv, Whole
      <4>2. conf.elsewhere \cap decoded[p] = {}
        <5>1. original.elsewhere \cap Passwords = {}
          BY <4>1 DEF Misread
        <5> HIDE DEF Passwords
        <5> QED BY <3>3, <5>1 DEF Similar, Prepares
      <4>3. new = EncryptFile(conf, decoded[p])
        BY <1>1, <3>1, <3>3, <4>2, RewrittenFile DEF Similar, ReadInv
      <4> QED BY <1>1, <3>3, <4>1, <4>3, EncryptedSimilar DEF ReadInv, Prepares
    <3>5. file'[p] = new
      BY <1>1, <2>4, SetFacts DEF PerProcess
    <3>6. Similar(file[p])'
      BY <1>3, <3>4, <3>5
    <3> QED BY <1>5, <2>2, <2>3, <3>6
  <2>5. CASE pc' = Set(pc, p, "config")
    BY <1>4, <1>5, <2>2, <2>3, <2>5
  <2> QED BY <2>2, <2>4, <2>5
<1>11. CASE Truncate(p)
  <2>1. UNCHANGED <<server, decoded, file>> /\ pc[p] = "truncate"
    BY <1>11 DEF Truncate, own
  <2>2. Similar(file[p])'
    BY <1>3, <2>1 DEF Prepares
  <2> QED BY <1>5, <2>1, <2>2
<1>12. CASE Exit(p) \/ Killed(p)
  <2>1. pc' = Set(pc, p, "off") /\ server' = Set(server, p, NoServer) /\ decoded' = Set(decoded, p, {})
    BY <1>12 DEF Exit, Killed, Reset, Goto
  <2>2. server'[p] = NoServer /\ decoded'[p] = {}
    BY <1>1, <2>1, SetFacts DEF PerProcess
  <2> QED BY <1>4, <1>5, <2>1, <2>2
<1>13. \/ pc'[p] \notin {"truncate", "write"} /\ decoded' = decoded /\ server' = server
       \/ Load(p) \/ Collect(p) \/ (\E a \in Answers : Ask(p, a)) \/ Encrypt(p) \/ Truncate(p) \/ Exit(p) \/ Killed(p)
  <2>1. /\ (\E args \in ArgLists : Launch(p, args)) => pc'[p] = "read"
        /\ Broken(p) \/ HandOver(p) \/ WriteTempHosts(p) => pc'[p] = "over"
        /\ Expand(p) \/ Choose(p) => pc'[p] = "auth"
        /\ Write(p) => pc'[p] = "config"
        /\ getServerConfig(p) => pc'[p] = "dial"
        /\ Dial(p) => pc'[p] \in {"save", "over"}
    BY <1>4 DEF Launch, Broken, HandOver, WriteTempHosts, Expand, Choose, Write, getServerConfig, Dial, Goto
  <2>2. (\E args \in ArgLists : Launch(p, args)) \/ Broken(p) \/ HandOver(p) \/ WriteTempHosts(p) \/ Expand(p)
        \/ Choose(p) \/ Write(p) \/ getServerConfig(p) \/ Dial(p) => decoded' = decoded /\ server' = server
    BY DEF Launch, Broken, HandOver, WriteTempHosts, Expand, Choose, Write, getServerConfig, Dial, own
  <2> QED BY <2>1, <2>2 DEF Act
<1> QED BY <1>6, <1>7, <1>8, <1>9, <1>10, <1>11, <1>12, <1>13

(* One process writes the file at a time, unless cut says otherwise.       *)
LEMMA WriterStep ==
  ASSUME LoginInv, WriterInv, NEW p \in Procs, Prepares(p), Act(p), ~CreateConf(p), ~cut',
         original \notin {NoFile, Mixed}
  PROVE  WriterInv'
<1>1. PerProcess
  BY DEF LoginInv
<1>2. \A q \in Procs : q # p => pc'[q] = pc[q]
  BY <1>1, OnlyOwn DEF Local, Same
<1>3. original' = original /\ answered \subseteq answered' /\ Passwords \subseteq Passwords'
  BY Grows
<1>4. \A f : Similar(f) => Similar(f)'
  BY <1>3, SimilarLater
<1>5. \A v : pc' = Set(pc, p, v) => pc'[p] = v
  BY <1>1, SetFacts DEF PerProcess
<1>6. CASE Truncate(p)
  <2>1. conf' = Torn /\ pc'[p] = "write" /\ \A q \in Procs : pc[q] # "write"
    BY <1>5, <1>6 DEF Truncate, Goto
  <2> QED BY <1>2, <2>1 DEF WriterInv
<1>7. CASE Write(p)
  <2>1. pc[p] = "write" /\ conf = Torn
    BY <1>7 DEF Write, WriterInv
  <2>2. conf' = file[p] /\ pc'[p] = "config"
    BY <1>5, <1>7, <2>1 DEF Write, Goto
  <2>3. Similar(file[p]) /\ file[p] # Torn
    BY <2>1, NotSpoilt DEF Prepares, Similar
  <2>4. \A q \in Procs : pc'[q] # "write"
    BY <1>2, <2>1, <2>2 DEF WriterInv
  <2>5. Similar(conf)'
    BY <1>4, <2>2, <2>3
  <2> QED BY <2>2, <2>3, <2>4, <2>5 DEF WriterInv
<1>8. CASE conf' = conf /\ pc[p] # "write" /\ pc'[p] # "write"
  <2>1. \A q \in Procs : pc'[q] = "write" <=> pc[q] = "write"
    BY <1>2, <1>8
  <2>2. conf = Torn \/ Similar(conf)'
    BY <1>4, <1>8 DEF WriterInv
  <2> QED BY <1>8, <2>1, <2>2 DEF WriterInv
<1>9. Truncate(p) \/ Write(p) \/ (conf' = conf /\ pc[p] # "write" /\ pc'[p] # "write")
  <2>1. ASSUME NEW args, Launch(p, args)
        PROVE  conf' = conf /\ pc[p] # "write" /\ pc'[p] # "write"
    BY <1>5, <2>1 DEF Launch, Goto, disk
  <2>2. ASSUME Load(p) \/ Broken(p) \/ HandOver(p) \/ Dial(p)
        PROVE  conf' = conf /\ pc[p] # "write" /\ pc'[p] # "write"
    BY <1>5, <2>2 DEF Load, Broken, HandOver, Dial, Goto, disk
  <2>3. ASSUME WriteTempHosts(p) \/ Expand(p) \/ Choose(p) \/ Collect(p) \/ getServerConfig(p)
        PROVE  conf' = conf /\ pc[p] # "write" /\ pc'[p] # "write"
    BY <1>5, <2>3 DEF WriteTempHosts, Expand, Choose, Collect, getServerConfig, Goto, disk
  <2>4. ASSUME NEW a, Ask(p, a)
        PROVE  conf' = conf /\ pc[p] # "write" /\ pc'[p] # "write"
    BY <1>5, <2>4 DEF Ask, Goto, disk
  <2>5. ASSUME Encrypt(p)
        PROVE  conf' = conf /\ pc[p] # "write" /\ pc'[p] # "write"
    BY <1>5, <2>5 DEF Encrypt, Goto, disk
  <2>6. ASSUME Exit(p) \/ Killed(p)
        PROVE  conf' = conf /\ pc[p] # "write" /\ pc'[p] # "write"
    <3>1. conf' = conf /\ pc' = Set(pc, p, "off")
      BY <2>6 DEF Exit, Killed, Reset, Goto, disk
    <3>2. pc[p] # "write"
      BY <2>6 DEF Exit, Killed
    <3> QED BY <1>5, <3>1, <3>2
  <2> QED BY <2>1, <2>2, <2>3, <2>4, <2>5, <2>6, Zenon DEF Act
<1> QED BY <1>6, <1>7, <1>8, <1>9

(* A text of a file says what it says.                                     *)
LEMMA SameSelf ==
  ASSUME NEW s \in Section
  PROVE  SameSection(s, s) /\ SameSection(s, s)'
<1>1. s.tmpl = [s.tmpl EXCEPT !.pass = s.tmpl.pass]
  BY DEF Section, Template
<1>2. \A t, password : SameText(t, t, password) /\ SameText(t, t, password)'
  BY DEF SameText
<1> QED BY <1>1, <1>2 DEF SameSection

LEMMA SimilarSelf ==
  ASSUME Safe(original)
  PROVE  Similar(original)
<1>1. original.common \in Section /\ \A k \in DOMAIN original.servers : original.servers[k] \in Section
  BY DEF Safe, IsFile, IsSections
<1> QED BY <1>1, SameSelf DEF Similar

LEMMA FileInit == Init => FileInv
<1> SUFFICES ASSUME Init
             PROVE  FileInv
  OBVIOUS
<1>1. LoginInv
  BY LoginInit
<1>2. \A p \in Procs : pc[p] = "off" /\ server[p] = NoServer /\ decoded[p] = {} /\ DOMAIN NoServer = {}
  BY DEF Init, NoServer
<1>3. conf = original /\ (original \in {NoFile, Mixed} \/ Safe(original))
  BY <1>1 DEF Init, LoginInv, DiskInv
<1>4. BlankInv
  BY <1>2, <1>3 DEF BlankInv
<1>5. KeptInv
  BY <1>2, <1>3, SimilarSelf, NotSpoilt DEF KeptInv, WriterInv, Prepares
<1> QED BY <1>4, <1>5 DEF FileInv

LEMMA BlankStep ==
  ASSUME LoginInv, FileInv, NEW p \in Procs, Act(p)
  PROVE  BlankInv'
<1>1. SUFFICES ASSUME original' \in {NoFile, Mixed}
               PROVE  BlankInv'
  BY DEF BlankInv
<1>2. ~CreateConf(p)
  <2>1. CreateConf(p) => original' = FirstConf
    BY DEF CreateConf
  <2>2. FirstConf.state = "whole" /\ NoFile.state = "none" /\ Mixed.state = "mixed"
    BY LoginAssumption DEF LoginAssumption, IsFile, NoFile, Mixed
  <2> QED BY <1>1, <2>1, <2>2
<1>3. original' = original
  BY <1>2, Grows
<1>4. /\ conf = original
      /\ \A q \in Procs : pc[q] \in {"off", "read", "over"} /\ server[q] = NoServer /\ decoded[q] = {}
  BY <1>1, <1>3 DEF FileInv, BlankInv
<1>5. PerProcess /\ \A q \in Procs : q # p => Same(q)
  BY OnlyOwn DEF LoginInv, Local
<1>6. \A v : pc' = Set(pc, p, v) => pc'[p] = v
  BY <1>5, SetFacts DEF PerProcess
<1>7. conf' = conf /\ pc'[p] \in {"off", "read", "over"} /\ server'[p] = NoServer /\ decoded'[p] = {}
  <2>1. ASSUME NEW args, Launch(p, args)
        PROVE  conf' = conf /\ pc'[p] = "read" /\ server' = server /\ decoded' = decoded
    BY <1>6, <2>1 DEF Launch, Goto, disk
  <2>2. ASSUME Broken(p)
        PROVE  conf' = conf /\ pc'[p] = "over" /\ server' = server /\ decoded' = decoded
    BY <1>6, <2>2 DEF Broken, Goto, disk, own
  <2>3. ASSUME Exit(p) \/ Killed(p)
        PROVE  conf' = conf /\ pc'[p] = "off" /\ server'[p] = NoServer /\ decoded'[p] = {}
    <3>1. /\ conf' = conf /\ pc' = Set(pc, p, "off") /\ server' = Set(server, p, NoServer)
          /\ decoded' = Set(decoded, p, {})
      BY <2>3 DEF Exit, Killed, Reset, Goto, disk
    <3> QED BY <1>5, <1>6, <3>1, SetFacts DEF PerProcess
  <2>4. (\E args : Launch(p, args)) \/ Broken(p) \/ Exit(p) \/ Killed(p)
    <3>1. ~Load(p)
      BY <1>1, <1>3, <1>4 DEF Load
    <3>2. /\ ~Expand(p) /\ ~Choose(p) /\ ~Collect(p) /\ (\A a : ~Ask(p, a)) /\ ~Encrypt(p) /\ ~Truncate(p)
          /\ ~Write(p) /\ ~getServerConfig(p) /\ ~HandOver(p) /\ ~Dial(p) /\ ~WriteTempHosts(p)
      BY <1>4 DEF Expand, Choose, Collect, Ask, Encrypt, Truncate, Write, getServerConfig, HandOver, Dial, WriteTempHosts
    <3> QED BY <1>2, <3>1, <3>2, Zenon DEF Act
  <2> QED BY <1>4, <2>1, <2>2, <2>3, <2>4
<1> QED BY <1>3, <1>4, <1>5, <1>7 DEF BlankInv, Same

LEMMA KeptStep ==
  ASSUME LoginInv, FileInv, NEW p \in Procs, Act(p)
  PROVE  KeptInv'
<1>1. SUFFICES ASSUME ~cut', original' \notin {NoFile, Mixed}, ~Misread'
               PROVE  (WriterInv /\ \A q \in Procs : Prepares(q))'
  BY DEF KeptInv
<1>2. PerProcess /\ DiskInv /\ \A q \in Procs : q # p => Same(q)
  BY OnlyOwn DEF LoginInv, Local
<1>3. ~cut
  BY <1>1 DEF Act, history, Launch, CreateConf, Load, Broken, Expand, Choose, Collect, Ask, Encrypt, Truncate, Write,
              getServerConfig, HandOver, Dial, WriteTempHosts, Exit, Killed
<1>4. CASE CreateConf(p)
  <2>1. conf = NoFile /\ conf' = original' /\ original' = FirstConf /\ pc' = Set(pc, p, "over")
        /\ server' = server /\ decoded' = decoded
    BY <1>4 DEF CreateConf, own, Goto
  <2>2. original \in {NoFile, Mixed}
    BY <1>2, <2>1 DEF DiskInv
  <2>3. \A q \in Procs : pc[q] \in {"off", "read", "over"} /\ server[q] = NoServer /\ decoded[q] = {}
    BY <2>2 DEF FileInv, BlankInv
  <2>4. \A q \in Procs : pc'[q] \in {"off", "read", "over"} /\ server'[q] = NoServer /\ decoded'[q] = {}
    BY <1>2, <2>1, <2>3, SetFacts DEF PerProcess, Same
  <2>5. Safe(original)'
    <3>1. DiskInv'
      BY DiskStep
    <3> QED BY <1>1, <3>1 DEF DiskInv
  <2>6. Similar(conf)' /\ conf' # Torn
    <3>1. PICK f : f = conf'
      OBVIOUS
    <3>2. Safe(f) /\ original' = f
      BY <2>1, <2>5, <3>1
    <3>3. f.common \in Section /\ \A k \in DOMAIN f.servers : f.servers[k] \in Section
      BY <3>2 DEF Safe, IsFile, IsSections
    <3>4. SameSection(f.common, f.common)' /\ \A k \in DOMAIN f.servers : SameSection(f.servers[k], f.servers[k])'
      BY <3>3, SameSelf
    <3>5. Similar(f)'
      BY <3>2, <3>4 DEF Similar
    <3> QED BY <3>1, <3>2, <3>5, NotSpoilt
  <2>7. DOMAIN NoServer = {}
    BY DEF NoServer
  <2> QED BY <2>4, <2>6, <2>7 DEF WriterInv, Prepares
<1>5. CASE ~CreateConf(p)
  <2>1. original' = original /\ answered \subseteq answered' /\ Passwords \subseteq Passwords'
    BY <1>5, Grows
  <2>6. ~Misread
    <3> HIDE DEF Passwords
    <3> QED BY <1>1, <2>1 DEF Misread, Whole
  <2>2. WriterInv /\ \A q \in Procs : Prepares(q)
    BY <1>1, <1>3, <2>1, <2>6 DEF FileInv, KeptInv
  <2>3. WriterInv' /\ Prepares(p)'
    BY <1>1, <1>5, <2>1, <2>2, <2>6, WriterStep, PrepareStep
  <2>4. ASSUME NEW q \in Procs, q # p
        PROVE  Prepares(q)'
    <3>1. Same(q) /\ Prepares(q)
      BY <1>2, <2>2, <2>4
    <3>2. Similar(file[q]) => Similar(file[q])'
      <4>1. PICK f : f = file[q]
        OBVIOUS
      <4>2. Similar(f) => Similar(f)'
        BY <2>1, SimilarLater
      <4>3. file'[q] = f
        BY <3>1, <4>1 DEF Same
      <4> QED BY <4>1, <4>2, <4>3
    <3> HIDE DEF Passwords
    <3> QED BY <2>1, <3>1, <3>2 DEF Prepares, Same
  <2> QED BY <2>3, <2>4
<1> QED BY <1>4, <1>5

LEMMA FileStep == LoginInv /\ FileInv /\ [Next]_vars => FileInv'
<1> SUFFICES ASSUME LoginInv, FileInv, [Next]_vars
             PROVE  FileInv'
  OBVIOUS
<1>1. ASSUME NEW p \in Procs, Act(p)
      PROVE  FileInv'
  BY <1>1, BlankStep, KeptStep DEF FileInv
<1>2. CASE UNCHANGED vars
  <2>1. UNCHANGED <<conf, lines, pc, server, decoded, file, original, answered, cut>>
    BY <1>2 DEF vars, disk, own, history
  <2>2. Passwords' = Passwords
    BY <2>1 DEF Passwords
  <2>3. \A f : Similar(f) => Similar(f)'
    BY <2>1, <2>2, SimilarLater
  <2>4. BlankInv'
    BY <2>1 DEF FileInv, BlankInv
  <2>5. WriterInv => WriterInv'
    BY <2>1, <2>3 DEF WriterInv
  <2>6. ASSUME NEW p \in Procs, Prepares(p)
        PROVE  Prepares(p)'
    BY <2>1, <2>2, <2>3, <2>6 DEF Prepares
  <2>7. KeptInv'
    BY <2>1, <2>2, <2>5, <2>6 DEF FileInv, KeptInv, Misread, Whole
  <2> QED BY <2>4, <2>7 DEF FileInv
<1> QED BY <1>1, <1>2, Zenon DEF Next, Act

(* What the configuration file says outlives the passwords being encrypted *)
(* and answers being filled in (run.go:304-362), in every file and by any  *)
(* number of processes; only a kill in os.WriteFile, a second process in   *)
(* it, or a password that stands elsewhere in the file loses it.           *)
THEOREM ConfigKept == Spec => []ConfigSurvives
<1>1. LoginInv /\ FileInv => ConfigSurvives
  <2> SUFFICES ASSUME LoginInv, FileInv, ~cut, conf # original, \A p \in Procs : pc[p] # "write", ~Misread
               PROVE  /\ Whole(conf)
                      /\ DOMAIN conf.servers = DOMAIN original.servers
                      /\ SameSection(original.common, conf.common)
                      /\ \A k \in DOMAIN conf.servers : SameSection(original.servers[k], conf.servers[k])
    BY DEF ConfigSurvives
  <2>1. Similar(conf)
    BY DEF FileInv, BlankInv, KeptInv, WriterInv
  <2> QED BY <2>1, NotSpoilt DEF Similar, Whole
<1> QED BY <1>1, LoginInit, LoginStep, FileInit, FileStep, PTL DEF Spec

-----------------------------------------------------------------------------
(* Folds along the arguments of a command line.                            *)

(* A set of numbers has a least one.                                       *)
LEMMA LeastElement ==
  ASSUME NEW T, T \subseteq Nat, T # {}
  PROVE  \E x \in T : \A y \in T : x <= y
<1> DEFINE R == OpToRel(<, Nat)
<1>1. IsWellFoundedOn(R, Nat)
  BY NatLessThanWellFounded, Zenon
<1>2. \A a, b \in Nat : a < b => <<a, b>> \in R
  BY DEF OpToRel
<1> HIDE DEF R
<1>3. PICK x \in T : \A y \in T : ~(<<y, x>> \in R)
  BY <1>1, WFMin
<1>4. \A y \in T : ~(y < x)
  BY <1>2, <1>3, Zenon
<1>5. \A y \in T : x <= y
  BY <1>4
<1> QED
  BY <1>5

(* What holds of a number, and of the next with each one, holds later.     *)
LEMMA Induction ==
  ASSUME NEW a \in Nat, NEW b \in Nat, a <= b, NEW P, a \in P, \A k \in a..(b - 1) : k \in P => k + 1 \in P
  PROVE  b \in P
<1> SUFFICES ASSUME b \notin P
             PROVE  FALSE
  OBVIOUS
<1> DEFINE T == {k \in a..b : k \notin P}
<1>1. T \subseteq Nat /\ T # {}
  OBVIOUS
<1>2. PICK k \in T : \A y \in T : k <= y
  BY <1>1, LeastElement
<1>3. k # a /\ k - 1 \in a..(b - 1)
  BY <1>2
<1>4. k - 1 \in P
  BY <1>2, <1>3
<1>5. k - 1 + 1 = k
  BY <1>3
<1> QED
  BY <1>2, <1>3, <1>4, <1>5

(* The largest of the first numbers, and of a set of them that has the     *)
(* last.                                                                   *)
LEMMA MaxLast ==
  ASSUME NEW k \in Nat, NEW S, S \subseteq 1..(k + 1), k + 1 \in S
  PROVE  Max(S) = k + 1 /\ S \ {k + 1} \subseteq 1..k
<1>1. \A y \in S : k + 1 >= y
  OBVIOUS
<1>2. \A x \in S : (\A y \in S : x >= y) => x = k + 1
  BY <1>1
<1>3. Max(S) \in S /\ \A y \in S : Max(S) >= y
  BY <1>1, Zenon DEF Max
<1>4. S \ {k + 1} \subseteq 1..k
  OBVIOUS
<1> DEFINE m == Max(S)
<1>5. m \in S /\ \A y \in S : m >= y
  BY <1>3
<1> HIDE DEF m
<1>6. m = k + 1
  BY <1>2, <1>5
<1> QED
  BY <1>4, <1>6 DEF m

(* A step that is repeated along a sequence gives something for every      *)
(* initial part of it.                                                     *)
(* What repeats a step along a sequence, as FoldLeft defines it: a value   *)
(* for each set of indices, the last index first.  There is one.           *)
FoldsOf(n, A, step, base, seq) ==
  {f \in [SUBSET (1..n) -> A] : \A S \in SUBSET (1..n) :
     f[S] = IF S = {} THEN base ELSE step[<<f[S \ {Max(S)}], seq[Max(S)]>>]}

LEMMA FoldExists ==
  ASSUME NEW n \in Nat, NEW A, NEW E, NEW step \in [A \X E -> A], NEW base \in A, NEW seq \in [1..n -> E]
  PROVE  FoldsOf(n, A, step, base, seq) # {}
<1> DEFINE IsFold(f, k) == \A S \in SUBSET (1..k) :
             f[S] = IF S = {} THEN base ELSE step[<<f[S \ {Max(S)}], seq[Max(S)]>>]
           P == {k \in 0..n : \E f \in [SUBSET (1..k) -> A] : IsFold(f, k)}
<1>1. ASSUME NEW k \in 0..n, k = 0
      PROVE  k \in P
  <2> DEFINE g == [S \in SUBSET (1..k) |-> base]
  <2>1. g \in [SUBSET (1..k) -> A]
    OBVIOUS
  <2>2. \A S \in SUBSET (1..k) : S = {}
    BY <1>1
  <2>3. IsFold(g, k)
    BY <2>2
  <2> HIDE DEF g, IsFold
  <2> QED
    BY <2>1, <2>3
<1>2. ASSUME NEW k \in 0..(n - 1), k \in P
      PROVE  k + 1 \in P
  <2>1. PICK f \in [SUBSET (1..k) -> A] : IsFold(f, k)
    BY <1>2
  <2> DEFINE g == [S \in SUBSET (1..(k + 1)) |->
                     IF k + 1 \in S THEN step[<<f[S \ {k + 1}], seq[k + 1]>>] ELSE f[S]]
  <2>2. \A S \in SUBSET (1..(k + 1)) : IF k + 1 \in S THEN S \ {k + 1} \subseteq 1..k ELSE S \subseteq 1..k
    OBVIOUS
  <2>3. seq[k + 1] \in E
    OBVIOUS
  <2>4. g \in [SUBSET (1..(k + 1)) -> A]
    BY <2>2, <2>3
  <2>5. ASSUME NEW S \in SUBSET (1..(k + 1))
        PROVE  g[S] = IF S = {} THEN base ELSE step[<<g[S \ {Max(S)}], seq[Max(S)]>>]
    <3>1. CASE k + 1 \in S
      <4>1. Max(S) = k + 1 /\ S \ {k + 1} \subseteq 1..k
        BY <3>1, k \in Nat, MaxLast
      <4>2. g[S \ {k + 1}] = f[S \ {k + 1}]
        BY <4>1
      <4> QED
        BY <3>1, <4>1, <4>2
    <3>2. CASE k + 1 \notin S
      <4>1. S \in SUBSET (1..k)
        BY <2>2, <3>2
      <4>2. g[S] = f[S] /\ g[S \ {Max(S)}] = f[S \ {Max(S)}]
        BY <3>2, <4>1
      <4> QED
        BY <2>1, <4>1, <4>2
    <3> QED
      BY <3>1, <3>2
  <2> HIDE DEF g
  <2>6. IsFold(g, k + 1)
    BY <2>5
  <2> HIDE DEF IsFold
  <2> QED
    BY <2>4, <2>6
<1> HIDE DEF P
<1>3. n \in P
  <2>1. 0 \in P
    BY <1>1
  <2> QED
    BY <2>1, <1>2, Induction
<1>4. PICK f \in [SUBSET (1..n) -> A] : IsFold(f, n)
  BY <1>3 DEF P
<1> QED
  BY <1>4 DEF FoldsOf

(* A set of indices that is not empty has a last one.                      *)
LEMMA MaxIn ==
  ASSUME NEW n \in Nat, NEW S, S \subseteq 1..n, S # {}
  PROVE  Max(S) \in S
<1> DEFINE T == {n - x : x \in S}
<1>1. T \subseteq Nat /\ T # {}
  <2>1. \A x \in S : n - x \in Nat
    OBVIOUS
  <2> QED
    BY <2>1
<1>2. PICK y \in T : \A z \in T : y <= z
  BY <1>1, LeastElement
<1>3. PICK x \in S : y = n - x
  BY <1>2
<1>4. \A z \in S : x >= z
  <2> SUFFICES ASSUME NEW z \in S
               PROVE  x >= z
    OBVIOUS
  <2>1. n - z \in T /\ n - x <= n - z
    BY <1>2, <1>3
  <2>2. x \in Int /\ z \in Int
    OBVIOUS
  <2> HIDE DEF T
  <2> QED
    BY <2>1, <2>2
<1> QED
  BY <1>4, Zenon DEF Max

(* The states of ParseArgs and of the flag package. *)
ParseState == [rest : BOOLEAN, isOptionArgs : BOOLEAN, result : Seq(Argument)]
ParseStart == [rest |-> FALSE, isOptionArgs |-> FALSE, result |-> <<>>]
CliState == [rest : BOOLEAN, option : Seq(Argument), flags : SUBSET STRING, hosts : Seq(STRING), args : Seq(Argument)]
CliStart == [rest |-> FALSE, option |-> <<>>, flags |-> {}, hosts |-> <<>>, args |-> <<>>]

(* Splitting -la gives -l and -a.                                          *)
LEMMA SplitType ==
  ASSUME NEW a \in Argument
  PROVE  /\ Split(a) \in Seq(Argument)
         /\ DOMAIN Split(a) = DOMAIN a.text
         /\ \A i \in DOMAIN a.text : Split(a)[i] = Short(<<a.text[i]>>)
<1>1. a.text \in Seq(STRING)
  BY DEF Argument
<1>2. \A i \in 1..Len(a.text) : Short(<<a.text[i]>>) \in Argument
  BY <1>1 DEF Short, Argument
<1> QED
  BY <1>1, <1>2 DEF Split

(* Each step keeps the types.                                              *)
LEMMA ParseStepType ==
  ASSUME NEW acc \in ParseState, NEW a \in Argument
  PROVE  ParseStep(acc, a) \in ParseState
<1>1. /\ Append(acc.result, a) \in Seq(Argument)
      /\ acc.result \o <<a>> \in Seq(Argument)
      /\ acc.result \o Split(a) \in Seq(Argument)
  BY SplitType DEF ParseState
<1> QED
  BY <1>1 DEF ParseState, ParseStep

LEMMA CliStepType ==
  ASSUME NEW acc \in CliState, NEW a \in Argument
  PROVE  CliStep(acc, a) \in CliState
<1>1. a.text[1] \in STRING
  BY DEF Argument
<1>2. /\ Append(acc.args, a) \in Seq(Argument)
      /\ Append(acc.hosts, a.text[1]) \in Seq(STRING)
      /\ <<a>> \in Seq(Argument) /\ <<>> \in Seq(Argument)
      /\ acc.flags \cup {a.text[1]} \in SUBSET STRING
  BY <1>1 DEF CliState
<1> QED
  BY <1>2 DEF CliState, CliStep

(* The values of a fold at the initial parts of a sequence follow one      *)
(* another by the step.                                                    *)
LEMMA FoldAlong ==
  ASSUME NEW n \in Nat, NEW f, NEW F, F = [k \in 0..n |-> f[1..k]]
  PROVE  /\ F[0] = f[{}] /\ F[n] = f[1..n]
         /\ \A k \in 0..(n - 1) : LET S == 1..(k + 1)
                                 IN /\ S \in SUBSET (1..n) /\ S # {} /\ Max(S) = k + 1
                                    /\ F[k + 1] = f[S] /\ F[k] = f[S \ {Max(S)}]
<1>1. F[0] = f[{}] /\ F[n] = f[1..n]
  <2>1. 1..0 = {}
    OBVIOUS
  <2> QED
    BY <2>1
<1>2. ASSUME NEW k \in 0..(n - 1)
      PROVE  LET S == 1..(k + 1)
             IN /\ S \in SUBSET (1..n) /\ S # {} /\ Max(S) = k + 1
                /\ F[k + 1] = f[S] /\ F[k] = f[S \ {Max(S)}]
  <2>1. k \in Nat /\ 1..(k + 1) \subseteq 1..(k + 1) /\ k + 1 \in 1..(k + 1)
    OBVIOUS
  <2>2. Max(1..(k + 1)) = k + 1
    BY <2>1, MaxLast
  <2>3. 1..(k + 1) \in SUBSET (1..n) /\ 1..(k + 1) # {} /\ 1..(k + 1) \ {k + 1} = 1..k
    <3>1. \A i \in 1..(k + 1) : i \in 1..n
      OBVIOUS
    <3>2. \A i \in Int : i \in 1..(k + 1) /\ i # k + 1 <=> i \in 1..k
      OBVIOUS
    <3>3. 1..(k + 1) \ {k + 1} = 1..k
      BY <3>2
    <3> QED
      BY <2>1, <3>1, <3>3
  <2>4. F[k + 1] = f[1..(k + 1)] /\ F[k] = f[1..k]
    OBVIOUS
  <2> QED
    BY <2>2, <2>3, <2>4
<1> QED
  BY <1>1, <1>2

(* ParseArgs goes from argument to argument.                               *)
LEMMA ParseFold ==
  ASSUME NEW args \in Seq(Argument)
  PROVE  \E F : /\ F[0] = ParseStart
                /\ \A k \in 0..(Len(args) - 1) : F[k + 1] = ParseStep(F[k], args[k + 1])
                /\ ParseArgs(args) = F[Len(args)].result
<1> DEFINE n == Len(args)
           D == DOMAIN args
           Eq(g) == g = [s \in SUBSET D |-> IF s = {} THEN ParseStart
                                           ELSE ParseStep(g[s \ {Max(s)}], args[Max(s)])]
           iter == CHOOSE g : Eq(g)
           step == [x \in ParseState \X Argument |-> ParseStep(x[1], x[2])]
           F == [k \in 0..n |-> iter[1..k]]
<1>1. ParseArgs(args) = iter[D].result
  BY Zenon DEF ParseArgs, FoldLeft, MapThenFoldSet, ParseStart
<1>2. n \in Nat /\ D = 1..n /\ args \in [1..n -> Argument]
  OBVIOUS
<1>3. step \in [ParseState \X Argument -> ParseState]
  BY ParseStepType
<1>4. ParseStart \in ParseState
  BY DEF ParseStart, ParseState
<1> HIDE DEF n, D
<1>5. \E g : Eq(g)
  <2>1. PICK f \in [SUBSET (1..n) -> ParseState] : \A S \in SUBSET (1..n) :
          f[S] = IF S = {} THEN ParseStart ELSE step[<<f[S \ {Max(S)}], args[Max(S)]>>]
    <3> HIDE DEF step
    <3>1. FoldsOf(n, ParseState, step, ParseStart, args) # {}
      BY <1>2, <1>3, <1>4, FoldExists
    <3> QED
      BY <3>1 DEF FoldsOf
  <2>2. ASSUME NEW S \in SUBSET (1..n), S # {}
        PROVE  f[S] = ParseStep(f[S \ {Max(S)}], args[Max(S)])
    <3>1. Max(S) \in 1..n
      BY <1>2, <2>2, MaxIn
    <3>2. f[S \ {Max(S)}] \in ParseState /\ args[Max(S)] \in Argument
      BY <1>2, <3>1
    <3>3. step[<<f[S \ {Max(S)}], args[Max(S)]>>] = ParseStep(f[S \ {Max(S)}], args[Max(S)])
      BY <3>2
    <3> QED
      BY <2>1, <2>2, <3>3
  <2>3. Eq(f)
    BY <1>2, <2>1, <2>2
  <2> QED
    BY <2>3
<1>6. Eq(iter)
  BY <1>5
<1> HIDE DEF iter
<1>7. /\ F[0] = iter[{}] /\ F[n] = iter[D]
      /\ \A k \in 0..(n - 1) : LET S == 1..(k + 1)
                              IN /\ S \in SUBSET (1..n) /\ S # {} /\ Max(S) = k + 1
                                 /\ F[k + 1] = iter[S] /\ F[k] = iter[S \ {Max(S)}]
  BY <1>2, FoldAlong
<1> HIDE DEF F
<1>8. F[0] = ParseStart
  BY <1>6, <1>7
<1>9. ASSUME NEW k \in 0..(n - 1)
      PROVE  F[k + 1] = ParseStep(F[k], args[k + 1])
  <2> DEFINE S == 1..(k + 1)
  <2>1. S \in SUBSET D /\ S # {} /\ Max(S) = k + 1 /\ F[k + 1] = iter[S] /\ F[k] = iter[S \ {Max(S)}]
    BY <1>2, <1>7
  <2> HIDE DEF S
  <2>2. iter[S] = ParseStep(iter[S \ {Max(S)}], args[Max(S)])
    BY <1>6, <2>1
  <2> QED
    BY <2>1, <2>2
<1> QED
  BY <1>1, <1>7, <1>8, <1>9 DEF n

(* So does the flag package.                                               *)
LEMMA CliFold ==
  ASSUME NEW args \in Seq(Argument)
  PROVE  \E F : /\ F[0] = CliStart
                /\ \A k \in 0..(Len(args) - 1) : F[k + 1] = CliStep(F[k], args[k + 1])
                /\ Cli(args) = F[Len(args)]
<1> DEFINE n == Len(args)
           D == DOMAIN args
           Eq(g) == g = [s \in SUBSET D |-> IF s = {} THEN CliStart
                                           ELSE CliStep(g[s \ {Max(s)}], args[Max(s)])]
           iter == CHOOSE g : Eq(g)
           step == [x \in CliState \X Argument |-> CliStep(x[1], x[2])]
           F == [k \in 0..n |-> iter[1..k]]
<1>1. Cli(args) = iter[D]
  BY Zenon DEF Cli, FoldLeft, MapThenFoldSet, CliStart
<1>2. n \in Nat /\ D = 1..n /\ args \in [1..n -> Argument]
  OBVIOUS
<1>3. step \in [CliState \X Argument -> CliState]
  BY CliStepType
<1>4. CliStart \in CliState
  BY DEF CliStart, CliState
<1> HIDE DEF n, D
<1>5. \E g : Eq(g)
  <2>1. PICK f \in [SUBSET (1..n) -> CliState] : \A S \in SUBSET (1..n) :
          f[S] = IF S = {} THEN CliStart ELSE step[<<f[S \ {Max(S)}], args[Max(S)]>>]
    <3> HIDE DEF step
    <3>1. FoldsOf(n, CliState, step, CliStart, args) # {}
      BY <1>2, <1>3, <1>4, FoldExists
    <3> QED
      BY <3>1 DEF FoldsOf
  <2>2. ASSUME NEW S \in SUBSET (1..n), S # {}
        PROVE  f[S] = CliStep(f[S \ {Max(S)}], args[Max(S)])
    <3>1. Max(S) \in 1..n
      BY <1>2, <2>2, MaxIn
    <3>2. f[S \ {Max(S)}] \in CliState /\ args[Max(S)] \in Argument
      BY <1>2, <3>1
    <3>3. step[<<f[S \ {Max(S)}], args[Max(S)]>>] = CliStep(f[S \ {Max(S)}], args[Max(S)])
      BY <3>2
    <3> QED
      BY <2>1, <2>2, <3>3
  <2>3. Eq(f)
    BY <1>2, <2>1, <2>2
  <2> QED
    BY <2>3
<1>6. Eq(iter)
  BY <1>5
<1> HIDE DEF iter
<1>7. /\ F[0] = iter[{}] /\ F[n] = iter[D]
      /\ \A k \in 0..(n - 1) : LET S == 1..(k + 1)
                              IN /\ S \in SUBSET (1..n) /\ S # {} /\ Max(S) = k + 1
                                 /\ F[k + 1] = iter[S] /\ F[k] = iter[S \ {Max(S)}]
  BY <1>2, FoldAlong
<1> HIDE DEF F
<1>8. F[0] = CliStart
  BY <1>6, <1>7
<1>9. ASSUME NEW k \in 0..(n - 1)
      PROVE  F[k + 1] = CliStep(F[k], args[k + 1])
  <2> DEFINE S == 1..(k + 1)
  <2>1. S \in SUBSET D /\ S # {} /\ Max(S) = k + 1 /\ F[k + 1] = iter[S] /\ F[k] = iter[S \ {Max(S)}]
    BY <1>2, <1>7
  <2> HIDE DEF S
  <2>2. iter[S] = CliStep(iter[S \ {Max(S)}], args[Max(S)])
    BY <1>6, <2>1
  <2> QED
    BY <2>1, <2>2
<1> QED
  BY <1>1, <1>7, <1>8, <1>9 DEF n

(* Where the command starts: before it there are options without a value. *)
LEMMA CommandStart ==
  ASSUME NEW args \in Seq(Argument)
  PROVE  \E m \in 0..Len(args) :
           /\ Command(args) = SubSeq(args, m + 1, Len(args))
           /\ Len(args) - Len(Command(args)) = m
           /\ (\A i \in 1..m : ~TakesValue(args[i])) => \A i \in 1..m : IsOption(args[i])
           /\ m < Len(args) => ~IsOption(args[m + 1])
<1> DEFINE starts == {i \in DOMAIN args : ~IsOption(args[i]) /\ (i = 1 \/ ~TakesValue(args[i - 1]))}
<1> DEFINE n == Len(args)
<1>1. n \in Nat /\ DOMAIN args = 1..n
  OBVIOUS
<1>2. ASSUME NEW m \in 0..n, \A i \in starts : m < i, \A i \in 1..m : ~TakesValue(args[i])
      PROVE  \A i \in 1..m : IsOption(args[i])
  <2> SUFFICES ASSUME NEW i \in 1..m, ~IsOption(args[i])
               PROVE  FALSE
    OBVIOUS
  <2>1. i \notin starts /\ i \in DOMAIN args
    BY <1>1, <1>2
  <2>2. i # 1 /\ TakesValue(args[i - 1])
    BY <2>1
  <2>3. i - 1 \in 1..m
    BY <1>1, <2>2
  <2> QED
    BY <1>2, <2>2, <2>3
<1>3. CASE starts = {}
  <2>1. Command(args) = <<>>
    BY <1>3 DEF Command
  <2>2. Len(Command(args)) = 0 /\ SubSeq(args, n + 1, n) = <<>>
    BY <1>1, <2>1
  <2>3. \A i \in starts : n < i
    BY <1>3
  <2>4. (\A i \in 1..n : ~TakesValue(args[i])) => \A i \in 1..n : IsOption(args[i])
    BY <1>1, <1>2, <2>3
  <2>5. n \in 0..n /\ Command(args) = SubSeq(args, n + 1, n) /\ n - Len(Command(args)) = n /\ ~(n < n)
    BY <1>1, <2>1, <2>2
  <2> HIDE DEF n, starts
  <2> QED
    BY <2>4, <2>5 DEF n
<1>4. CASE starts # {}
  <2> DEFINE s == CHOOSE i \in starts : \A j \in starts : i <= j
  <2>1. \E i \in starts : \A j \in starts : i <= j
    <3>1. starts \subseteq Nat
      BY <1>1
    <3> QED
      BY <1>4, <3>1, LeastElement
  <2>2. s \in starts /\ \A j \in starts : s <= j
    BY <2>1
  <2>3. Command(args) = SubSeq(args, s, n)
    BY <1>4 DEF Command
  <2> HIDE DEF s
  <2>4. s \in 1..n /\ ~IsOption(args[s])
    BY <1>1, <2>2
  <2>5. Len(SubSeq(args, s, n)) = n - s + 1
    BY <1>1, <2>4
  <2>6. (s - 1) \in 0..n /\ (s - 1) + 1 = s /\ n - (n - s + 1) = s - 1
    BY <1>1, <2>4
  <2>7. (\A i \in 1..(s - 1) : ~TakesValue(args[i])) => \A i \in 1..(s - 1) : IsOption(args[i])
    <3>1. \A i \in starts : s - 1 < i
      BY <1>1, <2>2, <2>4
    <3> QED
      BY <1>2, <2>6, <3>1
  <2> DEFINE m == s - 1
  <2>8. /\ m \in 0..n /\ Command(args) = SubSeq(args, m + 1, n) /\ n - Len(Command(args)) = m
        /\ ~IsOption(args[m + 1])
    BY <2>3, <2>4, <2>5, <2>6
  <2> HIDE DEF n, starts
  <2> QED
    BY <2>7, <2>8 DEF n
<1> QED
  BY <1>3, <1>4

(* What ParseArgs keeps of options without a value. *)
Options(o) == \A i \in 1..Len(o) : IsOption(o[i]) /\ o[i] \notin ValueOptions

(* Splitting them gives options without a value.                           *)
LEMMA OptionsSplit ==
  ASSUME NEW acc \in ParseState, Options(acc.result), ~acc.rest, ~acc.isOptionArgs,
         NEW a \in Argument, IsOption(a), ~TakesValue(a)
  PROVE  LET next == ParseStep(acc, a)
         IN next \in ParseState /\ Options(next.result) /\ ~next.rest /\ ~next.isOptionArgs
<1> DEFINE parts == IF a.kind = "short" /\ Len(a.text) > 1 THEN Split(a) ELSE <<a>>
           next == ParseStep(acc, a)
<1>1. next \in ParseState
  BY ParseStepType
<1>2. parts \in Seq(Argument) /\ Options(parts)
  <2>1. CASE a.kind = "short" /\ Len(a.text) > 1
    <3>1. parts = Split(a) /\ parts \in Seq(Argument) /\ DOMAIN parts = DOMAIN a.text
      BY <2>1, SplitType
    <3>2. \A i \in DOMAIN a.text : parts[i] = Short(<<a.text[i]>>) /\ parts[i] \notin ValueOptions
      BY <2>1, SplitType DEF TakesValue
    <3> HIDE DEF parts
    <3>3. \A i \in DOMAIN a.text : IsOption(parts[i])
      <4>1. \A x : IsOption(Short(x))
        BY DEF Short, IsOption
      <4> QED
        BY <3>2, <4>1
    <3>4. \A i \in 1..Len(parts) : i \in DOMAIN a.text
      BY <3>1
    <3> QED
      BY <3>1, <3>2, <3>3, <3>4 DEF Options
  <2>2. CASE ~(a.kind = "short" /\ Len(a.text) > 1)
    BY <2>2 DEF Options, TakesValue
  <2> QED
    BY <2>1, <2>2
<1>3. \A i \in DOMAIN parts : parts[i] \notin ValueOptions
  BY <1>2 DEF Options
<1>4. next = [acc EXCEPT !.result = @ \o parts,
                         !.isOptionArgs = @ \/ \E i \in DOMAIN parts : parts[i] \in ValueOptions]
  BY DEF ParseStep
<1> HIDE DEF parts, next
<1>5. ~next.rest /\ ~next.isOptionArgs /\ next.result = acc.result \o parts
  BY <1>3, <1>4 DEF ParseState
<1>6. Options(acc.result \o parts)
  <2>1. acc.result \in Seq(Argument)
    BY DEF ParseState
  <2> QED
    BY <1>2, <2>1 DEF Options
<1> QED
  BY <1>1, <1>5, <1>6 DEF next

(* A slice with the next element is a slice.                               *)
LEMMA SliceAppend ==
  ASSUME NEW S, NEW s \in Seq(S), NEW m \in Nat, NEW k \in (m + 1)..(Len(s) - 1)
  PROVE  Append(SubSeq(s, m + 1, k), s[k + 1]) = SubSeq(s, m + 1, k + 1)
<1> DEFINE c == SubSeq(s, m + 1, k)
           e == SubSeq(s, m + 1, k + 1)
           x == s[k + 1]
<1>1. c \in Seq(S)
  OBVIOUS
<1>2. Len(c) = k - m /\ \A i \in 1..(k - m) : c[i] = s[m + i]
  OBVIOUS
<1>3. e \in Seq(S)
  OBVIOUS
<1>4. Len(e) = k + 1 - m /\ \A i \in 1..(k + 1 - m) : e[i] = s[m + i]
  OBVIOUS
<1>5. x \in S
  OBVIOUS
<1>6. e[k + 1 - m] = x
  BY <1>4
<1> HIDE DEF c, e, x
<1>7. Append(c, x) \in Seq(S)
  BY <1>1, <1>5, AppendProperties
<1>8. Len(Append(c, x)) = Len(c) + 1 /\ Append(c, x)[Len(c) + 1] = x
  BY <1>1, <1>5, AppendProperties
<1>9. \A i \in 1..Len(c) : Append(c, x)[i] = c[i]
  BY <1>1, <1>5, AppendProperties
<1>10. Len(Append(c, x)) = Len(e) /\ \A i \in 1..Len(Append(c, x)) : Append(c, x)[i] = e[i]
  BY <1>2, <1>4, <1>6, <1>8, <1>9
<1>11. Append(c, x) = e
  BY <1>3, <1>7, <1>10, SeqEqual
<1> QED
  BY <1>11 DEF c, e, x

LEMMA SliceLonger ==
  ASSUME NEW S, NEW o \in Seq(S), NEW s \in Seq(S), NEW m \in Nat, NEW k \in (m + 1)..(Len(s) - 1)
  PROVE  Append(o \o SubSeq(s, m + 1, k), s[k + 1]) = o \o SubSeq(s, m + 1, k + 1)
<1> DEFINE c == SubSeq(s, m + 1, k)
           x == s[k + 1]
<1>1. c \in Seq(S) /\ x \in S
  OBVIOUS
<1>2. Append(c, x) = SubSeq(s, m + 1, k + 1)
  BY SliceAppend
<1> HIDE DEF c, x
<1>3. o \o c \in Seq(S) /\ <<x>> \in Seq(S)
  BY <1>1
<1>4. Append(o \o c, x) = (o \o c) \o <<x>>
  BY <1>1, <1>3, AppendIsConcat
<1>5. Append(c, x) = c \o <<x>>
  BY <1>1, AppendIsConcat
<1>6. (o \o c) \o <<x>> = o \o (c \o <<x>>)
  BY <1>1, <1>3, ConcatAssociative
<1> QED
  BY <1>2, <1>4, <1>5, <1>6 DEF c, x

(* ParseArgs splits what comes before the command and hands on the rest. *)
LEMMA ParseKeeps ==
  ASSUME NEW args \in Seq(Argument), NEW m \in 0..Len(args),
         \A i \in 1..m : IsOption(args[i]) /\ ~TakesValue(args[i]),
         m < Len(args) => ~IsOption(args[m + 1])
  PROVE  \E o \in Seq(Argument) : Options(o) /\ ParseArgs(args) = o \o SubSeq(args, m + 1, Len(args))
<1> DEFINE n == Len(args)
<1>1. n \in Nat /\ m \in Nat /\ \A i \in 1..n : args[i] \in Argument
  OBVIOUS
<1>2. PICK F : /\ F[0] = ParseStart
               /\ \A k \in 0..(n - 1) : F[k + 1] = ParseStep(F[k], args[k + 1])
               /\ ParseArgs(args) = F[n].result
  BY ParseFold
<1> DEFINE Before(k) == F[k] \in ParseState /\ Options(F[k].result) /\ ~F[k].rest /\ ~F[k].isOptionArgs
           P == {k \in 0..m : Before(k)}
<1>3. Before(m)
  <2>1. Before(0)
    <3>1. Len(<<>>) = 0 /\ <<>> \in Seq(Argument)
      OBVIOUS
    <3> QED
      BY <1>2, <3>1 DEF ParseStart, ParseState, Options
  <2>2. ASSUME NEW k \in 0..(m - 1), Before(k)
        PROVE  Before(k + 1)
    <3>1. k + 1 \in 1..m /\ k + 1 \in 1..n /\ k \in 0..(n - 1)
      BY <1>1
    <3>2. F[k + 1] = ParseStep(F[k], args[k + 1]) /\ args[k + 1] \in Argument
      BY <1>1, <1>2, <3>1
    <3>3. IsOption(args[k + 1]) /\ ~TakesValue(args[k + 1])
      BY <3>1
    <3> QED
      BY <2>2, <3>2, <3>3, OptionsSplit
  <2> HIDE DEF Before
  <2>3. 0 \in P /\ \A k \in 0..(m - 1) : k \in P => k + 1 \in P
    BY <1>1, <2>1, <2>2
  <2>4. m \in P
    <3> HIDE DEF P
    <3> QED
      BY <1>1, <2>3, Induction
  <2> QED
    BY <2>4
<1> HIDE DEF P
<1> DEFINE o == F[m].result
           After(k) == F[k] \in ParseState /\ F[k].rest /\ F[k].result = o \o SubSeq(args, m + 1, k)
           Q == {k \in (m + 1)..n : After(k)}
<1>4. o \in Seq(Argument) /\ Options(o)
  BY <1>3 DEF ParseState
<1>5. CASE m = n
  <2>1. SubSeq(args, m + 1, n) = <<>> /\ o \o <<>> = o
    BY <1>1, <1>4, <1>5
  <2> HIDE DEF o, n
  <2> QED
    BY <1>2, <1>4, <1>5, <2>1 DEF n, o
<1>6. CASE m # n
  <2> HIDE DEF o
  <2>1. m \in 0..(n - 1) /\ m + 1 \in 1..n
    BY <1>1, <1>6
  <2>2. /\ F[m + 1] = [F[m] EXCEPT !.rest = TRUE, !.result = Append(@, args[m + 1])]
        /\ F[m + 1] \in ParseState
    <3>1. F[m + 1] = ParseStep(F[m], args[m + 1]) /\ ~IsOption(args[m + 1]) /\ args[m + 1] \in Argument
      BY <1>1, <1>2, <2>1
    <3> QED
      BY <1>3, <3>1, ParseStepType DEF ParseStep
  <2>3. After(m + 1)
    <3>1. Append(o, args[m + 1]) = o \o SubSeq(args, m + 1, m + 1)
      BY <1>1, <1>4, <2>1
    <3> QED
      BY <1>3, <2>2, <3>1 DEF ParseState, o
  <2>4. ASSUME NEW k \in (m + 1)..(n - 1), After(k)
        PROVE  After(k + 1)
    <3>1. k \in 0..(n - 1) /\ k + 1 \in 1..n
      BY <1>1, <2>4
    <3>2. F[k + 1] = ParseStep(F[k], args[k + 1]) /\ args[k + 1] \in Argument
      BY <1>1, <1>2, <3>1
    <3>3. F[k] \in ParseState /\ F[k].rest /\ F[k].result = o \o SubSeq(args, m + 1, k)
      BY <2>4
    <3>4. F[k + 1] \in ParseState
      BY <3>2, <3>3, ParseStepType
    <3>5. F[k + 1] = [F[k] EXCEPT !.rest = TRUE, !.result = Append(@, args[k + 1])]
      BY <3>2, <3>3, Zenon DEF ParseStep
    <3>6. Append(o \o SubSeq(args, m + 1, k), args[k + 1]) = o \o SubSeq(args, m + 1, k + 1)
      BY <1>1, <1>4, <2>4, <3>1, SliceLonger
    <3> QED
      BY <3>3, <3>4, <3>5, <3>6 DEF ParseState
  <2>5. After(n)
    <3> HIDE DEF After
    <3>1. m + 1 \in Q /\ \A k \in (m + 1)..(n - 1) : k \in Q => k + 1 \in Q
      BY <1>1, <2>1, <2>3, <2>4
    <3>2. m + 1 \in Nat /\ n \in Nat /\ m + 1 <= n
      BY <1>1, <2>1
    <3>3. n \in Q
      <4> HIDE DEF Q
      <4> QED
        BY <3>1, <3>2, Induction
    <3> QED
      BY <3>3
  <2> HIDE DEF n
  <2> QED
    BY <1>2, <1>4, <2>5 DEF n
<1> QED
  BY <1>5, <1>6

(* The flag package takes the options before the first word away. *)
LEMMA CliKeeps ==
  ASSUME NEW r \in Seq(Argument), NEW m \in 0..Len(r),
         \A i \in 1..m : IsOption(r[i]) /\ r[i] \notin ValueOptions,
         m < Len(r) => ~IsOption(r[m + 1])
  PROVE  Cli(r).args = SubSeq(r, m + 1, Len(r))
<1> DEFINE n == Len(r)
<1>1. n \in Nat /\ m \in Nat /\ \A i \in 1..n : r[i] \in Argument
  OBVIOUS
<1>2. PICK F : /\ F[0] = CliStart
               /\ \A k \in 0..(n - 1) : F[k + 1] = CliStep(F[k], r[k + 1])
               /\ Cli(r) = F[n]
  BY CliFold
<1> DEFINE Before(k) == F[k] \in CliState /\ ~F[k].rest /\ F[k].option = <<>> /\ F[k].args = <<>>
           P == {k \in 0..m : Before(k)}
<1>3. Before(m)
  <2>1. Before(0)
    BY <1>2 DEF CliStart, CliState
  <2>2. ASSUME NEW k \in 0..(m - 1), Before(k)
        PROVE  Before(k + 1)
    <3>1. k + 1 \in 1..m /\ k + 1 \in 1..n /\ k \in 0..(n - 1)
      BY <1>1
    <3>2. F[k + 1] = CliStep(F[k], r[k + 1]) /\ r[k + 1] \in Argument
      BY <1>1, <1>2, <3>1
    <3>3. IsOption(r[k + 1]) /\ r[k + 1] \notin ValueOptions
      BY <3>1
    <3>4. F[k + 1] \in CliState
      BY <2>2, <3>2, CliStepType
    <3>5. F[k + 1] = [F[k] EXCEPT !.flags = @ \cup {r[k + 1].text[1]}]
      BY <2>2, <3>2, <3>3, Zenon DEF CliStep
    <3> QED
      BY <2>2, <3>4, <3>5 DEF CliState
  <2> HIDE DEF Before
  <2>3. 0 \in P /\ \A k \in 0..(m - 1) : k \in P => k + 1 \in P
    BY <1>1, <2>1, <2>2
  <2>4. m \in P
    <3> HIDE DEF P
    <3> QED
      BY <1>1, <2>3, Induction
  <2> QED
    BY <2>4
<1> HIDE DEF P
<1> DEFINE After(k) == F[k] \in CliState /\ F[k].rest /\ F[k].args = SubSeq(r, m + 1, k)
           Q == {k \in (m + 1)..n : After(k)}
<1>4. CASE m = n
  <2>1. SubSeq(r, m + 1, n) = <<>>
    BY <1>1, <1>4
  <2> HIDE DEF n
  <2> QED
    BY <1>2, <1>3, <1>4, <2>1 DEF n
<1>5. CASE m # n
  <2>1. m \in 0..(n - 1) /\ m + 1 \in 1..n
    BY <1>1, <1>5
  <2>2. /\ F[m + 1] = [F[m] EXCEPT !.rest = TRUE, !.args = Append(@, r[m + 1])]
        /\ F[m + 1] \in CliState
    <3>1. F[m + 1] = CliStep(F[m], r[m + 1]) /\ ~IsOption(r[m + 1]) /\ r[m + 1] \in Argument
      BY <1>1, <1>2, <2>1
    <3>2. r[m + 1] \notin ValueOptions
      BY <3>1 DEF ValueOptions, IsOption, Short, Long
    <3>3. F[m] \in CliState /\ ~F[m].rest /\ F[m].option = <<>>
      BY <1>3
    <3>4. F[m + 1] \in CliState
      BY <3>1, <3>3, CliStepType
    <3>5. F[m + 1] = [F[m] EXCEPT !.rest = TRUE, !.args = Append(@, r[m + 1])]
      BY <3>1, <3>2, <3>3, Zenon DEF CliStep
    <3> QED
      BY <3>4, <3>5
  <2>3. After(m + 1)
    <3>1. Append(<<>>, r[m + 1]) = SubSeq(r, m + 1, m + 1)
      BY <1>1, <2>1
    <3> QED
      BY <1>3, <2>2, <3>1 DEF CliState
  <2>4. ASSUME NEW k \in (m + 1)..(n - 1), After(k)
        PROVE  After(k + 1)
    <3>1. k \in 0..(n - 1) /\ k + 1 \in 1..n
      BY <1>1, <2>4
    <3>2. F[k + 1] = CliStep(F[k], r[k + 1]) /\ r[k + 1] \in Argument
      BY <1>1, <1>2, <3>1
    <3>3. F[k] \in CliState /\ F[k].rest /\ F[k].args = SubSeq(r, m + 1, k)
      BY <2>4
    <3>4. F[k + 1] \in CliState
      BY <3>2, <3>3, CliStepType
    <3>5. F[k + 1] = [F[k] EXCEPT !.args = Append(@, r[k + 1])]
      BY <3>2, <3>3, Zenon DEF CliStep
    <3>6. Append(SubSeq(r, m + 1, k), r[k + 1]) = SubSeq(r, m + 1, k + 1)
      BY <1>1, <2>4, <3>1, SliceAppend
    <3> QED
      BY <3>3, <3>4, <3>5, <3>6 DEF CliState
  <2>5. After(n)
    <3> HIDE DEF After
    <3>1. m + 1 \in Q /\ \A k \in (m + 1)..(n - 1) : k \in Q => k + 1 \in Q
      BY <1>1, <2>1, <2>3, <2>4
    <3>2. m + 1 \in Nat /\ n \in Nat /\ m + 1 <= n
      BY <1>1, <2>1
    <3>3. n \in Q
      <4> HIDE DEF Q
      <4> QED
        BY <3>1, <3>2, Induction
    <3> QED
      BY <3>3
  <2> HIDE DEF n
  <2> QED
    BY <1>2, <2>5 DEF n
<1> QED
  BY <1>4, <1>5

(* Both together hand on a command as it was typed.                        *)
LEMMA CommandKeeps ==
  ASSUME NEW args \in Seq(Argument),
         \A i \in 1..(Len(args) - Len(Command(args))) : ~TakesValue(args[i])
  PROVE  Cli(ParseArgs(args)).args = Command(args)
<1>1. PICK m \in 0..Len(args) :
           /\ Command(args) = SubSeq(args, m + 1, Len(args))
           /\ Len(args) - Len(Command(args)) = m
           /\ (\A i \in 1..m : ~TakesValue(args[i])) => \A i \in 1..m : IsOption(args[i])
           /\ m < Len(args) => ~IsOption(args[m + 1])
  BY CommandStart
<1>2. \A i \in 1..m : IsOption(args[i]) /\ ~TakesValue(args[i])
  BY <1>1
<1> DEFINE c == SubSeq(args, m + 1, Len(args))
<1>3. PICK o \in Seq(Argument) : Options(o) /\ ParseArgs(args) = o \o c
  BY <1>1, <1>2, ParseKeeps
<1>4. c \in Seq(Argument) /\ Len(c) = Len(args) - m /\ (m < Len(args) => c[1] = args[m + 1])
  BY <1>1
<1> DEFINE r == ParseArgs(args)
<1>5. /\ r \in Seq(Argument) /\ Len(o) \in 0..Len(r)
      /\ \A i \in 1..Len(o) : r[i] = o[i]
      /\ Len(o) < Len(r) => r[Len(o) + 1] = args[m + 1] /\ m < Len(args)
      /\ SubSeq(r, Len(o) + 1, Len(r)) = c
  <2> HIDE DEF c
  <2> QED
    BY <1>3, <1>4
<1>6. \A i \in 1..Len(o) : IsOption(r[i]) /\ r[i] \notin ValueOptions
  BY <1>3, <1>5 DEF Options
<1>7. Len(o) < Len(r) => ~IsOption(r[Len(o) + 1])
  BY <1>1, <1>5
<1>8. Cli(r).args = SubSeq(r, Len(o) + 1, Len(r))
  <2> HIDE DEF r
  <2> QED
    BY <1>5, <1>6, <1>7, CliKeeps
<1> QED
  BY <1>1, <1>5, <1>8

(* What is left when the name of the program is taken out is what is meant,*)
(* if no option with a value comes before the command.                     *)
LEMMA AppArgsMeant ==
  ASSUME NEW args \in Seq(Argument),
         \A i \in 1..(Len(Meant(args)) - Len(Command(Meant(args)))) : ~TakesValue(Meant(args)[i])
  PROVE  AppArgs(args) = Meant(args) /\ Meant(args) \in Seq(Argument)
<1>1. \A o \in MainOptions : o \notin Programs /\ TakesValue(o) /\ IsOption(o)
  BY DEF MainOptions, Programs, TakesValue, ValueOptions, IsOption, Word, Short, Long
<1>2. CASE args = <<>>
  BY <1>2 DEF AppArgs, Meant, SubPlaces
<1>3. CASE args # <<>> /\ args[1] \in Programs
  <2>1. 1 \in SubPlaces(args)
    BY <1>3 DEF SubPlaces
  <2>2. \A i \in SubPlaces(args) : i = 1
    <3> SUFFICES ASSUME NEW i \in SubPlaces(args), i # 1
                 PROVE  FALSE
      OBVIOUS
    <3>1. i \in Nat /\ i > 1
      BY DEF SubPlaces
    <3>2. 1 \in 1..(i - 1) /\ 1 % 2 = 1
      BY <3>1
    <3>3. args[1] \in MainOptions
      BY <3>2 DEF SubPlaces
    <3> QED BY <1>1, <1>3, <3>3
  <2>3. AppArgs(args) = RemoveAt(args, 1)
    BY <2>1, <2>2 DEF AppArgs
  <2>4. RemoveAt(args, 1) = Tail(args)
    BY <1>3 DEF RemoveAt
  <2> QED BY <1>3, <2>3, <2>4 DEF Meant
<1>4. CASE args # <<>> /\ args[1] \notin Programs
  <2>1. Meant(args) = args
    BY <1>4 DEF Meant
  <2>2. SubPlaces(args) = {}
    <3> SUFFICES ASSUME NEW i \in SubPlaces(args)
                 PROVE  FALSE
      OBVIOUS
    <3>1. i \in 1..Len(args) /\ i # 1
      BY <1>4 DEF SubPlaces
    <3>2. 1 \in 1..(i - 1) /\ 1 % 2 = 1
      BY <3>1
    <3>3. args[1] \in MainOptions
      BY <3>2 DEF SubPlaces
    <3>4. PICK m \in 0..Len(args) :
               /\ Command(args) = SubSeq(args, m + 1, Len(args))
               /\ Len(args) - Len(Command(args)) = m
               /\ m < Len(args) => ~IsOption(args[m + 1])
      BY CommandStart
    <3>5. m # 0
      BY <1>1, <3>1, <3>3, <3>4
    <3> QED BY <1>1, <2>1, <3>3, <3>4, <3>5
  <2> QED BY <2>1, <2>2 DEF AppArgs
<1> QED BY <1>2, <1>3, <1>4

LEMMA TypedKeeps ==
  ASSUME NEW args \in Seq(Argument), Typed(args).plain
  PROVE  Typed(args).args = Typed(args).command
<1>1. PICK given : given = Meant(args)
  OBVIOUS
<1>2. \A i \in 1..(Len(given) - Len(Command(given))) : ~TakesValue(given[i])
  BY <1>1 DEF Typed
<1>3. AppArgs(args) = given /\ given \in Seq(Argument)
  BY <1>1, <1>2, AppArgsMeant
<1>4. Cli(ParseArgs(given)).args = Command(given)
  BY <1>2, <1>3, CommandKeeps
<1> QED BY <1>1, <1>3, <1>4 DEF Typed

(* A command line is passed on as it was typed from its first word on,     *)
(* when no option with a value precedes it, for every command line.        *)
THEOREM CommandsKept == Spec => []CommandKept
<1>1. LoginInv => CommandKept
  <2> SUFFICES ASSUME LoginInv, NEW p \in Procs, cli[p].plain
               PROVE  cli[p].args = cli[p].command
    BY DEF CommandKept
  <2>1. PICK args \in ArgLists \cup {<<>>} : cli[p] = Typed(args)
    BY DEF LoginInv, ProcessInv, ReadInv
  <2>2. args \in Seq(Argument)
    <3>1. <<>> \in Seq(Argument)
      OBVIOUS
    <3>2. ArgLists \subseteq Seq(Argument)
      BY LoginAssumption
    <3> QED
      BY <3>1, <3>2
  <2> QED
    BY <2>1, <2>2, TypedKeeps
<1> QED BY <1>1, LoginInit, LoginStep, PTL DEF Spec
=============================================================================
