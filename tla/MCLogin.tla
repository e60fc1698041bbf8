------------------------------ MODULE MCLogin -------------------------------
EXTENDS Login

Terminals == Permutations(Procs)

Sect(user, pass, tmpl) ==
  [text |-> [f \in TextFields |-> CASE f = "user" -> Plain(user) [] f = "pass" -> pass [] OTHER -> Empty],
   timeout |-> 0, tmpl |-> tmpl]
NoTmpl == NoTemplate
Tmpl(n, pass, line, within) == [n |-> n, user |-> Plain("root"), pass |-> pass, line |-> line, holds |-> {line} \cup within]

MCParts == {<<"k:t", "t">>}

MCFile ==
  [EmptyFile EXCEPT
     !.passphrase = TRUE,
     !.common = Sect("root", Plain("c"), NoTmpl),
     !.servers = ( <<"db">> :> Sect("k:t", Plain("s"), NoTmpl)
                @@ <<"web">> :> Sect("", Empty, Tmpl(2, Plain("t"), "w", {}))
                @@ <<"ask">> :> Sect("", Empty, Tmpl(1, Prompt, "a", {}))
                @@ <<"ask2">> :> Sect("", Empty, Tmpl(1, Prompt, "a2", {"a"})) ),
     !.include = [common |-> Sect("", Plain("i"), NoTmpl), servers |-> <<"inc">> :> Sect("", Empty, NoTmpl)]]
MCNamed ==  \* [server."t"] with the password t
  [EmptyFile EXCEPT !.passphrase = TRUE, !.servers = <<"t">> :> Sect("", Plain("t"), NoTmpl), !.elsewhere = {"t"}]
MCFiles == {MCFile, MCNamed, Mixed}  \* the last is one that two processes have spoilt earlier
MCFirstConf == EmptyFile
MCHostsFiles == {<<>>, <<[user |-> Plain("u"), pass |-> PbeEncode("q"), addr |-> "a", id |-> <<>>, line |-> ""]>>}

Host(h) == <<Short(<<"H">>), Word(h)>>
MCArgLists ==
  {<<>>, <<Short(<<"l">>)>>, Host("db"), Host("web*"), Host("as"), Host("u:p@a"),
   <<Short(<<"p", "t">>), Word("ls"), Short(<<"l", "H">>)>>, <<Word("scp"), Word("x")>>,
   <<Word("ssh"), Short(<<"p", "t">>), Word("ls")>>}

MCHostArg ==
  [h \in {"db", "web*", "as", "u:p@a"} |->
     CASE h = "u:p@a" -> [kind |-> "direct", user |-> "u", pass |-> "p", addr |-> "a"]
       [] h = "web*" -> [kind |-> "pattern", glob |-> <<{<<"web", "1">>, <<"web", "2">>}, {}, {}>>, contains |-> <<{}, {}, {}>>]
       [] h = "as" -> [kind |-> "pattern", glob |-> <<{}, {}, {}>>, contains |-> <<{<<"ask">>, <<"ask2">>}, {<<"ask">>}, {}>>]
       [] OTHER -> [kind |-> "name", name |-> <<h>>]]
=============================================================================
