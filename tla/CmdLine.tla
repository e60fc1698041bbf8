------------------------------ MODULE CmdLine -------------------------------
(***************************************************************************)
(* What bssh makes of its command line (cmd/bssh/main.go, app/ssh.go,      *)
(* common.ParseArgs).  An argument is a word, a group of short options     *)
(* (the letters after one hyphen) or a long option.                        *)
(***************************************************************************)
EXTENDS Integers, Sequences, FiniteSets, SequencesExt

Word(w) == [kind |-> "word", text |-> <<w>>]
Short(letters) == [kind |-> "short", text |-> letters]
Long(name) == [kind |-> "long", text |-> <<name>>]
Argument == [kind : {"word", "short", "long"}, text : Seq(STRING) \ {<<>>}]

(* Options with a value of the ssh command: host, configuration file, port *)
(* forwards.  main knows the first two only.                               *)
ValueOptions == {Short(<<"H">>), Long("host"), Short(<<"c">>), Long("cnf"),
                 Short(<<"L">>), Short(<<"R">>), Short(<<"D">>)}
MainOptions == {Short(<<"H">>), Long("host"), Short(<<"c">>), Long("cnf")}

IsOption(a) == a.kind # "word"
TakesValue(a) == a \in ValueOptions \/ (a.kind = "short" /\ \E i \in DOMAIN a.text : Short(<<a.text[i]>>) \in ValueOptions)

-----------------------------------------------------------------------------
(* main: the first argument that is neither one of its options nor the     *)
(* value of one names a program, if it is one of three, and is taken out.  *)
(* pflag gives up at an option it does not know.  A value is an argument   *)
(* of its own here, never written in one with its option.                  *)
Programs == {Word("scp"), Word("ftp"), Word("ssh")}
SubPlaces(args) ==
  {i \in DOMAIN args : /\ i % 2 = 1 /\ args[i] \in Programs
                       /\ \A j \in 1..(i - 1) : j % 2 = 1 => args[j] \in MainOptions}
SubCommand(args) == IF \E i \in SubPlaces(args) : args[i] # Word("ssh") THEN "other" ELSE "ssh"
AppArgs(args) == IF SubPlaces(args) = {} THEN args ELSE RemoveAt(args, CHOOSE i \in SubPlaces(args) : TRUE)

(* ParseArgs splits -la into -l -a, up to the first word that is not an    *)
(* option's value.  isOptionArgs is not cleared once it is set.            *)
Split(a) == [i \in 1..Len(a.text) |-> Short(<<a.text[i]>>)]

SplitCommand(acc, a) ==  \* deviation: the command's own options are split too
  [acc EXCEPT !.result = @ \o (IF a.kind = "short" THEN Split(a) ELSE <<a>>)]
ParseStep(acc, a) ==
  IF acc.rest \/ (~IsOption(a) /\ ~acc.isOptionArgs)
  THEN [acc EXCEPT !.rest = TRUE, !.result = Append(@, a)]
  ELSE IF ~IsOption(a) THEN [acc EXCEPT !.result = Append(@, a)]
  ELSE LET parts == IF a.kind = "short" /\ Len(a.text) > 1 THEN Split(a) ELSE <<a>>
       IN [acc EXCEPT !.result = @ \o parts,
                      !.isOptionArgs = @ \/ \E i \in DOMAIN parts : parts[i] \in ValueOptions]
ParseArgs(args) == FoldLeft(ParseStep, [rest |-> FALSE, isOptionArgs |-> FALSE, result |-> <<>>], args).result

(* The flag package: options up to the first word that is not the value of *)
(* one; the rest is c.Args().                                              *)
CliStep(acc, a) ==
  IF acc.rest THEN [acc EXCEPT !.args = Append(@, a)]
  ELSE IF acc.option # <<>>
       THEN [acc EXCEPT !.option = <<>>,
                        !.hosts = IF acc.option[1] \in {Short(<<"H">>), Long("host")} THEN Append(@, a.text[1]) ELSE @]
  ELSE IF a \in ValueOptions THEN [acc EXCEPT !.option = <<a>>]
  ELSE IF IsOption(a) THEN [acc EXCEPT !.flags = @ \cup {a.text[1]}]
  ELSE [acc EXCEPT !.rest = TRUE, !.args = Append(@, a)]
Cli(args) == FoldLeft(CliStep, [rest |-> FALSE, option |-> <<>>, flags |-> {}, hosts |-> <<>>, args |-> <<>>], args)

(* lsshAction's parseMode and parseMultiFlag: -N makes it a shell.         *)
parseMode(c) ==
  IF "N" \in c.flags THEN "shell"
  ELSE IF "s" \in c.flags THEN "pshell"
  ELSE IF c.args # <<>> THEN "cmd" ELSE "shell"
parseMultiFlag(c) == (c.args # <<>> \/ "s" \in c.flags) /\ "N" \notin c.flags

(* The command line as it is understood, with what the user meant by it:   *)
(* a program's name may come first; the command starts at the first word   *)
(* that is not the value of the option before it.                          *)
Meant(args) == IF args # <<>> /\ args[1] \in Programs THEN Tail(args) ELSE args
Command(args) ==
  LET starts == {i \in DOMAIN args : ~IsOption(args[i]) /\ (i = 1 \/ ~TakesValue(args[i - 1]))}
  IN IF starts = {} THEN <<>>
     ELSE SubSeq(args, CHOOSE i \in starts : \A j \in starts : i <= j, Len(args))

Typed(args) ==
  LET c == Cli(ParseArgs(AppArgs(args)))
      given == Meant(args)
  IN [flags |-> c.flags, hosts |-> c.hosts, args |-> c.args, command |-> Command(given),
      plain |-> \A i \in 1..(Len(given) - Len(Command(given))) : ~TakesValue(given[i])]
=============================================================================
