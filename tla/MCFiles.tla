------------------------------ MODULE MCFiles ------------------------------
EXTENDS Files

MCNames == <<".h", "d", "e", "f", "g", "l", "s1", "s2", "s3", "t", "x">>
D(p) == Arg(FALSE, p)

Common(data) ==
  (<<>> :> Directory) @@ (<<"d">> :> Directory) @@ (<<"d", "f">> :> File(data))
One == Common(<<1, 2>>) @@ (<<"e">> :> Directory) @@ (<<"d", ".h">> :> File(<<3>>))
                        @@ (<<"l">> :> Link(D(<<"d">>))) @@ (<<"x">> :> Link(D(<<"d", "f">>)))
Two == Common(<<4, 5, 6>>) @@ (<<"l">> :> Directory)
Local == (<<>> :> Directory) @@ (<<"g">> :> Directory) @@ (<<"g", "f">> :> File(<<7>>))
Blocked == Local @@ (<<"t">> :> Directory) @@ (<<"t", "s1">> :> File(<<8>>))

On(s1, s2, here) == ("s1" :> s1) @@ ("s2" :> s2) @@ ("local" :> here)
MCTrees == {On(One, One, Local), On(One, Two, Blocked)}

MCThree == {("s1" :> One) @@ ("s2" :> One) @@ ("s3" :> One) @@ ("local" :> Local)}

R(p) == [remote |-> TRUE, p |-> p]
L(p) == [remote |-> FALSE, p |-> p]
Scp(from, to, hosts) == [from |-> from, to |-> to, hosts |-> hosts]
MCScpLines ==
  { Scp(<<L(<<"g">>), L(<<"g", "f">>)>>, R(<<"d">>), {"s1", "s2"}),
    Scp(<<L(<<"x">>)>>, R(<<"d">>), {}),
    Scp(<<L(<<"g">>)>>, L(<<"t">>), {}),
    Scp(<<L(<<"g">>), R(<<"d">>)>>, L(<<"t">>), {}),
    Scp(<<R(<<"d">>), R(<<"f">>)>>, L(<<"t">>), {}),
    Scp(<<R(<<"d">>), R(<<"f">>)>>, L(<<"t">>), {"s1", "s2"}),
    Scp(<<R(<<"d">>)>>, R(<<"t">>), {}),
    Scp(<<R(<<"d">>)>>, R(<<"t">>), {"s1"}) }

MCVia == {Scp(<<R(<<"d">>)>>, R(<<"t">>), {})}

Type(op, src, dst) == [op |-> op, src |-> src, dst |-> dst]
MCSftpLines ==
  { Type("cd", <<>>, D(<<"d">>)), Type("cd", <<>>, D(<<"e">>)), Type("cd", <<>>, D(<<"l">>)),
    Type("cdhome", <<>>, D(<<>>)), Type("lcd", <<>>, D(<<"g">>)), Type("lmkdirp", <<>>, D(<<"e", "f">>)),
    Type("get", <<D(<<"d">>)>>, D(<<"t">>)), Type("get", <<D(<<"f">>)>>, D(<<"g">>)),
    Type("get", <<D(<<"l">>)>>, D(<<"t">>)), Type("get", <<D(<<"x">>)>>, D(<<"t">>)),
    Type("put", <<D(<<"g">>)>>, D(<<"e">>)), Type("put", <<D(<<"f">>)>>, Arg(TRUE, <<"d">>)),
    Type("mkdir", <<>>, D(<<"e">>)), Type("mkdirp", <<>>, D(<<"e", "f">>)),
    Type("rm", <<>>, D(<<"f">>)), Type("rmr", <<>>, D(<<"d">>)), Type("rmdir", <<>>, D(<<"e">>)),
    Type("rename", <<D(<<"d">>)>>, D(<<"g">>)), Type("symlink", <<D(<<"d">>)>>, D(<<"t">>)),
    Type("chmod", <<>>, D(<<"f">>)), Type("chown", <<>>, D(<<"d">>)), Type("chgrp", <<>>, D(<<"l">>)),
    Type("ls", <<>>, D(<<"l">>)), Type("pwd", <<>>, D(<<>>)), Type("df", <<>>, D(<<"d">>)),
    Type("ls", <<>>, D(<<"d", "f">>)), Type("exit", <<>>, D(<<>>)) }
=============================================================================
