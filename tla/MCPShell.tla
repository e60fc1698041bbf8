------------------------------ MODULE MCPShell ------------------------------
EXTENDS PShell

Cmd(kind, op) == [kind |-> kind, op |-> op]
One(kind) == <<Cmd(kind, "")>>
MCInputs ==
  { <<One("remote")>>, <<One("rfilter")>>, <<One("lfilter")>>, <<One("silent")>>, <<One("exit")>>,
    << <<Cmd("remote", "|")>> \o One("lfilter"), One("rfilter")>>,
    << <<Cmd("remote", "|"), Cmd("rfilter", "|")>> \o One("head")>>,
    << <<Cmd("local", "|"), Cmd("rfilter", "|")>> \o One("lfilter")>>,
    << <<Cmd("show", "|")>> \o One("rfilter"), One("local")>>,
    << <<Cmd("remote", "|")>> \o One("show")>>,
    << <<Cmd("remote", "&&")>> \o One("local")>> }
=============================================================================
