----------------------------- MODULE MCCmdMode ------------------------------
EXTENDS CmdMode

MCServerLists == {<<"a">>, <<"a", "b">>, <<"b", "c">>}
MCID == [s \in {"a", "b", "c"} |-> IF s = "a" THEN 1 ELSE 2]
=============================================================================
