----------------------------- MODULE MCListView -----------------------------
(* Four rows of one or two letters: with pages of two rows the list has a   *)
(* second page, and keywords select none, some or all of the rows.          *)
EXTENDS ListView

MCText == <<<<"a", "b">>, <<"b">>, <<"a">>, <<"b", "a">>>>
=============================================================================
