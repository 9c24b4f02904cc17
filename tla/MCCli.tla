------------------------------- MODULE MCCli -------------------------------
(* Instances of Cli for TLC.  One text is a time and a number at once, one *)
(* is empty and one is a list of two empty parts.                          *)
EXTENDS Cli

SomeTexts == {<<"">>, <<"x">>, <<"", "">>}
GoodTexts == {<<"x">>}
=============================================================================
