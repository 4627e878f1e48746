----------------------------- MODULE MCCoreLibrary -----------------------------
(* Values for model-checking CoreLibrary that a configuration cannot spell.   *)
EXTENDS CoreLibrary

(* 16-bit numbers at both ends, in a buffer that octal overruns. *)
MCNumbers == {0, 7, 32767, -1, -32768}

(* Formats of up to two of fourteen directives: every flag, width, precision,
   size and conversion vparsef tells apart.                               *)
D(flags, width, precision, length, conversion) ==
  [literal |-> FALSE, flags |-> flags, width |-> width, precision |-> precision,
   length |-> length, conversion |-> conversion]
Directives ==
  {[literal |-> TRUE, conversion |-> "k"], D(<<>>, <<>>, <<>>, <<>>, "d"),
   D(<<"-", "0">>, <<"6">>, <<>>, <<>>, "d"), D(<<"+">>, <<"*">>, <<>>, <<>>, "i"),
   D(<<" ">>, <<"3">>, <<".", "2">>, <<"l">>, "d"), D(<<"#", "0">>, <<"4">>, <<>>, <<"h", "h">>, "X"),
   D(<<"#">>, <<>>, <<>>, <<>>, "o"), D(<<>>, <<>>, <<>>, <<>>, "p"),
   D(<<>>, <<>>, <<>>, <<"z">>, "u"), D(<<>>, <<>>, <<>>, <<>>, "s"),
   D(<<>>, <<>>, <<>>, <<"L">>, "f"), D(<<>>, <<>>, <<>>, <<"h">>, "n"),
   D(<<>>, <<>>, <<>>, <<>>, "%"), D(<<>>, <<>>, <<>>, <<>>, "y")}
MCFormats == UNION {[1 .. n -> Directives] : n \in 0 .. 2}
MCArguments == {0, 9, -3, 200}
MCLevelOrder == <<"Fatal", "Info", "Warn">>
===============================================================================
