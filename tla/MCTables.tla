------------------------------ MODULE MCTables ------------------------------
\* An instance of Tables: two macros with every body of up to two lines and
\* some of three and four; an instruction of two bytes among short ones, and
\* tag 1, whose number is the bit of tag 0; selections made forwards and
\* backwards, and none; conditions that mix "and" and "or" and nest.
EXTENDS Tables, TLC

Lines ==
  {<<"cmd">>, <<"break">>, <<"label", "l">>, <<"goto", "l">>, <<"if", "l">>,
   <<"call", "a">>, <<"call", "b">>}

Bodies ==
  [1 .. 1 -> Lines] \union [1 .. 2 -> Lines] \union
  {<<<<"cmd">>, <<"call", "a">>, <<"cmd">>>>,
   <<<<"call", "b">>, <<"call", "a">>, <<"break">>>>,
   <<<<"label", "l">>, <<"call", "b">>, <<"if", "l">>, <<"cmd">>>>}

OpSizes == (0 :> 1) @@ (1 :> 1) @@ (2 :> 2) @@ (3 :> 1)
Tags == {-1, 0, 1}
MapLens == [f \in MapFile |-> 2]

Selections ==
  {NoCursor} \union
  {[mode |-> TRUE, cursor |-> c[1], ocursor |-> c[2]] : c \in {<<1, -1>>, <<1, 1>>, <<1, 0>>, <<2, 0>>, <<0, 1>>, <<1, 2>>}}

Compare(c, op) == [cmp |-> c, group |-> <<>>, op |-> op]
Group(g, op) == [cmp |-> "none", group |-> g, op |-> op]
Conditions ==
  {<<Compare("x", "")>>,
   <<Compare("x", "and"), Compare("y", "or"), Compare("z", "")>>,
   <<Compare("x", "or"), Compare("y", "and"), Compare("z", "")>>,
   <<Group(<<Compare("x", "and"), Compare("y", "")>>, "or"), Compare("z", "")>>,
   <<Compare("x", "or"), Group(<<Compare("y", "or"), Compare("z", "")>>, "and"), Compare("y", "")>>}
=============================================================================
