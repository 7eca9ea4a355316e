----------------------------- MODULE MCTerminal -----------------------------
(***************************************************************************)
(* A screen of two rows; what is printed has more characters than a buffer *)
(* or a row, colours, a cleared screen, and lines that are not ended.      *)
(***************************************************************************)
EXTENDS Terminal

MCTexts == {<<"a", "b">>, <<"b", "nl">>}
MCModes == {<<"r">>, <<"r", "+">>, <<"w">>, <<"w", "+", "b">>, <<"r", "w", "b">>}

Red == <<"esc", "[", "2", ";", "3", "1", "m">>
MCOutputs == { Red \o <<"r", "nl">>, <<"b", "b", "b", "b", "b">> ,
               <<"esc", "[", "2", "J", "esc", "[", "H", "c", "nl">> }

Warning == <<"esc", "[", "3", "3", "m", "W", "esc", "[", "3", "9", "m">>
MCMessages == {Kprintf(Warning, <<"%", "d", "%", "s">>, <<-1, <<"!">>>>)}

MCConsoles == {<<"fbcon", "uart">>, <<"vgacon">>}

Symmetry == Permutations(Programs)

Literal(s) == [conv |-> "none", text |-> s]
Number(flags, conv, v) == [conv |-> conv, flags |-> flags, arg |-> v]
Field(flags, width, s) == [conv |-> "s", flags |-> flags, width |-> width, arg |-> s]
Ints == -2^(INTBITS - 1)..2^(INTBITS - 1) - 1
Longs == -2^(LONGBITS - 1) + 1..2^(LONGBITS - 1) - 1
Signs == {<<>>, <<"+">>, <<" ">>, <<" ", "+">>, <<"7">>, <<"h", "+", "h">>, <<"+", "z">>}

MCPieces == {Literal(<<"a">>)} \cup
    {Number(f, c, v) : f \in Signs \ {<<"+", "z">>}, c \in {"d", "i", "u", "o", "x"}, v \in Ints} \cup
    {Number(<<"l">> \o f \o <<"l">>, c, v) : f \in {<<>>, <<"+">>}, c \in {"d", "u", "x"}, v \in Longs} \cup
    {Field(f, n, s) : f \in {<<"3">>, <<"-", "3">>, <<"3", "-">>}, n \in {3}, s \in {<<>>, <<"b">>, <<" ", "b", "b">>, <<"a", "b", "a", "b">>}} \cup
    {Field(<<"1", "2">>, 12, <<"a">>), Field(<<>>, 0, <<"a">>), [conv |-> "c", flags |-> <<>>, arg |-> "c"]}

MCJobs == {<<p>> : p \in MCPieces} \cup {<<p, Literal(<<"1">>), q>> : p \in MCPieces, q \in {Number(<<"+">>, "d", 3), Field(<<"3">>, 3, <<"b">>)}}
=============================================================================
