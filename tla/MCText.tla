------------------------------- MODULE MCText -------------------------------
(* Texts for TLC.                                                          *)
EXTENDS DkimText

Texts(chars, n) == UNION {[1..k -> chars] : k \in 0..n}

\* Bodies made of lines, and bodies of any characters to be repaired.
Pieces == {<<"x">>, <<"s">>, CRLF}
LineBodies == {FlattenSeq(p) : p \in Texts(Pieces, 6)}
BodyInputs ==
    [ask : {"body"}, mode : {"simple", "relaxed"}, limit : {-1, 2}, fix : {FALSE}, text : LineBodies]
        \cup [ask : {"body"}, mode : {"simple", "relaxed"}, limit : {-1}, fix : {TRUE},
              text : Texts({"x", "s", "r", "n"}, 6)]

Names == {"From", "To"}
SelectInputs == [ask : {"select"}, text : Texts(Names, 4), names : Texts(Names, 4)]

TagPool == [param : {<<"b">>, <<"b", "h">>, <<"v">>, <<"V">>}, value : {<<>>, <<"v">>, <<"b", "s", "v", "=">>}]
TagInputs == [ask : {"tags"}, text : Texts(TagPool, 2) \ {<<>>}, gap : {<<>>, <<"s">>},
              inner : {<<>>, <<"s">>}, open : BOOLEAN]

\* A header field has a colon; "n" stands for a fold.
FieldInputs ==
    [ask : {"field"}, text : {<<"A">> \o t : t \in {u \in Texts({"A", "a", "s", ":", "n"}, 6) : \E i \in 1..Len(u) : u[i] = ":"}}]

MCInputs == BodyInputs \cup FieldInputs \cup SelectInputs \cup TagInputs
=============================================================================
