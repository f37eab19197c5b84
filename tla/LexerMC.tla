------------------------------ MODULE LexerMC -------------------------------
(* Instances of Lexer for TLC: files of any layout, and files of words.     *)
EXTENDS Lexer

CONSTANT LayoutLength

SeqsUpTo(S, n) == UNION {[1 .. k -> S] : k \in 0 .. n}

(* Names, comments, blanks and line ends in any order.                      *)
LayoutFiles == SeqsUpTo({"x", "#", Blank, Newline}, LayoutLength)

(* Words of every kind, well and badly formed, each with what follows it.   *)
MCWords ==
    {<<"MOVE">>, <<"CREATEFRAME">>, <<"JUMPIFEQ">>, <<"GF", "@">>, <<"GF", "@", "x">>,
     <<"MOVE", ":">>, <<":">>, <<"int", "@", Digits>>, <<"int", "@", "x">>, <<"int", "@">>,
     <<"string", "@">>, <<"string", "@", "x", Digits>>, <<"bool", "@", "true">>, <<"nil", "@">>}

MCEnds == {<<>>, <<Blank>>, <<Newline>>, <<"#", Newline>>}

WordFiles == {u \o m \o v \o e : u, v \in MCWords, m \in MCEnds, e \in MCEnds}

MCChars == {"x", "#", ":", "@", Digits, Blank, Newline, "MOVE", "CREATEFRAME", "JUMPIFEQ", "GF",
            "int", "string", "bool", "true", "nil"}

MCFiles == LayoutFiles \cup WordFiles
=============================================================================
