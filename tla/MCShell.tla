------------------------------ MODULE MCShell ------------------------------
(***************************************************************************)
(* Shell for TLC: the programs and the lines.                              *)
(***************************************************************************)
EXTENDS Shell

MCPrograms == [word \in {"gen", "big", "cat"} |->
    [filter |-> word = "cat",
     writes |-> CASE word = "gen" -> 2 [] word = "big" -> 3 [] OTHER -> 0]]

Spaced(ws) == [n \in 1..(2 * Len(ws) - 1) |-> IF n % 2 = 1 THEN ws[(n + 1) \div 2] ELSE " "]

GuideLines == {
    <<"gen">>, <<"cat">>,
    <<"gen", "|", "cat">>, <<"gen", "|", "gen">>, <<"big", "|", "cat">>, <<"gen", "|", "big">>,
    <<"gen", "|", "cat", "|", "cat">>,
    <<"gen", "||", "cat", ",", "cat">>, <<"cat", "|", "gen", "||", "big", ",", "cat">>,
    <<"gen", "|||", "cat", ",", "big", ",", "cat">> }

OtherLines == {
    <<"gen", ">", "x">>, <<"cat", "<", "x", ">>", "x">>, <<"cat", "<">>,
    <<"cd">>, <<"cd", "<", "x">>, <<"cd", "|", "cat">>, <<"gen", "|", "cd">>,
    <<"|", "cat">>, <<"gen", "||", "cat">>, <<"gen", ",", "cat", "|", "cat">>,
    <<"gen", "|||", "cat", ",", "cat", ",", "cat", "|", "cat", "|", "gen">>,
    <<"gen", "|", "|", "cat">>, <<"gen", "|", "cat", ";", "cat">> }

MCLines == GuideLines \cup OtherLines
    \cup {Spaced(ws) : ws \in {<<"gen", "|", "cat">>}}
    \cup {<<"gen", " ", " ", "|", " ", "cat">>, <<"gen", " ", "|", " ", " ", "cat">>}
=============================================================================
