------------------------------- MODULE MCCli --------------------------------
EXTENDS Cli, MCText

\* Every text of up to four of the bytes that make secrets and lines, and
\* some with JSON values, other endings, blank lines or bytes that are no UTF-8.
MCTexts ==
    UNION {[1 .. n -> {"k", "v", "\n"}] : n \in 0 .. 4}
    \cup { <<"k", "v", "\r", "\n", "k", "v">>, <<" ", "\n", "k", "v", "\r">>,
           <<"\r", "\n", "k", "\r", "\n">>, <<"k", "v", "\n", "x", "\n">>,
           <<" ", " ", "\r", "\n", "k", "v">>, <<"k", "v", "k", "v", "\r", "\n">>,
           <<"[", "d", "]", "\n", "d">>, <<"[", "d", "\n", "]">>,
           <<"k", "\n", "[", " ", "]", "\r", "\n">>,
           <<"k", "v", "\n", "k", "v", "\n", "k", "v">> }
MCLimits == {0, 1, 2}
=============================================================================
