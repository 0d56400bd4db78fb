----------------------------- MODULE MCModules -----------------------------
(* Small programs for module Modules: up to renaming every graph of three   *)
(* modules that each request none, one or both others, one of them perhaps  *)
(* the same by two names, and some of four; any module of them with an      *)
(* await of its own.                                                        *)
EXTENDS Modules

Names == {"a", "b", "c", "d"}

Program(a, b, c, d) == <<a, b, c, d>>
Requests(p) == [m \in Names |-> CASE m = "a" -> p[1] [] m = "b" -> p[2]
                                  [] m = "c" -> p[3] [] m = "d" -> p[4]]

\* A module that requests any is a, and the first it requests is b.
Small == {Program(a, b, c, <<>>) :
            a \in {<<"b">>, <<"b", "c">>, <<"b", "b">>},
            b \in {<<>>, <<"a">>, <<"c">>, <<"a", "c">>, <<"c", "a">>},
            c \in {<<>>, <<"a">>, <<"b">>, <<"a", "b">>, <<"b", "a">>}}

\* A cycle that waits on a module at each of two places, a module over two
\* members of a cycle, two cycles that share a module, and a diamond.
Larger == {
    Program(<<"b", "d">>, <<"a", "c">>, <<>>, <<>>),
    Program(<<"b">>, <<"a", "c">>, <<>>, <<"c", "b", "a">>),
    Program(<<"b", "c">>, <<"a">>, <<"a", "d">>, <<>>),
    Program(<<"b", "c">>, <<"d">>, <<"d">>, <<>>)}

MCGraphs ==
    [requested : {Requests(p) : p \in Small}, hasAwait : SUBSET {"a", "b", "c"}]
        \union [requested : {Requests(p) : p \in Larger}, hasAwait : SUBSET Names]
=============================================================================
