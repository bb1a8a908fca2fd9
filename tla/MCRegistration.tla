---------------------------- MODULE MCRegistration ----------------------------
(* Two methods on one path, and paths whose placeholders are refused. *)
EXTENDS Registration
CONSTANTS m1, m2
MCKeys == {<<"GET", <<"x", "{", "x", "}">>>>, <<"POST", <<"x", "{", "x", "}">>>>,
           <<"GET", <<"{", "{", "}">>>>, <<"GET", <<"{", "}", "{">>>>,
           <<"GET", [i \in 1..14 |-> IF i % 2 = 1 THEN "{" ELSE "}"]>>}
MCLists == {<<>>, <<m1>>, <<m2, m1>>, <<m1, Nil, m2>>, <<m1, Bad>>}
=============================================================================
