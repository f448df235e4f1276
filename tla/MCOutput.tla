------------------------------ MODULE MCOutput ------------------------------
(* Instances of Output for TLC: a root package, a package of one of the    *)
(* protocols, and files of the user.                                       *)
EXTENDS Output

Paths ==
  {<<"cdproto.go">>, <<"easyjson.go">>, <<"LICENSE">>, <<".git">>, <<".git", "config">>,
   <<"page">>, <<"page", "page.go">>, <<"page", "easyjson.go">>,
   <<"page", "old.go">>}

Plans == {"small", "large"}

FilesOf == [n \in Plans |-> {<<"cdproto.go">>} \cup
              (IF n = "large" THEN {<<"page", "page.go">>} ELSE {})]

PkgsOf == [n \in Plans |-> {<<>>} \cup (IF n = "large" THEN {<<"page">>} ELSE {})]

Holding(ps) ==
  [p \in Paths |-> IF p \in ps THEN User ELSE IF \E q \in ps : Under(p, q) THEN Dir ELSE Empty]

(* A directory with files of the user, some of them below a package, or    *)
(* one in the place of a package.                                           *)
UsersTrees ==
  {Holding({<<"LICENSE">>, <<".git", "config">>, <<"page", "old.go">>}),
   Holding({<<".git", "config">>, <<"page">>})}

=============================================================================
