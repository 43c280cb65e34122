--------------------------- MODULE MCRepositories ---------------------------
(* An instance of Repositories for TLC: a root inside another, a path in   *)
(* both and one in the outer.                                              *)
EXTENDS Repositories

Outer == <<"outer">>
Inner == <<"outer", "inner">>
MCRoots == {Outer, Inner}
File == <<"outer", "inner", "file">>
Py == CHOOSE l \in Langs : TRUE

\* One root twice, first with other languages; one root alone, and
\* one inside another, with requests.  Requests only read, so that they come
\* where there is a choice of roots or of states to read.
MCCommandLines ==
  {[watch |-> TRUE, repo |-> <<<<Outer, {Py}>>, <<Outer, {}>>>>, ask |-> {}],
   [watch |-> TRUE, repo |-> <<<<Outer, {}>>>>, ask |-> {File}],
   [watch |-> FALSE, repo |-> <<<<Outer, {}>>, <<Inner, {}>>>>, ask |-> {File}]}
AnyVerdict == {"ready", "partial"}
ReadyOnly == {"ready"}
=============================================================================
