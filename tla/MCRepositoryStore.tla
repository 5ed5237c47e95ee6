-------------------------- MODULE MCRepositoryStore --------------------------
(***************************************************************************)
(* Repository "a", spelled with a capital that only lookups accept or with *)
(* a blank that create() strips, and a second one, "a/a"; the store with   *)
(* the grammar of its names.                                               *)
(***************************************************************************)
EXTENDS RepositoryRefinesContract, RepositoryNaming

Plain   == <<"a">>
Capital == <<"A">>
Blank   == <<"blank", "a">>
Nested  == <<"a", "/", "a">>

OneName  == {Plain}
Spelled  == {Plain, Capital, Blank}
TwoNames == {Plain, Capital, Nested}

MCParse == [n \in Name |-> IF IsRepositoryName(n) THEN Strip(n) ELSE NoName]
MCFold  == [n \in Name |-> [i \in DOMAIN n |-> IF n[i] = "A" THEN "a" ELSE n[i]]]

FirstPage == {0}
Pages   == {-1, 1, 3}
=============================================================================
