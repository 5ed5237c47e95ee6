--------------------------- MODULE RepositoryNaming ---------------------------
(***************************************************************************)
(* The repository store with the grammar of its names: create() parses     *)
(* what callers send with RepositoryName.                                  *)
(***************************************************************************)
EXTENDS RepositoryStore, RepositoryName

ASSUME ParseAssumption ==
    /\ \A n \in Name : n \in Seq(Character)
    /\ NoName \notin Seq(Character)
    /\ Parse = [n \in Name |-> IF IsRepositoryName(n) THEN Strip(n) ELSE NoName]

Misjudged == {s \in Strings : IsRepositoryName(s) # IsOciName(Strip(s))}

\* RepositoryName accepts exactly the OCI names, on every short string, so that
\* whatever callers send, a stored name is one and a refused name is not.
NamesFollowTheGrammar ==
    /\ Misjudged = {}
    /\ \A i \in Stored : IsOciName(row[i].name)
    /\ \A r \in Request :
           outcome[r] = "InvalidRepositoryName" => ~IsOciName(Strip(call[r].name))
=============================================================================
