---------------------------- MODULE RepositoryName ----------------------------
(***************************************************************************)
(* domain/repositories/name.py.  A name is a sequence of characters, and   *)
(* only the classes the grammar tells apart are kept: "a" stands for       *)
(* [a-z0-9], "A" for an upper-case letter, "blank" for white space, the    *)
(* separators for themselves.                                              *)
(***************************************************************************)
EXTENDS Naturals, Sequences, FiniteSetsExt

CONSTANT MaxLength   \* _MAX_LENGTH

ASSUME LengthAssumption == MaxLength \in Nat

Character == {"a", "A", "blank", ".", "_", "-", "/"}

\* str.strip()
Strip(raw) ==
    LET solid == {i \in DOMAIN raw : raw[i] # "blank"}
    IN  IF solid = {} THEN <<>> ELSE SubSeq(raw, Min(solid), Max(solid))

\* str.split("/"), as a set: the pieces between neighbouring cuts.
Components(name) ==
    LET cuts == {0, Len(name) + 1} \cup {i \in DOMAIN name : name[i] = "/"}
    IN  {SubSeq(name, cut[1] + 1, cut[2] - 1) :
            cut \in {p \in cuts \X cuts : /\ p[1] < p[2]
                                          /\ \A c \in cuts : c <= p[1] \/ p[2] <= c}}

\* What may join two words of a component: \. | _ | __ | -+
IsJoint(run) == \/ run \in {<<".">>, <<"_">>, <<"_", "_">>}
                \/ run # <<>> /\ \A k \in DOMAIN run : run[k] = "-"

\* Mutant: the group of a joint and a word is taken apart, so a component may end
\* in a joint or be empty.
IsValidComponent_LooseEnd(c) ==
    /\ c # <<>> => c[1] = "a"
    /\ \A i, j \in 2..Len(c) :
           /\ i <= j /\ \A k \in i..j : c[k] # "a"
           /\ c[i - 1] = "a" /\ (j < Len(c) => c[j + 1] = "a")
           => IsJoint(SubSeq(c, i, j))

\* _COMPONENT_PATTERN in full: words, with a joint between any two.
IsValidComponent(c) ==
    /\ c # <<>> /\ c[1] = "a" /\ c[Len(c)] = "a"
    /\ \A i, j \in 2..(Len(c) - 1) :
           /\ i <= j /\ \A k \in i..j : c[k] # "a"
           /\ c[i - 1] = "a" /\ c[j + 1] = "a"
           => IsJoint(SubSeq(c, i, j))

\* RepositoryName(raw) does not raise; its value is then Strip(raw).
IsRepositoryName(raw) ==
    /\ Len(Strip(raw)) <= MaxLength
    /\ \A c \in Components(Strip(raw)) : IsValidComponent(c)

-----------------------------------------------------------------------------
(* The reference: the OCI name grammar as an automaton that reads a name    *)
(* character by character and accepts it after a letter or digit.           *)

Reads(state, c) ==
    CASE c = "a" /\ state # "sink"             -> "word"
      [] c = "/" /\ state = "word"             -> "start"
      [] c = "." /\ state = "word"             -> "joint"
      [] c = "_" /\ state = "word"             -> "under"
      [] c = "_" /\ state = "under"            -> "joint"
      [] c = "-" /\ state \in {"word", "dash"} -> "dash"
      [] OTHER                                 -> "sink"

\* The state after each character.
Run(name) ==
    LET run[i \in 0..Len(name)] == IF i = 0 THEN "start" ELSE Reads(run[i - 1], name[i])
    IN  run

IsOciName(name) == Len(name) <= MaxLength /\ Run(name)[Len(name)] = "word"

\* Every string one character longer than MaxLength, or shorter.
Strings == UNION {[1..n -> Character] : n \in 0..(MaxLength + 1)}
=============================================================================
