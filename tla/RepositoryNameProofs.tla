------------------------- MODULE RepositoryNameProofs -------------------------
(***************************************************************************)
(* Proofs about repository names: that RepositoryName accepts exactly the  *)
(* OCI names, for strings of every length, and hence that the store holds  *)
(* no other name and refuses no OCI name.                                  *)
(***************************************************************************)
EXTENDS RepositoryNaming, RepositoryStoreProofs, WellFoundedInduction, SequenceTheorems

-----------------------------------------------------------------------------
(* Induction: what a recursive definition needs *)

\* A non-empty set of naturals has a least element.
LEMMA LeastElement ==
    ASSUME NEW T \in SUBSET Nat, T # {}
    PROVE  \E m \in T : \A k \in T : m <= k
<1> DEFINE R == {p \in Nat \X Nat : p[1] < p[2]}
<1>1. IsWellFoundedOn(R, Nat)
  BY NatLessThanWellFounded, Zenon DEF OpToRel
<1>2. \E m \in T : \A k \in T : ~(<<k, m>> \in R)
  <2> HIDE DEF R
  <2> QED
    BY <1>1, WFMin
<1>3. PICK m \in T : \A k \in T : ~(<<k, m>> \in R)
  BY <1>2
<1>4. ASSUME NEW k \in T PROVE m <= k
  <2>1. m \in Nat /\ k \in Nat
    OBVIOUS
  <2>2. k < m => <<k, m>> \in R
    BY <2>1
  <2> QED
    BY <1>3, <2>1, <2>2
<1> QED
  BY <1>4

\* A non-empty set of naturals up to n has a greatest element.
LEMMA GreatestElement ==
    ASSUME NEW n \in Nat, NEW T \in SUBSET (0..n), T # {}
    PROVE  \E m \in T : \A k \in T : k <= m
<1> DEFINE U == {k \in Nat : k <= n /\ n - k \in T}
<1>1. U # {}
  <2>1. PICK k \in T : TRUE
    OBVIOUS
  <2>2. n - k \in Nat /\ n - k <= n /\ n - (n - k) = k
    BY <2>1
  <2> QED
    BY <2>1, <2>2
<1>2. PICK u \in U : \A k \in U : u <= k
  <2>1. U \in SUBSET Nat
    OBVIOUS
  <2> HIDE DEF U
  <2> QED
    BY <1>1, <2>1, LeastElement
<1>3. ASSUME NEW k \in T PROVE k <= n - u
  <2>1. k \in 0..n
    OBVIOUS
  <2>2. n - k \in U
    BY <2>1
  <2> QED
    BY <1>2, <2>1, <2>2
<1> QED
  BY <1>2, <1>3

\* A set that holds 0 and the successor of each of its naturals holds them all.
LEMMA SetInduction ==
    ASSUME NEW S, 0 \in S, \A n \in Nat : n \in S => n + 1 \in S
    PROVE  Nat \subseteq S
<1> DEFINE T == Nat \ S
<1> SUFFICES ASSUME T # {} PROVE FALSE
  OBVIOUS
<1>1. PICK m \in T : \A k \in T : m <= k
  BY LeastElement
<1>2. m - 1 \in Nat /\ m - 1 \notin T
  BY <1>1
<1> QED
  BY <1>1, <1>2

-----------------------------------------------------------------------------
(* The automaton *)

\* The automaton's run is the function its recursive definition describes.
LEMMA RunDefined ==
    ASSUME NEW name, Len(name) \in Nat
    PROVE  Run(name) = [i \in 0..Len(name) |->
                           IF i = 0 THEN "start" ELSE Reads(Run(name)[i - 1], name[i])]
<1> DEFINE Solves(f, m) ==
               f = [i \in 0..m |-> IF i = 0 THEN "start" ELSE Reads(f[i - 1], name[i])]
           S == {m \in Nat : \E f : Solves(f, m)}
<1>1. 0 \in S
  <2> DEFINE f == [i \in 0..0 |-> "start"]
  <2>1. Solves(f, 0)
    OBVIOUS
  <2> QED
    BY <2>1
<1>2. ASSUME NEW m \in Nat, m \in S PROVE m + 1 \in S
  <2>1. PICK f : Solves(f, m)
    BY <1>2
  <2> DEFINE g == [i \in 0..(m + 1) |-> IF i = 0 THEN "start" ELSE Reads(f[i - 1], name[i])]
  <2>2. ASSUME NEW i \in 0..m PROVE g[i] = f[i]
    BY <2>1
  <2>3. ASSUME NEW i \in 0..(m + 1), i # 0 PROVE g[i - 1] = f[i - 1]
    <3>1. i - 1 \in 0..m
      BY <2>3
    <3> HIDE DEF g
    <3> QED
      BY <2>2, <3>1
  <2>4. Solves(g, m + 1)
    BY <2>3
  <2> HIDE DEF g, Solves
  <2> QED
    BY <2>4
<1>3. Len(name) \in S
  <2> HIDE DEF S
  <2> QED
    BY <1>1, <1>2, SetInduction
<1>4. \E f : Solves(f, Len(name))
  BY <1>3
<1> QED
  BY <1>4, Zenon DEF Run

\* What the grammar asks of a character, by the one or two before it.
Fits(name, i) ==
    \/ name[i] = "a"
    \/ i >= 2 /\ name[i] \in {"/", ".", "_"} /\ name[i - 1] = "a"
    \/ i >= 3 /\ name[i] = "_" /\ name[i - 1] = "_" /\ name[i - 2] = "a"
    \/ i >= 2 /\ name[i] = "-" /\ name[i - 1] \in {"a", "-"}

\* The state after a character that fits, as all before it did.
StateAt(name, i) ==
    IF i = 0 \/ name[i] = "/" THEN "start"
    ELSE IF name[i] = "a" THEN "word"
    ELSE IF name[i] = "-" THEN "dash"
    ELSE IF name[i] = "_" /\ name[i - 1] = "a" THEN "under"
    ELSE "joint"

\* The automaton's transitions, state by state.
LEMMA Transitions ==
    ASSUME NEW c
    PROVE  /\ Reads("start", c) = IF c = "a" THEN "word" ELSE "sink"
           /\ Reads("joint", c) = IF c = "a" THEN "word" ELSE "sink"
           /\ Reads("under", c) = IF c = "a" THEN "word" ELSE IF c = "_" THEN "joint" ELSE "sink"
           /\ Reads("dash", c) = IF c = "a" THEN "word" ELSE IF c = "-" THEN "dash" ELSE "sink"
           /\ Reads("word", c) = IF c = "a" THEN "word" ELSE IF c = "/" THEN "start"
                                ELSE IF c = "." THEN "joint" ELSE IF c = "_" THEN "under"
                                ELSE IF c = "-" THEN "dash" ELSE "sink"
           /\ Reads("sink", c) = "sink"
<1>1. Reads("start", c) = IF c = "a" THEN "word" ELSE "sink"
  BY DEF Reads
<1>2. Reads("joint", c) = IF c = "a" THEN "word" ELSE "sink"
  BY DEF Reads
<1>3. Reads("under", c) = IF c = "a" THEN "word" ELSE IF c = "_" THEN "joint" ELSE "sink"
  BY DEF Reads
<1>4. Reads("dash", c) = IF c = "a" THEN "word" ELSE IF c = "-" THEN "dash" ELSE "sink"
  BY DEF Reads
<1>5. Reads("word", c) = IF c = "a" THEN "word" ELSE IF c = "/" THEN "start"
                         ELSE IF c = "." THEN "joint" ELSE IF c = "_" THEN "under"
                         ELSE IF c = "-" THEN "dash" ELSE "sink"
  BY DEF Reads
<1>6. Reads("sink", c) = "sink"
  BY DEF Reads
<1> QED
  BY <1>1, <1>2, <1>3, <1>4, <1>5, <1>6

\* The state after a character c that fits and follows d.
After(c, d) ==
    IF c = "/" THEN "start" ELSE IF c = "a" THEN "word" ELSE IF c = "-" THEN "dash"
    ELSE IF c = "_" /\ d = "a" THEN "under" ELSE "joint"

\* The characters that may occur in a name.
Legal == {"a", "/", ".", "_", "-"}

\* What fits after d, which follows e.
Follows(c, d, e) ==
    \/ c = "a"
    \/ c \in {"/", ".", "_"} /\ d = "a"
    \/ c = "_" /\ d = "_" /\ e = "a"
    \/ c = "-" /\ d \in {"a", "-"}

\* A character that fits leads from one such state to the next, and no other does.
LEMMA ReadsAfter ==
    ASSUME NEW c, NEW d, NEW e, d \in Legal
    PROVE  Reads(After(d, e), c) =
               IF Follows(c, d, e) THEN After(c, d) ELSE "sink"
<1>1. CASE d = "a"
  <2>1. After(d, e) = "word"
    BY <1>1 DEF After
  <2> QED
    BY <1>1, <2>1, Transitions DEF After, Follows
<1>2. CASE d = "/"
  <2>1. After(d, e) = "start"
    BY <1>2 DEF After
  <2> QED
    BY <1>2, <2>1, Transitions DEF After, Follows
<1>3. CASE d = "." \/ (d = "_" /\ e # "a")
  <2>1. After(d, e) = "joint"
    BY <1>3 DEF After
  <2> QED
    BY <1>3, <2>1, Transitions DEF After, Follows
<1>4. CASE d = "_" /\ e = "a"
  <2>1. After(d, e) = "under"
    BY <1>4 DEF After
  <2> QED
    BY <1>4, <2>1, Transitions DEF After, Follows
<1>5. CASE d = "-"
  <2>1. After(d, e) = "dash"
    BY <1>5 DEF After
  <2> QED
    BY <1>5, <2>1, Transitions DEF After, Follows
<1>6. d = "a" \/ d = "/" \/ (d = "." \/ (d = "_" /\ e # "a")) \/ (d = "_" /\ e = "a") \/ d = "-"
  BY DEF Legal
<1> QED
  BY <1>1, <1>2, <1>3, <1>4, <1>5, <1>6, Zenon

\* A name starts with a letter or digit.
LEMMA FirstFits ==
    ASSUME NEW name, NEW i, Fits(name, i)
    PROVE  name[i] = "a" \/ i >= 2 \/ i >= 3
<1>1. Fits(name, i) => name[i] = "a" \/ i >= 2 \/ i >= 3
  BY Zenon DEF Fits
<1> QED
  BY <1>1

\* ReadsAfter, at a place of a name.
LEMMA ReadsFitting ==
    ASSUME NEW name, NEW i \in Nat, i >= 1, i >= 2 => Fits(name, i - 1)
    PROVE  Reads(StateAt(name, i - 1), name[i]) =
               IF Fits(name, i) THEN StateAt(name, i) ELSE "sink"
<1>1. CASE i = 1
  <2>1. StateAt(name, i - 1) = "start"
    <3>1. i - 1 = 0
      BY <1>1
    <3> QED
      BY <3>1 DEF StateAt
  <2>2. Fits(name, i) <=> name[i] = "a"
    BY <1>1 DEF Fits
  <2>3. name[i] = "a" => StateAt(name, i) = "word"
    BY <1>1 DEF StateAt
  <2>4. Reads("start", name[i]) = IF name[i] = "a" THEN "word" ELSE "sink"
    BY Transitions
  <2> QED
    BY <2>1, <2>2, <2>3, <2>4
<1>2. CASE i >= 2
  <2> DEFINE x == name[i]
             y == name[i - 1]
             z == name[i - 2]
  <2>0. i # 0 /\ i - 1 # 0 /\ (i - 1) - 1 = i - 2 /\ (i - 1) - 2 = i - 3
    BY <1>2
  <2>1. StateAt(name, i - 1) = After(y, z)
    BY <2>0 DEF StateAt, After
  <2>2. StateAt(name, i) = After(x, y)
    BY <2>0 DEF StateAt, After
  <2>3. Fits(name, i) <=> \/ x = "a"
                          \/ x \in {"/", ".", "_"} /\ y = "a"
                          \/ i >= 3 /\ x = "_" /\ y = "_" /\ z = "a"
                          \/ x = "-" /\ y \in {"a", "-"}
    BY <1>2 DEF Fits
  <2>4. Fits(name, i - 1)
    BY <1>2
  <2>5. y \in Legal
    BY <2>4 DEF Fits, Legal
  <2>6. y # "a" => i >= 3
    <3>1. y = "a" \/ i - 1 >= 2
      BY <2>4, FirstFits
    <3> QED
      BY <3>1
  <2>7. Reads(After(y, z), x) =
            IF Follows(x, y, z) THEN After(x, y) ELSE "sink"
    BY <2>5, ReadsAfter, Zenon
  <2> HIDE DEF x, y, z
  <2>8. Fits(name, i) <=> Follows(x, y, z)
    BY <2>3, <2>6 DEF Follows
  <2> QED
    BY <2>1, <2>2, <2>7, <2>8 DEF x
<1> QED
  BY <1>1, <1>2

\* As long as every character fits, the automaton is in the state of the last one;
\* after the first that does not, in the sink.
LEMMA RunStates ==
    ASSUME NEW name, Len(name) \in Nat
    PROVE  \A i \in 0..Len(name) :
               Run(name)[i] = IF \A j \in 1..i : Fits(name, j) THEN StateAt(name, i) ELSE "sink"
<1> DEFINE n == Len(name)
           Good(i) == \A j \in 1..i : Fits(name, j)
           S == {i \in Nat : i <= n => Run(name)[i] = IF Good(i) THEN StateAt(name, i) ELSE "sink"}
<1>r. \A i \in 0..n : Run(name)[i] = IF i = 0 THEN "start" ELSE Reads(Run(name)[i - 1], name[i])
  BY RunDefined
<1>1. 0 \in S
  <2>1. Good(0) /\ StateAt(name, 0) = "start"
    BY DEF StateAt
  <2>2. Run(name)[0] = "start"
    BY <1>r
  <2> HIDE DEF Good
  <2> QED
    BY <2>1, <2>2
<1>2. ASSUME NEW m \in Nat, m \in S PROVE m + 1 \in S
  <2> SUFFICES ASSUME m + 1 <= n
               PROVE  Run(name)[m + 1] = IF Good(m + 1) THEN StateAt(name, m + 1) ELSE "sink"
    OBVIOUS
  <2>1. Run(name)[m + 1] = Reads(Run(name)[m], name[m + 1])
    BY <1>r
  <2>2. Run(name)[m] = IF Good(m) THEN StateAt(name, m) ELSE "sink"
    BY <1>2
  <2>3. Good(m + 1) <=> Good(m) /\ Fits(name, m + 1)
    <3>1. 1..(m + 1) = (1..m) \cup {m + 1}
      OBVIOUS
    <3> QED
      BY <3>1
  <2>4. m >= 1 /\ Good(m) => Fits(name, m)
    OBVIOUS
  <2> HIDE DEF Good, n
  <2>5. CASE Good(m)
    <3>1. Reads(StateAt(name, m), name[m + 1]) =
              IF Fits(name, m + 1) THEN StateAt(name, m + 1) ELSE "sink"
      <4>1. (m + 1) - 1 = m /\ m + 1 \in Nat /\ m + 1 >= 1 /\ (m + 1 >= 2 => m >= 1)
        OBVIOUS
      <4> QED
        BY <2>4, <2>5, <4>1, ReadsFitting
    <3> QED
      BY <2>1, <2>2, <2>3, <2>5, <3>1
  <2>6. CASE ~Good(m)
    BY <2>1, <2>2, <2>3, <2>6, Transitions
  <2> QED
    BY <2>5, <2>6
<1>3. Nat \subseteq S
  <2> HIDE DEF S
  <2> QED
    BY <1>1, <1>2, SetInduction
<1> QED
  BY <1>3

\* The OCI names, character by character.
LEMMA OciNames ==
    ASSUME NEW name, Len(name) \in Nat
    PROVE  IsOciName(name) <=> /\ Len(name) <= MaxLength
                               /\ Len(name) >= 1 /\ name[Len(name)] = "a"
                               /\ \A i \in 1..Len(name) : Fits(name, i)
<1>1. Run(name)[Len(name)] =
          IF \A j \in 1..Len(name) : Fits(name, j) THEN StateAt(name, Len(name)) ELSE "sink"
  BY RunStates
<1>2. StateAt(name, Len(name)) = "word" <=> Len(name) >= 1 /\ name[Len(name)] = "a"
  BY DEF StateAt
<1> QED
  BY <1>1, <1>2 DEF IsOciName

-----------------------------------------------------------------------------
(* The components *)

\* A joint, read in place.
JointAt(s, i, j) == \/ j = i /\ s[i] \in {".", "_"}
                    \/ j = i + 1 /\ s[i] = "_" /\ s[j] = "_"
                    \/ \A k \in i..j : s[k] = "-"

\* A run of characters is a joint when its characters are one.
LEMMA JointRun ==
    ASSUME NEW S, NEW s \in Seq(S), NEW i \in 1..Len(s), NEW j \in i..Len(s)
    PROVE  IsJoint(SubSeq(s, i, j)) <=> JointAt(s, i, j)
<1> DEFINE r == SubSeq(s, i, j)
<1>1. \A k \in i..j : s[k] \in S
  OBVIOUS
<1>2. r \in Seq(S) /\ Len(r) = j - i + 1 /\ \A k \in 1..(j - i + 1) : r[k] = s[i + k - 1]
  BY <1>1, SubSeqProperties
<1> HIDE DEF r
<1>3. r # <<>> /\ DOMAIN r = 1..(j - i + 1)
  BY <1>2
<1>4. r[1] = s[i] /\ (j >= i + 1 => r[2] = s[i + 1])
  BY <1>2
<1>5. ASSUME NEW x PROVE r = <<x>> <=> j = i /\ s[i] = x
  <2>1. r = <<x>> => Len(r) = 1 /\ r[1] = x
    OBVIOUS
  <2>2. Len(r) = 1 /\ r[1] = x => r = <<x>>
    BY <1>2
  <2> QED
    BY <1>2, <1>4, <2>1, <2>2
<1>6. r = <<"_", "_">> <=> j = i + 1 /\ s[i] = "_" /\ s[j] = "_"
  <2>1. ASSUME NEW x, NEW y PROVE r = <<x, y>> <=> Len(r) = 2 /\ r[1] = x /\ r[2] = y
    <3>1. r = <<x, y>> => Len(r) = 2 /\ r[1] = x /\ r[2] = y
      OBVIOUS
    <3>2. Len(r) = 2 /\ r[1] = x /\ r[2] = y => r = <<x, y>>
      BY <1>2
    <3> QED
      BY <3>1, <3>2
  <2>2. Len(r) = 2 <=> j = i + 1
    BY <1>2
  <2>3. r = <<"_", "_">> <=> Len(r) = 2 /\ r[1] = "_" /\ r[2] = "_"
    BY <2>1, Zenon
  <2>4. j = i + 1 => r[1] = s[i] /\ r[2] = s[j]
    BY <1>4
  <2> QED
    BY <2>2, <2>3, <2>4, Zenon
<1>7. (\A k \in DOMAIN r : r[k] = "-") <=> \A k \in i..j : s[k] = "-"
  <2>1. ASSUME NEW k \in i..j, \A x \in DOMAIN r : r[x] = "-" PROVE s[k] = "-"
    <3>1. k - i + 1 \in 1..(j - i + 1) /\ i + (k - i + 1) - 1 = k
      OBVIOUS
    <3> QED
      BY <1>2, <1>3, <2>1, <3>1
  <2>2. ASSUME NEW k \in DOMAIN r, \A x \in i..j : s[x] = "-" PROVE r[k] = "-"
    <3>1. k \in 1..(j - i + 1) /\ i + k - 1 \in i..j
      BY <1>3
    <3> QED
      BY <1>2, <2>2, <3>1
  <2> QED
    BY <2>1, <2>2
<1>8. r \in {<<".">>, <<"_">>} <=> j = i /\ s[i] \in {".", "_"}
  BY <1>5
<1>9. IsJoint(r) <=> r \in {<<".">>, <<"_">>} \/ r = <<"_", "_">> \/ \A k \in DOMAIN r : r[k] = "-"
  BY <1>3 DEF IsJoint
<1> QED
  BY <1>6, <1>7, <1>8, <1>9 DEF JointAt, r

Cuts(s) == {0, Len(s) + 1} \cup {i \in DOMAIN s : s[i] = "/"}

\* Neighbouring cuts.
IsCut(s, p, q) == /\ p \in Cuts(s) /\ q \in Cuts(s) /\ p < q
                  /\ \A c \in Cuts(s) : c <= p \/ q <= c

\* A valid component, read in place between its cuts.
ValidPiece(s, p, q) ==
    /\ p + 1 < q /\ s[p + 1] = "a" /\ s[q - 1] = "a"
    /\ \A i, j \in (p + 2)..(q - 2) :
           /\ i <= j /\ \A k \in i..j : s[k] # "a"
           /\ s[i - 1] = "a" /\ s[j + 1] = "a"
           => JointAt(s, i, j)

\* The components of a name are what its neighbouring cuts delimit.
LEMMA ComponentsCut ==
    ASSUME NEW s
    PROVE  Components(s) = {SubSeq(s, cut[1] + 1, cut[2] - 1) :
                               cut \in {c \in Cuts(s) \X Cuts(s) : IsCut(s, c[1], c[2])}}
<1>1. \A c \in Cuts(s) \X Cuts(s) :
          IsCut(s, c[1], c[2]) <=> c[1] < c[2] /\ \A x \in Cuts(s) : x <= c[1] \/ c[2] <= x
  BY DEF IsCut
<1> QED
  BY <1>1 DEF Components, Cuts

\* A component is valid when it is read in place.
LEMMA PieceValid ==
    ASSUME NEW S, NEW s \in Seq(S), NEW p, NEW q, IsCut(s, p, q)
    PROVE  IsValidComponent(SubSeq(s, p + 1, q - 1)) <=> ValidPiece(s, p, q)
<1> DEFINE c == SubSeq(s, p + 1, q - 1)
           n == q - p - 1
<1>1. p \in 0..Len(s) /\ q \in 1..(Len(s) + 1) /\ p < q
  BY DEF IsCut, Cuts
<1>2. c \in Seq(S) /\ Len(c) = n /\ \A k \in 1..n : c[k] = s[p + k]
  <2>1. \A k \in (p + 1)..(q - 1) : s[k] \in S
    BY <1>1
  <2>2. p + 1 \in Int /\ q - 1 \in Int
    BY <1>1
  <2>3. /\ c \in Seq(S)
        /\ Len(c) = IF p + 1 <= q - 1 THEN (q - 1) - (p + 1) + 1 ELSE 0
        /\ \A k \in 1..((q - 1) - (p + 1) + 1) : c[k] = s[(p + 1) + k - 1]
    BY <2>1, <2>2, SubSeqProperties
  <2>4. (q - 1) - (p + 1) + 1 = n /\ (~(p + 1 <= q - 1) => n = 0)
    BY <1>1
  <2>5. \A k \in 1..n : (p + 1) + k - 1 = p + k
    BY <1>1
  <2> HIDE DEF c
  <2> QED
    BY <2>3, <2>4, <2>5
<1>3. n \in Nat /\ (c # <<>> <=> n >= 1)
  BY <1>1, <1>2
<1> HIDE DEF c
<1>4. CASE n >= 1
  <2>1. c[1] = s[p + 1] /\ c[Len(c)] = s[q - 1]
    <3>1. p + n = q - 1 /\ 1 \in 1..n /\ n \in 1..n
      BY <1>1, <1>4
    <3> QED
      BY <1>2, <3>1
  <2> DEFINE RunOf(i, j) == /\ i <= j /\ \A k \in i..j : c[k] # "a"
                            /\ c[i - 1] = "a" /\ c[j + 1] = "a"
             RunAt(i, j) == /\ i <= j /\ \A k \in i..j : s[k] # "a"
                            /\ s[i - 1] = "a" /\ s[j + 1] = "a"
  <2>2. ASSUME NEW i \in 2..(n - 1), NEW j \in 2..(n - 1)
        PROVE  /\ RunOf(i, j) <=> RunAt(p + i, p + j)
               /\ i <= j => (JointAt(c, i, j) <=> JointAt(s, p + i, p + j))
    <3>1. \A k \in i..j : k \in 1..n
      BY <1>3
    <3>2. i \in 1..n /\ j \in 1..n /\ i - 1 \in 1..n /\ j + 1 \in 1..n
      BY <1>3
    <3>3. /\ c[i] = s[p + i] /\ c[j] = s[p + j]
          /\ c[i - 1] = s[(p + i) - 1] /\ c[j + 1] = s[(p + j) + 1]
      <4>1. p + (i - 1) = (p + i) - 1 /\ p + (j + 1) = (p + j) + 1
        BY <1>1
      <4> QED
        BY <1>2, <3>2, <4>1
    <3>4. ASSUME NEW x
          PROVE  (\A k \in i..j : c[k] = x) <=> \A k \in (p + i)..(p + j) : s[k] = x
      <4>1. ASSUME NEW k \in (p + i)..(p + j), \A y \in i..j : c[y] = x PROVE s[k] = x
        <5>1. k - p \in i..j /\ p + (k - p) = k
          BY <1>1
        <5> QED
          BY <1>2, <3>1, <4>1, <5>1
      <4>2. ASSUME NEW k \in i..j, \A y \in (p + i)..(p + j) : s[y] = x PROVE c[k] = x
        <5>1. p + k \in (p + i)..(p + j)
          BY <1>1
        <5> QED
          BY <1>2, <3>1, <4>2, <5>1
      <4> QED
        BY <4>1, <4>2
    <3>5. (\A k \in i..j : c[k] # "a") <=> \A k \in (p + i)..(p + j) : s[k] # "a"
      <4>1. ASSUME NEW k \in (p + i)..(p + j), \A y \in i..j : c[y] # "a" PROVE s[k] # "a"
        <5>1. k - p \in i..j /\ p + (k - p) = k
          BY <1>1
        <5> QED
          BY <1>2, <3>1, <4>1, <5>1
      <4>2. ASSUME NEW k \in i..j, \A y \in (p + i)..(p + j) : s[y] # "a" PROVE c[k] # "a"
        <5>1. p + k \in (p + i)..(p + j)
          BY <1>1
        <5> QED
          BY <1>2, <3>1, <4>2, <5>1
      <4> QED
        BY <4>1, <4>2
    <3>6. (i <= j <=> p + i <= p + j) /\ (j = i <=> p + j = p + i)
          /\ (j = i + 1 <=> p + j = p + i + 1)
      BY <1>1
    <3>7. RunOf(i, j) <=> RunAt(p + i, p + j)
      BY <3>3, <3>5, <3>6, Zenon
    <3>8. i <= j => (JointAt(c, i, j) <=> JointAt(s, p + i, p + j))
      BY <3>3, <3>4, <3>6, Zenon DEF JointAt
    <3> QED
      BY <3>7, <3>8
  <2> DEFINE OfC == \A i, j \in 2..(n - 1) : RunOf(i, j) => JointAt(c, i, j)
             AtS == \A i, j \in (p + 2)..(q - 2) : RunAt(i, j) => JointAt(s, i, j)
  <2>3. ASSUME NEW i \in 2..(n - 1), NEW j \in 2..(n - 1), i <= j
        PROVE  IsJoint(SubSeq(c, i, j)) <=> JointAt(c, i, j)
    <3>1. i \in 1..Len(c) /\ j \in i..Len(c)
      BY <1>2, <1>3, <2>3
    <3> QED
      BY <1>2, <3>1, JointRun
  <2>4. IsValidComponent(c) <=> s[p + 1] = "a" /\ s[q - 1] = "a" /\ OfC
    <3>1. IsValidComponent(c) <=>
              /\ c[1] = "a" /\ c[Len(c)] = "a"
              /\ \A i, j \in 2..(n - 1) : RunOf(i, j) => IsJoint(SubSeq(c, i, j))
      BY <1>2, <1>3, <1>4 DEF IsValidComponent
    <3>2. (\A i, j \in 2..(n - 1) : RunOf(i, j) => IsJoint(SubSeq(c, i, j))) <=> OfC
      BY <2>3, Zenon
    <3> QED
      BY <2>1, <3>1, <3>2, Zenon
  <2>5. OfC <=> AtS
    <3> HIDE DEF RunOf, RunAt
    <3>1. ASSUME OfC, NEW i \in (p + 2)..(q - 2), NEW j \in (p + 2)..(q - 2), RunAt(i, j)
          PROVE  JointAt(s, i, j)
      <4>1. /\ i - p \in 2..(n - 1) /\ j - p \in 2..(n - 1)
            /\ p + (i - p) = i /\ p + (j - p) = j
        BY <1>1
      <4>2. i - p <= j - p
        BY <1>1, <3>1 DEF RunAt
      <4> QED
        BY <2>2, <3>1, <4>1, <4>2
    <3>2. ASSUME AtS, NEW i \in 2..(n - 1), NEW j \in 2..(n - 1), RunOf(i, j)
          PROVE  JointAt(c, i, j)
      <4>1. p + i \in (p + 2)..(q - 2) /\ p + j \in (p + 2)..(q - 2)
        BY <1>1
      <4>2. i <= j
        BY <3>2 DEF RunOf
      <4> QED
        BY <2>2, <3>2, <4>1, <4>2
    <3> QED
      BY <3>1, <3>2
  <2>6. ValidPiece(s, p, q) <=> s[p + 1] = "a" /\ s[q - 1] = "a" /\ AtS
    <3>1. p + 1 < q
      BY <1>1, <1>4
    <3> QED
      BY <3>1, Zenon DEF ValidPiece
  <2> HIDE DEF OfC, AtS
  <2> QED
    BY <2>4, <2>5, <2>6 DEF c
<1>5. CASE ~(n >= 1)
  <2>1. ~(p + 1 < q)
    BY <1>1, <1>5
  <2> QED
    BY <1>3, <1>5, <2>1 DEF IsValidComponent, ValidPiece, c
<1> QED
  BY <1>4, <1>5

\* Every place of a name has a last cut before it.
LEMMA CutBefore ==
    ASSUME NEW s \in Seq(Character), NEW i \in 1..(Len(s) + 1)
    PROVE  \E p \in Cuts(s) : p < i /\ \A c \in Cuts(s) : c <= p \/ i <= c
<1> DEFINE T == {c \in Cuts(s) : c < i}
<1>1. T \in SUBSET (0..Len(s)) /\ 0 \in T /\ Len(s) \in Nat
  BY DEF Cuts
<1>2. PICK p \in T : \A k \in T : k <= p
  <2> HIDE DEF T
  <2> QED
    BY <1>1, GreatestElement
<1>3. ASSUME NEW c \in Cuts(s) PROVE c <= p \/ i <= c
  <2>1. c \in Nat
    BY DEF Cuts
  <2>2. c < i \/ i <= c
    BY <2>1
  <2> QED
    BY <1>2, <2>2
<1> QED
  BY <1>2, <1>3

\* Every place of a name has a first cut after it.
LEMMA CutAfter ==
    ASSUME NEW s \in Seq(Character), NEW i \in 0..Len(s)
    PROVE  \E q \in Cuts(s) : i < q /\ \A c \in Cuts(s) : c <= i \/ q <= c
<1> DEFINE T == {c \in Cuts(s) : i < c}
<1>1. T \in SUBSET Nat /\ Len(s) + 1 \in T
  BY DEF Cuts
<1>2. PICK q \in T : \A k \in T : q <= k
  <2> HIDE DEF T
  <2> QED
    BY <1>1, LeastElement
<1>3. ASSUME NEW c \in Cuts(s) PROVE c <= i \/ q <= c
  <2>1. c \in Nat
    BY DEF Cuts
  <2>2. c <= i \/ i < c
    BY <2>1
  <2> QED
    BY <1>2, <2>2
<1> QED
  BY <1>2, <1>3

\* What a character other than a letter or digit needs before it.
LEMMA FitsAfter ==
    ASSUME NEW s, NEW i \in Nat, Fits(s, i), s[i] # "a"
    PROVE  /\ i >= 2 /\ s[i] \in {"/", ".", "_", "-"} /\ s[i - 1] \in {"a", "_", "-"}
           /\ s[i - 1] = "-" => s[i] = "-"
           /\ s[i - 1] = "_" => s[i] = "_" /\ s[i - 2] = "a"
<1>1. CASE i >= 2 /\ s[i] \in {"/", ".", "_"} /\ s[i - 1] = "a"
  BY <1>1
<1>2. CASE i >= 3 /\ s[i] = "_" /\ s[i - 1] = "_" /\ s[i - 2] = "a"
  <2>1. i >= 3
    BY <1>2, Zenon
  <2>2. i >= 2
    BY <2>1
  <2> QED
    BY <1>2, <2>2, Zenon
<1>3. CASE i >= 2 /\ s[i] = "-" /\ s[i - 1] \in {"a", "-"}
  BY <1>3
<1> QED
  BY <1>1, <1>2, <1>3, Zenon DEF Fits

\* Between words, a joint: a run of characters that fit, with a word on either side
\* and no separator of components inside.
LEMMA FittingRun ==
    ASSUME NEW s \in Seq(Character), NEW i \in 2..Len(s), NEW j \in i..Len(s),
           \A k \in i..j : Fits(s, k) /\ s[k] \notin {"a", "/"},
           s[i - 1] = "a"
    PROVE  JointAt(s, i, j)
<1>1. ASSUME NEW k \in i..j
      PROVE  /\ s[k] \in {".", "_", "-"} /\ s[k - 1] \in {"a", "_", "-"}
             /\ s[k - 1] = "-" => s[k] = "-"
             /\ s[k - 1] = "_" => s[k] = "_" /\ s[k - 2] = "a"
  <2>1. k \in Nat /\ Fits(s, k) /\ s[k] # "a" /\ s[k] # "/"
    OBVIOUS
  <2>2. /\ s[k] \in {"/", ".", "_", "-"} /\ s[k - 1] \in {"a", "_", "-"}
        /\ s[k - 1] = "-" => s[k] = "-"
        /\ s[k - 1] = "_" => s[k] = "_" /\ s[k - 2] = "a"
    BY <2>1, FitsAfter, Zenon
  <2> QED
    BY <2>1, <2>2
<1>2. i \in i..j
  OBVIOUS
<1>3. CASE s[i] = "."
  <2>1. i + 1 \notin i..j
    <3> SUFFICES ASSUME i + 1 \in i..j PROVE FALSE
      OBVIOUS
    <3>1. (i + 1) - 1 = i
      OBVIOUS
    <3>2. s[(i + 1) - 1] \in {"a", "_", "-"}
      BY <1>1
    <3> QED
      BY <1>3, <3>1, <3>2
  <2> QED
    BY <1>3, <2>1 DEF JointAt
<1>4. CASE s[i] = "_"
  <2>1. i + 1 \in i..j => s[i + 1] = "_"
    <3> SUFFICES ASSUME i + 1 \in i..j PROVE s[i + 1] = "_"
      OBVIOUS
    <3>1. (i + 1) - 1 = i
      OBVIOUS
    <3>2. s[(i + 1) - 1] = "_" => s[i + 1] = "_"
      BY <1>1
    <3> QED
      BY <1>4, <3>1, <3>2
  <2>2. i + 2 \notin i..j
    <3> SUFFICES ASSUME i + 2 \in i..j PROVE FALSE
      OBVIOUS
    <3>1. (i + 2) - 1 = i + 1 /\ (i + 2) - 2 = i /\ i + 1 \in i..j
      OBVIOUS
    <3>2. s[(i + 2) - 1] = "_" => s[(i + 2) - 2] = "a"
      BY <1>1
    <3> QED
      BY <1>4, <2>1, <3>1, <3>2
  <2>3. j = i \/ (j = i + 1 /\ i + 1 \in i..j)
    BY <2>2
  <2> QED
    BY <1>4, <2>1, <2>3 DEF JointAt
<1>5. CASE s[i] = "-"
  <2> DEFINE T == {k \in i..j : s[k] # "-"}
  <2>1. T = {}
    <3> SUFFICES ASSUME T # {} PROVE FALSE
      OBVIOUS
    <3>1. PICK m \in T : \A k \in T : m <= k
      <4>1. T \in SUBSET Nat
        OBVIOUS
      <4> HIDE DEF T
      <4> QED
        BY <4>1, LeastElement
    <3>2. m - 1 \in i..j /\ m - 1 \notin T
      <4>1. m # i
        BY <1>5
      <4> QED
        BY <3>1, <4>1
    <3>3. s[m - 1] = "-"
      BY <3>2
    <3>4. s[m] = "-"
      BY <1>1, <3>3
    <3> QED
      BY <3>4
  <2>2. \A k \in i..j : s[k] = "-"
    BY <2>1
  <2> QED
    BY <2>2 DEF JointAt
<1>6. s[i] \in {".", "_", "-"}
  BY <1>1, <1>2
<1> QED
  BY <1>3, <1>4, <1>5, <1>6

\* What the grammar asks of a whole name.
Fitting(s) == Len(s) >= 1 /\ s[Len(s)] = "a" /\ \A i \in 1..Len(s) : Fits(s, i)

\* A cut that follows another one is a place of a name or its end.
LEMMA CutPlaces ==
    ASSUME NEW s \in Seq(Character), NEW p, NEW q, IsCut(s, p, q)
    PROVE  /\ Len(s) \in Nat /\ p \in 0..Len(s) /\ q \in 1..(Len(s) + 1) /\ p < q
           /\ p # 0 => s[p] = "/"
           /\ q # Len(s) + 1 => s[q] = "/"
           /\ \A k \in 1..Len(s) : p < k /\ k < q => s[k] # "/"
<1>1. Len(s) \in Nat /\ DOMAIN s = 1..Len(s)
  OBVIOUS
<1>2. \A c \in Cuts(s) : c = 0 \/ c = Len(s) + 1 \/ (c \in 1..Len(s) /\ s[c] = "/")
  BY <1>1 DEF Cuts
<1>3. p \in Cuts(s) /\ q \in Cuts(s) /\ p < q /\ \A c \in Cuts(s) : c <= p \/ q <= c
  BY DEF IsCut
<1>4. p \in 0..(Len(s) + 1) /\ q \in 0..(Len(s) + 1)
  BY <1>1, <1>2, <1>3
<1>5. p \in 0..Len(s) /\ q \in 1..(Len(s) + 1)
  BY <1>1, <1>3, <1>4
<1>6. p # Len(s) + 1 /\ q # 0
  BY <1>1, <1>5
<1>7. (p # 0 => s[p] = "/") /\ (q # Len(s) + 1 => s[q] = "/")
  BY <1>2, <1>3, <1>6, Zenon
<1>8. ASSUME NEW k \in 1..Len(s), p < k, k < q PROVE s[k] # "/"
  <2>1. s[k] = "/" => k \in Cuts(s)
    BY <1>1 DEF Cuts
  <2>2. ~(k <= p) /\ ~(q <= k)
    BY <1>4, <1>8
  <2> QED
    BY <1>3, <2>1, <2>2
<1> QED
  BY <1>1, <1>3, <1>5, <1>7, <1>8

\* In a name whose characters fit, every component is valid.
LEMMA FittingPieces ==
    ASSUME NEW s \in Seq(Character), Fitting(s), NEW p, NEW q, IsCut(s, p, q)
    PROVE  ValidPiece(s, p, q)
<1> DEFINE n == Len(s)
<1>1. /\ n \in Nat /\ p \in 0..n /\ q \in 1..(n + 1) /\ p < q
      /\ p # 0 => s[p] = "/"
      /\ q # n + 1 => s[q] = "/"
      /\ \A k \in 1..n : p < k /\ k < q => s[k] # "/"
  BY CutPlaces
<1>2. n >= 1 /\ s[n] = "a" /\ \A i \in 1..n : Fits(s, i)
  BY DEF Fitting
<1> HIDE DEF n
<1>3. p # n
  <2>1. "/" # "a"
    OBVIOUS
  <2>2. p = n => p # 0
    BY <1>1, <1>2
  <2> QED
    BY <1>1, <1>2, <2>1, <2>2
<1>4. p + 1 \in 1..n /\ (p + 1) - 1 = p
  BY <1>1, <1>3
<1>5. s[p + 1] = "a"
  <2> SUFFICES ASSUME s[p + 1] # "a" PROVE FALSE
    OBVIOUS
  <2>1. p + 1 \in Nat /\ Fits(s, p + 1)
    BY <1>2, <1>4
  <2>2. p + 1 >= 2 /\ s[(p + 1) - 1] \in {"a", "_", "-"}
    BY <2>1, FitsAfter
  <2>3. p # 0
    <3>1. p + 1 >= 2 /\ p \in 0..n /\ n \in Nat
      BY <1>1, <2>2, Zenon
    <3> QED
      BY <3>1
  <2>4. s[p] = "/" /\ s[p] \in {"a", "_", "-"}
    BY <1>1, <1>4, <2>2, <2>3
  <2> QED
    BY <2>4
<1>6. p + 1 < q
  <2> SUFFICES ASSUME p + 1 = q PROVE FALSE
    BY <1>1
  <2>1. q # n + 1
    BY <1>1, <1>3
  <2>2. s[q] = "/" /\ s[q] = "a"
    BY <1>1, <1>5, <2>1
  <2> QED
    BY <2>2
<1>7. s[q - 1] = "a"
  <2>1. CASE q = n + 1
    <3>1. q - 1 = n
      BY <1>1, <2>1
    <3> QED
      BY <1>2, <3>1
  <2>2. CASE q # n + 1
    <3>1. q \in 1..n /\ q \in Nat /\ s[q] = "/" /\ "/" # "a"
      BY <1>1, <2>2
    <3>2. Fits(s, q) /\ s[q] # "a"
      BY <1>2, <3>1
    <3>3. /\ s[q - 1] \in {"a", "_", "-"}
          /\ s[q - 1] = "-" => s[q] = "-"
          /\ s[q - 1] = "_" => s[q] = "_"
      BY <3>1, <3>2, FitsAfter
    <3> QED
      BY <3>1, <3>3
  <2> QED
    BY <2>1, <2>2
<1>8. ASSUME NEW i \in (p + 2)..(q - 2), NEW j \in (p + 2)..(q - 2), i <= j,
             \A k \in i..j : s[k] # "a", s[i - 1] = "a"
      PROVE  JointAt(s, i, j)
  <2>1. i \in 2..n /\ j \in i..n
    BY <1>1, <1>8
  <2>2. ASSUME NEW k \in i..j PROVE Fits(s, k) /\ s[k] \notin {"a", "/"}
    <3>1. k \in 1..n /\ p < k /\ k < q
      BY <1>1, <2>1
    <3> QED
      BY <1>1, <1>2, <1>8, <3>1
  <2> QED
    BY <1>8, <2>1, <2>2, FittingRun DEF n
<1> QED
  BY <1>5, <1>6, <1>7, <1>8 DEF ValidPiece

\* In a name whose components are valid, every character fits.
LEMMA PiecesFit ==
    ASSUME NEW s \in Seq(Character), \A p, q \in Nat : IsCut(s, p, q) => ValidPiece(s, p, q),
           NEW i \in 1..Len(s)
    PROVE  Fits(s, i)
<1> DEFINE n == Len(s)
<1>0. n \in Nat /\ Cuts(s) \subseteq Nat /\ DOMAIN s = 1..n
  BY DEF Cuts
<1>1. PICK p \in Cuts(s) : p < i /\ \A c \in Cuts(s) : c <= p \/ i <= c
  BY CutBefore
<1>n. p \in Nat /\ i \in Nat /\ i <= n
  BY <1>0
<1>2. CASE s[i] = "a"
  BY <1>2 DEF Fits
<1>3. CASE s[i] = "/"
  <2>1. IsCut(s, p, i)
    BY <1>0, <1>1, <1>3 DEF IsCut, Cuts
  <2>2. ValidPiece(s, p, i)
    BY <1>n, <2>1
  <2>3. p + 1 < i /\ s[i - 1] = "a"
    BY <2>2 DEF ValidPiece
  <2>4. i >= 2
    BY <1>n, <2>3
  <2> QED
    BY <1>3, <2>3, <2>4 DEF Fits
<1>4. CASE s[i] # "a" /\ s[i] # "/"
  <2>1. PICK q \in Cuts(s) : i < q /\ \A c \in Cuts(s) : c <= i \/ q <= c
    BY <1>0, CutAfter
  <2>2. i \notin Cuts(s) /\ q \in Nat
    BY <1>0, <1>4 DEF Cuts
  <2>3. IsCut(s, p, q)
    <3>1. p < q
      BY <1>1, <1>n, <2>1, <2>2
    <3>2. ASSUME NEW c \in Cuts(s) PROVE c <= p \/ q <= c
      <4>1. c \in Nat /\ c # i
        BY <1>0, <2>2
      <4>2. c <= p \/ i <= c
        BY <1>1
      <4>3. c <= i \/ q <= c
        BY <2>1
      <4> QED
        BY <1>n, <4>1, <4>2, <4>3
    <3> QED
      BY <3>1, <3>2 DEF IsCut
  <2>4. ValidPiece(s, p, q)
    BY <1>n, <2>2, <2>3
  <2>5. p + 1 < q /\ s[p + 1] = "a" /\ s[q - 1] = "a"
    BY <2>4 DEF ValidPiece
  <2>6. p + 1 # i /\ q - 1 # i
    BY <1>4, <2>5
  <2>7. p + 1 < i /\ i < q - 1
    BY <1>1, <1>n, <2>1, <2>2, <2>6
  <2>8. PICK l \in (p + 1)..(i - 1) : s[l] = "a" /\ \A k \in (l + 1)..(i - 1) : s[k] # "a"
    <3> DEFINE T == {k \in (p + 1)..(i - 1) : s[k] = "a"}
    <3>1. T \in SUBSET (0..n) /\ p + 1 \in T
      BY <1>0, <1>n, <2>5, <2>7
    <3>2. PICK l \in T : \A k \in T : k <= l
      <4> HIDE DEF T
      <4> QED
        BY <1>0, <3>1, GreatestElement
    <3>3. ASSUME NEW k \in (l + 1)..(i - 1) PROVE s[k] # "a"
      <4>1. l \in (p + 1)..(i - 1)
        OBVIOUS
      <4>2. k \in (p + 1)..(i - 1) /\ ~(k <= l)
        BY <1>n, <4>1
      <4> QED
        BY <3>2, <4>2
    <3> QED
      BY <3>2, <3>3
  <2>9. PICK h \in (i + 1)..(q - 1) : s[h] = "a" /\ \A k \in (i + 1)..(h - 1) : s[k] # "a"
    <3> DEFINE T == {k \in (i + 1)..(q - 1) : s[k] = "a"}
    <3>1. T \in SUBSET Nat /\ q - 1 \in T
      BY <1>n, <2>2, <2>5, <2>7
    <3>2. PICK h \in T : \A k \in T : h <= k
      <4> HIDE DEF T
      <4> QED
        BY <3>1, LeastElement
    <3>3. ASSUME NEW k \in (i + 1)..(h - 1) PROVE s[k] # "a"
      <4>1. h \in (i + 1)..(q - 1)
        OBVIOUS
      <4>2. k \in (i + 1)..(q - 1) /\ ~(h <= k)
        BY <1>n, <2>2, <4>1
      <4> QED
        BY <3>2, <4>2
    <3> QED
      BY <3>2, <3>3
  <2>10. JointAt(s, l + 1, h - 1)
    <3>1. /\ l + 1 \in (p + 2)..(q - 2) /\ h - 1 \in (p + 2)..(q - 2)
          /\ l + 1 <= h - 1 /\ (l + 1) - 1 = l /\ (h - 1) + 1 = h
      BY <1>n, <2>2, <2>7
    <3>2. ASSUME NEW k \in (l + 1)..(h - 1) PROVE s[k] # "a"
      <4>1. k \in (l + 1)..(i - 1) \/ k = i \/ k \in (i + 1)..(h - 1)
        BY <1>n, <2>2
      <4> QED
        BY <1>4, <2>8, <2>9, <4>1
    <3>3. s[(l + 1) - 1] = "a" /\ s[(h - 1) + 1] = "a"
      BY <2>8, <2>9, <3>1
    <3> QED
      BY <2>4, <3>1, <3>2, <3>3 DEF ValidPiece
  <2>11. l \in Nat /\ h \in Nat /\ 1 <= l /\ l < i /\ i < h
    BY <1>n, <2>2
  <2>12. i >= 2
    BY <1>n, <2>11
  <2>13. CASE h - 1 = l + 1 /\ s[l + 1] \in {".", "_"}
    <3>1. i = l + 1 /\ i - 1 = l
      <4>1. h - 1 = l + 1
        BY <2>13, Zenon
      <4> QED
        BY <1>n, <2>11, <4>1
    <3> QED
      BY <2>8, <2>12, <2>13, <3>1 DEF Fits
  <2>14. CASE h - 1 = (l + 1) + 1 /\ s[l + 1] = "_" /\ s[h - 1] = "_"
    <3>1. (i = l + 1 /\ i - 1 = l) \/ (i = h - 1 /\ i - 1 = l + 1 /\ i - 2 = l /\ i >= 3)
      <4>1. h - 1 = (l + 1) + 1
        BY <2>14, Zenon
      <4> QED
        BY <1>n, <2>11, <4>1
    <3>2. CASE i = l + 1 /\ i - 1 = l
      BY <2>8, <2>12, <2>14, <3>2 DEF Fits
    <3>3. CASE i = h - 1 /\ i - 1 = l + 1 /\ i - 2 = l /\ i >= 3
      BY <2>8, <2>14, <3>3 DEF Fits
    <3> QED
      BY <3>1, <3>2, <3>3
  <2>15. CASE \A k \in (l + 1)..(h - 1) : s[k] = "-"
    <3>1. i \in (l + 1)..(h - 1) /\ (i - 1 = l \/ i - 1 \in (l + 1)..(h - 1))
      BY <1>n, <2>11
    <3>2. s[i] = "-" /\ s[i - 1] \in {"a", "-"}
      BY <2>8, <2>15, <3>1
    <3> QED
      BY <2>12, <3>2 DEF Fits
  <2> QED
    BY <2>10, <2>13, <2>14, <2>15 DEF JointAt
<1> QED
  BY <1>2, <1>3, <1>4

\* The components of a name are valid exactly when its characters fit.
LEMMA ComponentsFit ==
    ASSUME NEW s \in Seq(Character)
    PROVE  (\A c \in Components(s) : IsValidComponent(c)) <=> Fitting(s)
<1> DEFINE AllValid == \A p, q \in Nat : IsCut(s, p, q) => ValidPiece(s, p, q)
<1>0. Len(s) \in Nat /\ Cuts(s) \subseteq Nat
  BY DEF Cuts
<1>1. (\A c \in Components(s) : IsValidComponent(c)) <=> AllValid
  <2>1. ASSUME \A c \in Components(s) : IsValidComponent(c),
               NEW p \in Nat, NEW q \in Nat, IsCut(s, p, q)
        PROVE  ValidPiece(s, p, q)
    <3>1. <<p, q>> \in Cuts(s) \X Cuts(s) /\ <<p, q>>[1] = p /\ <<p, q>>[2] = q
      BY <2>1 DEF IsCut
    <3>2. SubSeq(s, p + 1, q - 1) \in Components(s)
      BY <2>1, <3>1, ComponentsCut
    <3> QED
      BY <2>1, <3>2, PieceValid
  <2>2. ASSUME AllValid, NEW c \in Components(s)
        PROVE  IsValidComponent(c)
    <3>1. PICK cut \in Cuts(s) \X Cuts(s) :
              IsCut(s, cut[1], cut[2]) /\ c = SubSeq(s, cut[1] + 1, cut[2] - 1)
      BY ComponentsCut
    <3>2. cut[1] \in Nat /\ cut[2] \in Nat
      BY <1>0
    <3> QED
      BY <2>2, <3>1, <3>2, PieceValid
  <2> QED
    BY <2>1, <2>2
<1>2. ASSUME AllValid PROVE Fitting(s)
  <2>1. PICK p \in Cuts(s) : p < Len(s) + 1 /\ \A c \in Cuts(s) : c <= p \/ Len(s) + 1 <= c
    <3>1. Len(s) + 1 \in 1..(Len(s) + 1)
      BY <1>0
    <3> QED
      BY <3>1, CutBefore
  <2>2. IsCut(s, p, Len(s) + 1)
    BY <2>1 DEF IsCut, Cuts
  <2>3. ValidPiece(s, p, Len(s) + 1)
    BY <1>0, <1>2, <2>2
  <2>4. p + 1 < Len(s) + 1 /\ s[(Len(s) + 1) - 1] = "a"
    BY <2>3 DEF ValidPiece
  <2>5. (Len(s) + 1) - 1 = Len(s) /\ p \in Nat
    BY <1>0
  <2>6. Len(s) >= 1
    <3>1. p + 1 < Len(s) + 1
      BY <2>4, Zenon
    <3> QED
      BY <1>0, <2>5, <3>1
  <2>7. \A i \in 1..Len(s) : Fits(s, i)
    <3> HIDE DEF AllValid
    <3>1. \A p1, q1 \in Nat : IsCut(s, p1, q1) => ValidPiece(s, p1, q1)
      BY <1>2 DEF AllValid
    <3> QED
      BY <3>1, PiecesFit
  <2> QED
    BY <2>4, <2>5, <2>6, <2>7 DEF Fitting
<1>3. ASSUME Fitting(s) PROVE AllValid
  BY <1>3, FittingPieces
<1> QED
  BY <1>1, <1>2, <1>3

\* str.strip() of a string is a string.
LEMMA StripType ==
    ASSUME NEW raw \in Seq(Character)
    PROVE  Strip(raw) \in Seq(Character)
<1> DEFINE solid == {i \in DOMAIN raw : raw[i] # "blank"}
<1>1. CASE solid = {}
  BY <1>1 DEF Strip
<1>2. CASE solid # {}
  <2>1. solid \in SUBSET (0..Len(raw)) /\ solid \in SUBSET Nat /\ Len(raw) \in Nat
    OBVIOUS
  <2>2. /\ \E m \in solid : \A k \in solid : m <= k
        /\ \E m \in solid : \A k \in solid : k <= m
    <3> HIDE DEF solid
    <3> QED
      BY <1>2, <2>1, LeastElement, GreatestElement
  <2>3. Min(solid) \in solid /\ Max(solid) \in solid
    <3>1. \E m \in solid : \A k \in solid : m >= k
      BY <2>1, <2>2
    <3> HIDE DEF solid
    <3> QED
      BY <2>2, <3>1 DEF Min, Max
  <2> DEFINE l == Min(solid)
             h == Max(solid)
  <2>4. l \in 1..Len(raw) /\ h \in 1..Len(raw)
    BY <2>3
  <2>5. Strip(raw) = SubSeq(raw, l, h)
    BY <1>2 DEF Strip
  <2> HIDE DEF l, h
  <2>6. \A i \in l..h : raw[i] \in Character
    BY <2>1, <2>4
  <2>7. l \in Int /\ h \in Int
    BY <2>1, <2>4
  <2> QED
    BY <2>5, <2>6, <2>7, SubSeqProperties
<1> QED
  BY <1>1, <1>2

\* RepositoryName(raw) accepts a string exactly when what it keeps of it is an OCI
\* name, whatever the string's length and whatever the bound on it: splitting at the
\* slashes and matching each component with the pattern is reading the grammar.
THEOREM NameIffOciName ==
    \A raw \in Seq(Character) : IsRepositoryName(raw) <=> IsOciName(Strip(raw))
<1> SUFFICES ASSUME NEW raw \in Seq(Character)
             PROVE  IsRepositoryName(raw) <=> IsOciName(Strip(raw))
  OBVIOUS
<1> DEFINE s == Strip(raw)
<1>1. s \in Seq(Character)
  BY StripType
<1>2. Len(s) \in Nat
  BY <1>1, LenProperties
<1> HIDE DEF s
<1>3. (\A c \in Components(s) : IsValidComponent(c)) <=> Fitting(s)
  BY <1>1, ComponentsFit
<1>4. IsOciName(s) <=> Len(s) <= MaxLength /\ Fitting(s)
  BY <1>2, OciNames DEF Fitting
<1> QED
  BY <1>3, <1>4 DEF IsRepositoryName, s

-----------------------------------------------------------------------------
(* The store *)

\* A row carries the name its create() parsed; only create() refuses a name, and
\* only one that does not parse.
NameInv(r) ==
    /\ row[r] # NoRow => row[r].name = Wanted(r)
    /\ outcome[r] = "InvalidRepositoryName" => call[r].op = "create" /\ Wanted(r) = NoName

\* Once a request has arrived, its call is fixed and no later step refuses its name.
LEMMA CallStays ==
    ASSUME IInv, NEW r \in Request, Serve(r) \/ Fail(r)
    PROVE  /\ call' = call
           /\ outcome'[r] = "InvalidRepositoryName" => outcome[r] = "InvalidRepositoryName"
<1> USE DEF Goto, Answer, Return
<1>t. outcome \in [Request -> Outcome]
  BY DEF IInv, Typed, TypeOK
<1>1. CASE Acquire(r) \/ Rollback(r) \/ Close(r)
  BY <1>1 DEF Acquire, Rollback, Close
<1>2. CASE PoolTimeout(r)
  BY <1>t, <1>2 DEF PoolTimeout
<1>3. CASE Insert(r)
  BY <1>t, <1>3 DEF Insert
<1>4. CASE Update(r) \/ ListPage(r)
  BY <1>4 DEF Update, ListPage
<1>5. CASE Commit(r)
  BY <1>t, <1>5 DEF Commit
<1>6. CASE Select(r)
  BY <1>t, <1>6 DEF Select
<1>7. CASE ListTotal(r)
  BY <1>t, <1>7 DEF ListTotal
<1>8. CASE CommandTimeout(r) \/ DbError(r)
  BY <1>t, <1>8 DEF CommandTimeout, DbError, Raise
<1>9. CASE Resolve(r)
  BY <1>9 DEF Resolve
<1> QED
  BY <1>1, <1>2, <1>3, <1>4, <1>5, <1>6, <1>7, <1>8, <1>9 DEF Serve, Fail

\* A request's step keeps the names of every row.
LEMMA NameStep ==
    ASSUME IInv, NEW r \in Request, RequestStep(r), \A o \in Request : NameInv(o),
           NEW o \in Request
    PROVE  NameInv(o)'
<1>o. OwnInv(r) /\ NameInv(o) /\ NameInv(r) /\ Typed /\ Typed'
  BY TypeStep DEF IInv
<1>a. call \in [Request -> CallType] /\ outcome \in [Request -> Outcome]
  BY <1>o DEF Typed, TypeOK
<1>1. ASSUME row'[o] # NoRow, call'[o] = call[o] PROVE row'[o].name = Wanted(o)'
  <2>1. Wanted(o)' = Wanted(o)
    BY <1>1 DEF Wanted
  <2>2. CASE o \in Stored
    <3>1. row'[o].name = row[o].name
      BY <2>2, RowsAge
    <3> QED
      BY <1>o, <2>1, <2>2, <3>1 DEF NameInv, Stored
  <2>3. CASE o \notin Stored
    <3>1. staged[r] # NoRow /\ o = Target(r) /\ row'[o] = staged[r]
      BY <1>1, <2>3, Frame DEF Stored
    <3>2. call[r].op # "delete"
      BY <1>o, <2>3, <3>1 DEF OwnInv, UpdateInv, Target
    <3>3. call[r].op = "create"
      BY <1>o, <3>1, <3>2 DEF OwnInv, StagedInv
    <3>4. staged[r].name = Wanted(r) /\ o = r
      BY <1>o, <3>1, <3>3 DEF OwnInv, InsertInv, Target
    <3> QED
      BY <2>1, <3>1, <3>4
  <2> QED
    BY <2>2, <2>3
<1>2. CASE o # r
  <2>1. call'[o] = call[o] /\ outcome'[o] = outcome[o]
    BY <1>2, Frame
  <2>2. Wanted(o)' = Wanted(o)
    BY <2>1 DEF Wanted
  <2> QED
    BY <1>o, <1>1, <2>1, <2>2 DEF NameInv
<1>3. CASE o = r /\ (Serve(r) \/ Fail(r))
  <2>1. /\ call'[o] = call[o]
        /\ outcome'[o] = "InvalidRepositoryName" => outcome[o] = "InvalidRepositoryName"
    BY <1>3, CallStays
  <2>2. Wanted(o)' = Wanted(o)
    BY <2>1 DEF Wanted
  <2> QED
    BY <1>o, <1>1, <2>1, <2>2 DEF NameInv
<1>4. CASE o = r /\ Arrive(r)
  <2>1. PICK c \in CallType :
            /\ call' = [call EXCEPT ![r] = c]
            /\ \/ UNCHANGED outcome
               \/ /\ outcome' = [outcome EXCEPT ![r] = "InvalidRepositoryName"]
                  /\ c.op = "create" /\ Parse[c.name] = NoName
    BY <1>4, <1>o, ArriveEffect
  <2>2. pc[r] = "idle" /\ row' = row
    BY <1>4, <1>o, ArriveEffect DEF dbVars
  <2>3. row[r] = NoRow /\ outcome[r] = "none"
    BY <1>o, <2>2 DEF OwnInv, StoredInv, ControlInv
  <2>4. call'[r] = c
    BY <1>a, <2>1
  <2>5. outcome'[r] = "InvalidRepositoryName" => c.op = "create" /\ Parse[c.name] = NoName
    BY <1>a, <2>1, <2>3
  <2> QED
    BY <1>4, <2>2, <2>3, <2>4, <2>5 DEF NameInv, Wanted
<1> QED
  BY <1>2, <1>3, <1>4 DEF RequestStep

\* Every row has an OCI name, and a refused name is none, whoever sends what and
\* however create() and delete() interleave and fail: the grammar of every string and
\* what the store does with it, together.
THEOREM StoredNamesAreOciNames == Spec => []NamesFollowTheGrammar
<1> DEFINE Inv == IInv /\ \A r \in Request : NameInv(r)
<1>1. Init => Inv
  <2> SUFFICES ASSUME Init PROVE Inv
    OBVIOUS
  <2>1. \A r \in Request : NameInv(r)
    BY DEF Init, NameInv
  <2> QED
    BY <2>1, InitIInv
<1>2. Inv /\ [Next]_vars => Inv'
  <2> SUFFICES ASSUME Inv, [Next]_vars PROVE Inv'
    OBVIOUS
  <2>1. IInv'
    BY StepIInv
  <2>2. ASSUME NEW o \in Request PROVE NameInv(o)'
    <3>1. CASE \E r \in Request : Arrive(r) \/ Serve(r) \/ Fail(r)
      BY <3>1, NameStep DEF RequestStep
    <3>2. CASE Kill \/ Tick \/ Quiescent \/ UNCHANGED vars
      <4>1. UNCHANGED <<row, call, outcome>>
        BY <3>2 DEF Kill, Tick, Quiescent, vars, dbVars
      <4> QED
        BY <4>1 DEF NameInv, Wanted
    <3> QED
      BY <3>1, <3>2 DEF Next
  <2> QED
    BY <2>1, <2>2
<1>3. Inv => NamesFollowTheGrammar
  <2> SUFFICES ASSUME Inv PROVE NamesFollowTheGrammar
    OBVIOUS
  <2>1. Misjudged = {}
    <3>1. ASSUME NEW s \in Strings PROVE s \in Seq(Character)
      BY LengthAssumption DEF Strings
    <3>2. ASSUME NEW s \in Strings PROVE IsRepositoryName(s) = IsOciName(Strip(s))
      <4>1. IsRepositoryName(s) <=> IsOciName(Strip(s))
        BY <3>1, NameIffOciName
      <4>2. IsRepositoryName(s) \in BOOLEAN /\ IsOciName(Strip(s)) \in BOOLEAN
        BY Zenon DEF IsRepositoryName, IsOciName
      <4>3. ASSUME NEW A \in BOOLEAN, NEW B \in BOOLEAN, A <=> B PROVE A = B
        BY <4>3
      <4> QED
        BY <4>1, <4>2, <4>3, Zenon
    <3> QED
      BY <3>2, Zenon DEF Misjudged
  <2>2. ASSUME NEW n \in Name
        PROVE  /\ n \in Seq(Character)
               /\ Parse[n] # NoName <=> IsOciName(Strip(n))
               /\ Parse[n] # NoName => Parse[n] = Strip(n)
    <3>1. n \in Seq(Character) /\ NoName \notin Seq(Character)
      BY ParseAssumption
    <3>2. Parse[n] = IF IsRepositoryName(n) THEN Strip(n) ELSE NoName
      BY ParseAssumption
    <3>3. Strip(n) # NoName
      BY <3>1, StripType
    <3> QED
      BY <3>1, <3>2, <3>3, NameIffOciName
  <2>3. ASSUME NEW i \in Stored PROVE IsOciName(row[i].name)
    <3>1. i \in Request /\ row[i] # NoRow /\ row[i] \in Row
      BY DEF Stored, IInv, Typed, TypeOK
    <3>2. row[i].name \in Name /\ row[i].name = Parse[call[i].name]
      BY <3>1 DEF Row, NameInv, Wanted
    <3>3. call[i].name \in Name
      BY <3>1 DEF IInv, OwnInv, StoredInv, CallInv
    <3> QED
      BY <2>2, <3>2, <3>3, NameAssumption
  <2>4. ASSUME NEW r \in Request, outcome[r] = "InvalidRepositoryName"
        PROVE  ~IsOciName(Strip(call[r].name))
    <3>1. call[r].op = "create" /\ Parse[call[r].name] = NoName
      BY <2>4 DEF NameInv, Wanted
    <3>2. call[r].name \in Name
      BY <3>1 DEF IInv, OwnInv, CallInv
    <3> QED
      BY <2>2, <3>1, <3>2
  <2> QED
    BY <2>1, <2>3, <2>4 DEF NamesFollowTheGrammar
<1> HIDE DEF Inv
<1> QED
  BY <1>1, <1>2, <1>3, PTL DEF Spec
=============================================================================
