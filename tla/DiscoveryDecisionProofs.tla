----------------------- MODULE DiscoveryDecisionProofs ----------------------
(***************************************************************************)
(* The decision of a partial local discovery, for any characters, any      *)
(* number of paths and any length: normalization leaves a list in which no *)
(* path lies within another and in which every path that was given lies,   *)
(* and from these two the search finds what the intention names and errs   *)
(* only as the comment in the code admits.                                 *)
(***************************************************************************)
EXTENDS DiscoveryDecision, SequenceTheorems, WellFoundedInduction, TLAPS

Words == Seq(Nat)

\* The list is in order, no path in it lies within another, and the loop has
\* still ahead what comes after it.
Apart ==
    \A i, j \in 1 .. Len(kept) :
        i < j => Less(kept[i], kept[j]) /\ ~Within(kept[j], kept[i])
Ahead == \A i \in 1 .. Len(kept) : \A u \in rest : Less(kept[i], u)

\* What the loop went by lies within a path it kept.
Covered ==
    stage = "normalizing" =>
        \A t \in touched \ rest : \E i \in 1 .. Len(kept) : Within(t, kept[i])

Known ==
    /\ touched \subseteq Touchable /\ rest \subseteq touched
    /\ kept \in Seq(touched)
    /\ stage \in {"touching", "normalizing"}
    /\ stage = "touching" => rest = {} /\ kept = <<>>

Normal == Known /\ Apart /\ Ahead /\ Covered

-----------------------------------------------------------------------------
\* Sequences and their order.

LEMMA Least ==
    ASSUME NEW S \in SUBSET Nat, S # {}
    PROVE  \E i \in S : \A j \in S : i <= j
<1> DEFINE R == {ss \in Nat \X Nat : ss[1] < ss[2]}
<1>1. IsWellFoundedOn(R, Nat)
    BY NatLessThanWellFounded DEF OpToRel
<1>2. \A j, i \in Nat : <<j, i>> \in R <=> j < i
    OBVIOUS
<1> HIDE DEF R
<1>3. PICK i \in S : \A j \in S : ~(<<j, i>> \in R)
    BY <1>1, WFMin
<1>4. ASSUME NEW j \in S PROVE i <= j
    <2>1. i \in Nat /\ j \in Nat /\ ~(<<j, i>> \in R)
        BY <1>3
    <2>2. ~(j < i)
        BY <1>2, <2>1
    <2> QED BY <2>1, <2>2
<1> QED BY <1>4

LEMMA Characters ==
    ASSUME NEW s \in Words
    PROVE  Len(s) \in Nat /\ \A i \in 1 .. Len(s) : s[i] \in Nat
BY DEF Words

LEMMA SameWord ==
    ASSUME NEW s \in Words, NEW t \in Words,
           Len(s) = Len(t), \A i \in 1 .. Len(s) : s[i] = t[i]
    PROVE  s = t
BY SeqEqual DEF Words

LEMMA PrefixPointwise ==
    ASSUME NEW s \in Words, NEW t \in Words
    PROVE  IsPrefix(s, t) <=> Len(s) <= Len(t) /\ \A j \in 1 .. Len(s) : s[j] = t[j]
<1>1. ASSUME IsPrefix(s, t), NEW j \in 1 .. Len(s) PROVE s[j] = t[j]
    <2>1. /\ Len(s) \in Nat /\ Len(t) \in Nat /\ Len(s) <= Len(t)
          /\ \A i \in 1 .. Len(s) : s[i] \in Nat
          /\ \A i \in 1 .. Len(t) : t[i] \in Nat
        BY <1>1, Characters DEF IsPrefix
    <2>2. SubSeq(s, 1, Len(s))[j] = s[j]
        BY <2>1, SubSeqProperties
    <2>3. SubSeq(t, 1, Len(s))[j] = t[j]
        BY <2>1, SubSeqProperties
    <2> QED BY <1>1, <2>2, <2>3 DEF IsPrefix
<1>2. ASSUME Len(s) <= Len(t), \A j \in 1 .. Len(s) : s[j] = t[j]
      PROVE  IsPrefix(s, t)
    <2>1. SubSeq(s, 1, Len(s)) = SubSeq(t, 1, Len(s))
        BY <1>2 DEF Words
    <2> QED BY <1>2, <2>1 DEF IsPrefix
<1> QED BY <1>1, <1>2 DEF IsPrefix

LEMMA SameLength ==
    ASSUME NEW s \in Words, NEW t \in Words, IsPrefix(s, t), Len(t) <= Len(s)
    PROVE  s = t
BY PrefixPointwise, Characters, SameWord

\* Two prefixes of the same path.
LEMMA Prefixes2 ==
    ASSUME NEW s \in Words, NEW t \in Words, NEW u \in Words,
           IsPrefix(s, u), IsPrefix(t, u), Len(s) <= Len(t)
    PROVE  IsPrefix(s, t)
BY PrefixPointwise, Characters

LEMMA PrefixTransitive ==
    ASSUME NEW s \in Words, NEW t \in Words, NEW u \in Words,
           IsPrefix(s, t), IsPrefix(t, u)
    PROVE  IsPrefix(s, u)
BY PrefixPointwise, Characters

LEMMA PrefixReflexive ==
    ASSUME NEW s \in Words
    PROVE  IsPrefix(s, s)
BY PrefixPointwise, Characters

\* The place where s ends or has the smaller character.
LEMMA LessBy ==
    ASSUME NEW s \in Words, NEW t \in Words, NEW i \in 1 .. Len(t), i <= Len(s) + 1,
           \A j \in 1 .. i - 1 : s[j] = t[j], i <= Len(s) => s[i] < t[i]
    PROVE  Less(s, t)
BY DEF Less

LEMMA LessIrreflexive ==
    ASSUME NEW s \in Words
    PROVE  ~Less(s, s)
BY Characters DEF Less

LEMMA LessTransitive ==
    ASSUME NEW s \in Words, NEW t \in Words, NEW u \in Words, Less(s, t), Less(t, u)
    PROVE  Less(s, u)
<1>1. PICK i \in 1 .. Len(t) : /\ i <= Len(s) + 1
                               /\ \A j \in 1 .. i - 1 : s[j] = t[j]
                               /\ i <= Len(s) => s[i] < t[i]
    BY DEF Less
<1>2. PICK k \in 1 .. Len(u) : /\ k <= Len(t) + 1
                               /\ \A j \in 1 .. k - 1 : t[j] = u[j]
                               /\ k <= Len(t) => t[k] < u[k]
    BY DEF Less
<1>3. CASE i <= k
    <2>1. \A j \in 1 .. i - 1 : s[j] = u[j]
        BY <1>1, <1>2, <1>3, Characters
    <2>2. i <= Len(s) => s[i] < u[i]
        BY <1>1, <1>2, <1>3, Characters
    <2>3. i \in 1 .. Len(u) /\ i <= Len(s) + 1
        BY <1>1, <1>2, <1>3, Characters
    <2> QED BY <2>1, <2>2, <2>3, LessBy
<1>4. CASE k < i
    <2>1. \A j \in 1 .. k - 1 : s[j] = u[j]
        BY <1>1, <1>2, <1>4, Characters
    <2>2. k <= Len(s) /\ s[k] < u[k]
        BY <1>1, <1>2, <1>4, Characters
    <2>3. k \in 1 .. Len(u) /\ k <= Len(s) + 1
        BY <2>2, Characters
    <2> QED BY <2>1, <2>2, <2>3, LessBy
<1> QED BY <1>1, <1>2, <1>3, <1>4

LEMMA LessAsymmetric ==
    ASSUME NEW s \in Words, NEW t \in Words, Less(s, t)
    PROVE  ~Less(t, s)
BY LessTransitive, LessIrreflexive

LEMMA LessTotal ==
    ASSUME NEW s \in Words, NEW t \in Words, s # t
    PROVE  Less(s, t) \/ Less(t, s)
<1> DEFINE Differs == {i \in 1 .. Len(s) : i <= Len(t) /\ s[i] # t[i]}
<1>1. CASE Differs = {}
    <2>1. \A j \in 1 .. Len(s) : j <= Len(t) => s[j] = t[j]
        BY <1>1
    <2>2. Len(s) # Len(t)
        BY <2>1, SameWord
    <2>3. CASE Len(s) < Len(t)
        <3>1. Len(s) + 1 \in 1 .. Len(t)
            BY <2>3, Characters
        <3>2. \A j \in 1 .. Len(s) : s[j] = t[j]
            BY <2>1, <2>3, Characters
        <3> QED BY <3>1, <3>2, LessBy, Characters
    <2>4. CASE Len(t) < Len(s)
        <3>1. Len(t) + 1 \in 1 .. Len(s)
            BY <2>4, Characters
        <3>2. \A j \in 1 .. Len(t) : s[j] = t[j]
            BY <2>1, <2>4, Characters
        <3> QED BY <3>1, <3>2, LessBy, Characters
    <2> QED BY <2>2, <2>3, <2>4, Characters
<1>2. CASE Differs # {}
    <2>1. Differs \in SUBSET Nat
        BY Characters
    <2>2. PICK i \in Differs : \A j \in Differs : i <= j
        <3> HIDE DEF Differs
        <3> QED BY <1>2, <2>1, Least
    <2>3. i \in 1 .. Len(s) /\ i \in 1 .. Len(t) /\ s[i] \in Nat /\ t[i] \in Nat
        BY Characters
    <2>4. \A j \in 1 .. i - 1 : s[j] = t[j]
        BY <2>2, <2>3, Characters
    <2>5. s[i] < t[i] \/ t[i] < s[i]
        BY <2>3
    <2> QED BY <2>3, <2>4, <2>5 DEF Less
<1> QED BY <1>1, <1>2

LEMMA PrefixFirst ==
    ASSUME NEW s \in Words, NEW t \in Words, IsPrefix(s, t), s # t
    PROVE  Less(s, t) /\ Len(s) < Len(t)
<1>1. Len(s) < Len(t) /\ \A j \in 1 .. Len(s) : s[j] = t[j]
    BY PrefixPointwise, SameLength, Characters
<1>2. Len(s) + 1 \in 1 .. Len(t)
    BY <1>1, Characters
<1> QED BY <1>1, <1>2, Characters DEF Less

\* What lies between two paths that start alike starts like them.
LEMMA Between ==
    ASSUME NEW p \in Words, NEW s \in Words, NEW t \in Words, NEW u \in Words,
           IsPrefix(p, s), IsPrefix(p, u), Less(s, t), Less(t, u)
    PROVE  IsPrefix(p, t)
<1>1. PICK i \in 1 .. Len(t) : /\ i <= Len(s) + 1
                               /\ \A j \in 1 .. i - 1 : s[j] = t[j]
                               /\ i <= Len(s) => s[i] < t[i]
    BY DEF Less
<1>2. PICK k \in 1 .. Len(u) : /\ k <= Len(t) + 1
                               /\ \A j \in 1 .. k - 1 : t[j] = u[j]
                               /\ k <= Len(t) => t[k] < u[k]
    BY DEF Less
<1>3. /\ Len(p) <= Len(s) /\ \A j \in 1 .. Len(p) : p[j] = s[j]
      /\ Len(p) <= Len(u) /\ \A j \in 1 .. Len(p) : p[j] = u[j]
    BY PrefixPointwise
<1>4. CASE i > Len(p)
    BY <1>1, <1>3, <1>4, PrefixPointwise, Characters
<1>5. CASE k > Len(p)
    BY <1>2, <1>3, <1>5, PrefixPointwise, Characters
<1>6. CASE i <= Len(p) /\ k <= Len(p)
    <2>1. i <= Len(s) /\ p[i] < t[i] /\ p[i] = u[i] /\ p[k] = u[k] /\ p[k] = s[k]
        BY <1>1, <1>2, <1>3, <1>6, Characters
    <2>2. i \in 1 .. Len(t) /\ k \in 1 .. Len(u) /\ p[i] \in Nat /\ t[i] \in Nat
        BY <1>6, Characters
    <2>3. ~(i < k)
        BY <1>2, <2>1, <2>2
    <2>4. k <= Len(t) /\ t[k] < p[k]
        <3>1. k <= i /\ k <= Len(t)
            BY <2>2, <2>3, Characters
        <3> QED BY <1>2, <2>1, <3>1
    <2>5. ~(k < i)
        BY <1>1, <2>1, <2>2, <2>4, Characters
    <2>6. i = k
        BY <2>2, <2>3, <2>5, Characters
    <2> QED BY <2>1, <2>2, <2>4, <2>6
<1> QED BY <1>1, <1>2, <1>4, <1>5, <1>6, Characters

\* Of two paths that continue the same one, the lesser one continues it with
\* no greater character.
LEMMA NextCharacter ==
    ASSUME NEW p \in Words, NEW s \in Words, NEW t \in Words,
           IsPrefix(p, s), IsPrefix(p, t), Less(s, t), Len(p) < Len(s)
    PROVE  Len(p) < Len(t) /\ s[Len(p) + 1] <= t[Len(p) + 1]
<1>1. PICK i \in 1 .. Len(t) : /\ i <= Len(s) + 1
                               /\ \A j \in 1 .. i - 1 : s[j] = t[j]
                               /\ i <= Len(s) => s[i] < t[i]
    BY DEF Less
<1>2. \A j \in 1 .. Len(p) : p[j] = s[j] /\ p[j] = t[j]
    BY PrefixPointwise
<1>3. i > Len(p)
    BY <1>1, <1>2, Characters
<1>4. s[Len(p) + 1] \in Nat /\ t[Len(p) + 1] \in Nat
    BY <1>1, <1>3, Characters
<1>5. CASE i = Len(p) + 1
    BY <1>1, <1>3, <1>4, <1>5, Characters
<1>6. CASE i > Len(p) + 1
    BY <1>1, <1>3, <1>4, <1>6, Characters
<1> QED BY <1>3, <1>5, <1>6, Characters

\* The search ends at the first path that is not less than the one it is for.
LEMMA SearchEnds ==
    ASSUME NEW paths \in Seq(Words), NEW path \in Words
    PROVE  LET it == LowerBound(paths, path)
           IN /\ it \in 1 .. Len(paths) + 1
              /\ \A j \in 1 .. it - 1 : Less(paths[j], path)
              /\ it = Len(paths) + 1 \/ ~Less(paths[it], path)
<1> DEFINE Stops == {i \in 1 .. Len(paths) + 1 : i = Len(paths) + 1 \/ ~Less(paths[i], path)}
<1>1. Stops \in SUBSET Nat /\ Stops # {}
    <2>1. Len(paths) + 1 \in Stops
        OBVIOUS
    <2> QED BY <2>1
<1>2. PICK i \in Stops : \A j \in Stops : i <= j
    <2> HIDE DEF Stops
    <2> QED BY <1>1, Least
<1>3. \A j \in 1 .. i - 1 : Less(paths[j], path)
    BY <1>2
<1>4. \E k \in 1 .. Len(paths) + 1 :
        /\ \A j \in 1 .. k - 1 : Less(paths[j], path)
        /\ k = Len(paths) + 1 \/ ~Less(paths[k], path)
    BY <1>3
<1> QED BY <1>4 DEF LowerBound

-----------------------------------------------------------------------------
\* Paths.

\* No separator at the end.
Bare(d) == d = <<>> \/ d[Len(d)] # Slash

LEMMA DirectoriesBare ==
    ASSUME NEW d \in Directories
    PROVE  d \in Words /\ Bare(d)
<1>1. CASE d # <<>>
    <2>1. PICK n \in 1 .. MaxLength : d \in [1 .. n -> Chars] /\ d[Len(d)] # Slash
        BY <1>1 DEF Directories
    <2>2. n \in Nat /\ d \in [1 .. n -> Nat]
        <3>1. n \in Nat /\ Chars \subseteq Nat
            BY DecisionAssumption
        <3>2. [1 .. n -> Chars] \subseteq [1 .. n -> Nat]
            BY <3>1
        <3> QED BY <2>1, <3>1, <3>2
    <2>3. d \in Words
        BY <2>2, SeqDef DEF Words
    <2> QED BY <2>1, <2>3 DEF Bare
<1>2. <<>> \in Words
    BY EmptySeq DEF Words
<1> QED BY <1>1, <1>2 DEF Bare

LEMMA TouchablesPlain ==
    ASSUME NEW t \in Touchable
    PROVE  /\ t \in Words /\ Plain(t) \in Words /\ Bare(Plain(t))
           /\ t = Plain(t) \/ t = Append(Plain(t), Slash)
           /\ ~WithRoot => t # <<>> /\ Plain(t) # <<>>
<1>1. CASE t \in Directories
    <2>1. t \in Words /\ Bare(t)
        BY <1>1, DirectoriesBare
    <2>2. Plain(t) = t
        BY <2>1 DEF Plain, Bare
    <2> QED BY <2>1, <2>2 DEF Touchable
<1>2. CASE t \notin Directories
    <2>1. PICK d \in Directories \ {<<>>} : t = Append(d, Slash)
        BY <1>2 DEF Touchable
    <2>2. d \in Words /\ Bare(d)
        BY DirectoriesBare
    <2>3. t \in Words /\ Len(t) = Len(d) + 1 /\ t[Len(t)] = Slash /\ t # <<>>
        BY <2>1, <2>2, DecisionAssumption DEF Words
    <2>4. Front(t) = d
        <3>1. Front(t) \in Words /\ Len(Front(t)) = Len(d)
            BY <2>2, <2>3 DEF Front, Words
        <3>2. \A i \in 1 .. Len(d) : Front(t)[i] = d[i]
            BY <2>1, <2>2, <2>3 DEF Front, Words
        <3> QED BY <2>2, <3>1, <3>2, SameWord
    <2>5. Plain(t) = d
        BY <2>3, <2>4 DEF Plain
    <2> QED BY <2>1, <2>2, <2>3, <2>5
<1> QED BY <1>1, <1>2

\* What lies between a path and one within it is itself within the path.
LEMMA WithinBetween ==
    ASSUME NEW p \in Words, NEW s \in Words, NEW u \in Words,
           Within(u, p), Less(p, s), Less(s, u)
    PROVE  Within(s, p)
<1>1. IsPrefix(p, u) /\ IsPrefix(p, s)
    BY Between, PrefixReflexive DEF Within
<1>2. u # p /\ s # p
    BY LessAsymmetric, LessIrreflexive
<1>3. Len(p) < Len(s)
    BY <1>1, <1>2, PrefixFirst
<1>4. Len(p) < Len(u) /\ s[Len(p) + 1] <= u[Len(p) + 1]
    BY <1>1, <1>3, NextCharacter
<1>5. s[Len(p) + 1] \in Nat /\ u[Len(p) + 1] \in Nat /\ Slash \in Nat
    BY <1>3, <1>4, Characters, DecisionAssumption
<1> QED BY <1>1, <1>2, <1>4, <1>5 DEF Within

-----------------------------------------------------------------------------
\* The search in a list in order in which no path lies within another.

Lists ==
    {paths \in Seq(Words) :
        \A i, j \in 1 .. Len(paths) :
            i < j => Less(paths[i], paths[j]) /\ ~Within(paths[j], paths[i])}

LEMMA SearchFound ==
    ASSUME NEW paths \in Lists, NEW d \in Words, NEW i \in 1 .. Len(paths),
           paths[i] = d \/ Less(d, paths[i])
    PROVE  LowerBound(paths, d) <= i
<1> DEFINE it == LowerBound(paths, d)
<1>1. it \in Nat /\ \A j \in 1 .. it - 1 : Less(paths[j], d)
    BY SearchEnds DEF Lists
<1>2. ~Less(paths[i], d)
    BY LessAsymmetric, LessIrreflexive DEF Lists
<1> HIDE DEF it
<1>3. ~(i < it)
    BY <1>1, <1>2
<1> QED BY <1>1, <1>3 DEF it

\* The directories on the way to a path in the list.
LEMMA AboveFound ==
    ASSUME NEW paths \in Lists, NEW d \in Words, NEW i \in 1 .. Len(paths),
           IsPrefix(d, paths[i]), d # paths[i],
           d = <<>> \/ paths[i][Len(d) + 1] = Slash
    PROVE  ShouldDiscoverLocally(paths, d)
<1> DEFINE it == LowerBound(paths, d)
<1>1. Less(d, paths[i]) /\ Len(d) < Len(paths[i])
    BY PrefixFirst DEF Lists
<1>2. it \in 1 .. Len(paths) /\ it <= i /\ ~Less(paths[it], d)
    <2>1. it <= i
        BY <1>1, SearchFound
    <2>2. it \in 1 .. Len(paths) + 1 /\ (it = Len(paths) + 1 \/ ~Less(paths[it], d))
        BY SearchEnds DEF Lists
    <2> HIDE DEF it
    <2> QED BY <2>1, <2>2
<1>3. IsPrefix(d, paths[it])
    <2> HIDE DEF it
    <2>1. paths[it] \in Words /\ paths[i] \in Words
        BY <1>2 DEF Lists
    <2>2. CASE it = i
        BY <2>2
    <2>3. CASE it < i /\ paths[it] # d
        <3>1. Less(d, paths[it]) /\ Less(paths[it], paths[i])
            BY <1>2, <2>1, <2>3, LessTotal DEF Lists
        <3> QED BY <2>1, <3>1, Between, PrefixReflexive
    <2>4. CASE paths[it] = d
        BY <2>4, PrefixReflexive
    <2> QED BY <1>2, <2>2, <2>3, <2>4
<1>4. it \in {k \in it .. Len(paths) : IsPrefix(d, paths[k])}
    BY <1>2, <1>3
<1>5. i \in {k \in it .. Len(paths) : IsPrefix(d, paths[k])}
    BY <1>2
<1> QED BY <1>1, <1>4, <1>5 DEF ShouldDiscoverLocally

\* A path in the list and what lies within it.
LEMMA WithinFound ==
    ASSUME NEW paths \in Lists, NEW d \in Words, Bare(d), NEW i \in 1 .. Len(paths),
           paths[i] # <<>>, Within(d, paths[i])
    PROVE  ShouldDiscoverLocally(paths, d)
<1> DEFINE it == LowerBound(paths, d)
           e == paths[i]
<1>1. e \in Words /\ IsPrefix(e, d)
    BY DEF Lists, Within
<1>2. /\ it \in 1 .. Len(paths) + 1
      /\ \A j \in 1 .. it - 1 : Less(paths[j], d)
      /\ it = Len(paths) + 1 \/ ~Less(paths[it], d)
    BY SearchEnds DEF Lists
<1>3. \A j \in 1 .. Len(paths) : paths[j] \in Words
    BY DEF Lists
<1>4. CASE d = e
    <2>1. it <= i
        BY <1>4, SearchFound
    <2>2. it = i
        <3> HIDE DEF it
        <3>1. it < i => Less(paths[it], d)
            BY <1>2, <1>4 DEF Lists
        <3> QED BY <1>2, <2>1, <3>1
    <2>3. it \in {k \in it .. Len(paths) : IsPrefix(d, paths[k])}
        BY <1>1, <1>4, <2>2
    <2> QED BY <1>4, <2>2, <2>3 DEF ShouldDiscoverLocally
<1>5. CASE d # e
    <2>1. Less(e, d) /\ Len(e) < Len(d)
        BY <1>1, <1>5, PrefixFirst
    <2>2. i < it
        <3> HIDE DEF it
        <3>1. it <= i => Less(d, d)
            <4>1. CASE it = i
                BY <1>2, <2>1, <4>1
            <4>2. CASE it < i
                <5>1. Less(paths[it], e)
                    BY <1>2, <4>2 DEF Lists
                <5> QED BY <1>1, <1>2, <1>3, <2>1, <4>2, <5>1, LessTransitive
            <4> QED BY <1>2, <4>1, <4>2
        <3> QED BY <1>2, <3>1, LessIrreflexive
    <2>3. e[Len(e)] = Slash \/ d[Len(e) + 1] <= Slash
        BY <1>5 DEF Within
    <2>4. it \notin {k \in it .. Len(paths) : IsPrefix(d, paths[k])}
        <3> SUFFICES ASSUME it \in 1 .. Len(paths), IsPrefix(d, paths[it]) PROVE FALSE
            BY <1>2
        <3> HIDE DEF it
        <3>1. IsPrefix(e, paths[it])
            BY <1>1, <1>3, PrefixTransitive
        <3>2. Len(e) + 1 \in 1 .. Len(d)
            BY <1>1, <2>1, Characters
        <3>3. paths[it][Len(e) + 1] = d[Len(e) + 1]
            BY <1>3, <3>2, PrefixPointwise
        <3>4. Within(paths[it], e)
            BY <2>3, <3>1, <3>3 DEF Within
        <3> QED BY <2>2, <3>4 DEF Lists
    <2>5. Inside(d, paths[it - 1])
        <3> HIDE DEF it
        <3>1. CASE it - 1 = i
            BY <1>1, <2>1, <2>3, <3>1 DEF Inside
        <3>2. CASE it - 1 # i
            <4>1. it - 1 \in 1 .. Len(paths) /\ i < it - 1
                BY <1>2, <2>2, <3>2
            <4>2. Less(e, paths[it - 1]) /\ Less(paths[it - 1], d)
                BY <1>2, <4>1 DEF Lists
            <4>3. Within(paths[it - 1], e)
                BY <1>1, <1>3, <4>1, <4>2, WithinBetween
            <4> QED BY <4>1, <4>3 DEF Lists
        <3> QED BY <3>1, <3>2
    <2>6. it # 1
        BY <2>2
    <2> QED BY <2>4, <2>5, <2>6 DEF ShouldDiscoverLocally
<1> QED BY <1>4, <1>5

-----------------------------------------------------------------------------
\* What the intention names is found.

\* A prefix of a path that goes on at the same place, with the same character.
LEMMA NextOfPrefix ==
    ASSUME NEW s \in Words, NEW t \in Words, IsPrefix(s, t), NEW n \in Nat, n < Len(s)
    PROVE  t[n + 1] = s[n + 1]
BY PrefixPointwise, Characters

LEMMA AppendedPrefix ==
    ASSUME NEW d \in Words, NEW t \in Words
    PROVE  /\ Append(d, Slash) \in Words
           /\ IsPrefix(Append(d, Slash), t) <=>
                IsPrefix(d, t) /\ Len(d) < Len(t) /\ t[Len(d) + 1] = Slash
<1> DEFINE a == Append(d, Slash)
<1>1. /\ a \in Words /\ Len(a) = Len(d) + 1 /\ a[Len(d) + 1] = Slash
      /\ \A j \in 1 .. Len(d) : a[j] = d[j]
    BY DecisionAssumption DEF Words
<1> HIDE DEF a
<1>2. IsPrefix(a, t) <=> Len(a) <= Len(t) /\ \A j \in 1 .. Len(a) : a[j] = t[j]
    BY <1>1, PrefixPointwise
<1>3. IsPrefix(d, t) <=> Len(d) <= Len(t) /\ \A j \in 1 .. Len(d) : d[j] = t[j]
    BY PrefixPointwise
<1>4. Len(d) \in Nat /\ Len(t) \in Nat
    BY Characters
<1>5. ASSUME IsPrefix(a, t)
      PROVE  IsPrefix(d, t) /\ Len(d) < Len(t) /\ t[Len(d) + 1] = Slash
    BY <1>1, <1>2, <1>3, <1>4, <1>5
<1>6. ASSUME IsPrefix(d, t), Len(d) < Len(t), t[Len(d) + 1] = Slash
      PROVE  IsPrefix(a, t)
    BY <1>1, <1>2, <1>3, <1>4, <1>6
<1> QED BY <1>1, <1>5, <1>6 DEF a

\* The way to a touched path: d is the path or a directory above it.
LEMMA WayFound ==
    ASSUME NEW paths \in Lists, NEW d \in Words, Bare(d), NEW i \in 1 .. Len(paths),
           paths[i] # <<>>, NEW t \in Words, Within(t, paths[i]),
           IsPrefix(d, t), t = d \/ t[Len(d) + 1] = Slash
    PROVE  ShouldDiscoverLocally(paths, d)
<1> DEFINE e == paths[i]
<1>1. e \in Words /\ IsPrefix(e, t)
    BY DEF Lists, Within
<1>2. Len(d) \in Nat /\ Len(e) \in Nat /\ Len(t) \in Nat
    BY <1>1, Characters
<1>3. CASE Len(d) < Len(e)
    <2>1. IsPrefix(d, e)
        BY <1>1, <1>3, Prefixes2, <1>2
    <2>2. d # e /\ d # t
        BY <1>1, <1>2, <1>3, PrefixPointwise
    <2>3. e[Len(d) + 1] = Slash
        BY <1>1, <1>2, <1>3, <2>2, NextOfPrefix
    <2> QED BY <2>1, <2>2, <2>3, AboveFound
<1>4. CASE Len(e) <= Len(d)
    <2>1. IsPrefix(e, d)
        BY <1>1, <1>4, Prefixes2
    <2>2. CASE d = e
        BY <2>1, <2>2, WithinFound DEF Within
    <2>3. CASE d # e
        <3>1. Len(e) < Len(d)
            BY <1>1, <2>1, <2>3, PrefixFirst
        <3>2. t # e /\ t[Len(e) + 1] = d[Len(e) + 1]
            BY <1>2, <2>1, <3>1, NextOfPrefix, PrefixPointwise
        <3>3. Within(d, e)
            BY <2>1, <3>2 DEF Within
        <3> QED BY <3>3, WithinFound
    <2> QED BY <2>2, <2>3
<1> QED BY <1>2, <1>3, <1>4

\* What lies below a touched path.
LEMMA BelowFound ==
    ASSUME NEW paths \in Lists, NEW d \in Words, Bare(d), NEW i \in 1 .. Len(paths),
           paths[i] # <<>>, NEW t \in Words, Within(t, paths[i]),
           IsPrefix(t, d), t # d, t[Len(t)] = Slash \/ d[Len(t) + 1] = Slash
    PROVE  ShouldDiscoverLocally(paths, d)
<1> DEFINE e == paths[i]
<1>1. e \in Words /\ IsPrefix(e, t) /\ IsPrefix(e, d)
    BY PrefixTransitive DEF Lists, Within
<1>2. Slash \in Nat
    BY DecisionAssumption
<1>3. CASE t = e
    BY <1>1, <1>2, <1>3, WithinFound DEF Within
<1>4. CASE t # e
    <2>1. Len(e) < Len(t) /\ Len(e) \in Nat
        BY <1>1, <1>4, PrefixFirst, Characters
    <2>2. d[Len(e) + 1] = t[Len(e) + 1]
        BY <2>1, NextOfPrefix
    <2>3. Within(d, e)
        BY <1>1, <1>4, <2>2 DEF Within
    <2> QED BY <2>3, WithinFound
<1> QED BY <1>3, <1>4

-----------------------------------------------------------------------------
\* The loop.

LEMMA NormalInit == Init => Normal
BY EmptySeq DEF Init, Normal, Known, Apart, Ahead, Covered

LEMMA NormalTouch ==
    ASSUME Normal, NEW p \in Touchable, Touch(p)
    PROVE  Normal'
<1>1. Known'
    <2>1. kept \in Seq(touched')
        BY SeqMonotonic DEF Touch, Normal, Known
    <2> QED BY <2>1 DEF Touch, Normal, Known
<1>2. Apart' /\ Ahead' /\ Covered'
    BY DEF Touch, Normal, Apart, Ahead, Covered
<1> QED BY <1>1, <1>2 DEF Normal

LEMMA NormalBegins ==
    ASSUME Normal, SetLocalDiscoveryOptions
    PROVE  Normal'
<1>1. <<>> \in Seq(touched) /\ Len(<<>>) = 0
    BY EmptySeq
<1> QED BY <1>1 DEF SetLocalDiscoveryOptions, Normal, Known, Apart, Ahead, Covered

\* What is known is what the lemmas about lists need.
LEMMA KeptWords ==
    ASSUME Known
    PROVE  /\ touched \subseteq Words
           /\ kept \in Seq(Words) /\ \A i \in 1 .. Len(kept) : kept[i] \in touched
           /\ Apart => kept \in Lists
<1>1. touched \subseteq Words
    BY TouchablesPlain DEF Known
<1>2. kept \in Seq(Words) /\ \A i \in 1 .. Len(kept) : kept[i] \in touched
    BY <1>1, SeqMonotonic DEF Known
<1> QED BY <1>1, <1>2 DEF Apart, Lists

LEMMA NormalTurns ==
    ASSUME Normal, NEW t \in rest, Normalize(t)
    PROVE  Normal'
<1> DEFINE n == Len(kept)
<1>1. n \in Nat /\ t \in touched /\ t \in Words /\ touched' = touched /\ stage' = stage
    BY KeptWords DEF Normal, Known, Normalize
<1>2. \A u \in rest \ {t} : Less(t, u)
    BY DEF Normalize
<1>3. CASE kept # <<>> /\ Within(t, Last(kept))
    <2>1. kept' = kept /\ rest' = rest \ {t}
        BY <1>3 DEF Normalize
    <2>2. n \in 1 .. Len(kept) /\ Within(t, kept[n])
        BY <1>1, <1>3 DEF Last, Normal, Known
    <2>3. Covered'
        BY <1>1, <2>1, <2>2 DEF Normal, Covered
    <2> QED BY <1>1, <2>1, <2>3 DEF Normal, Known, Apart, Ahead
<1>4. CASE ~(kept # <<>> /\ Within(t, Last(kept)))
    <2>1. kept' = Append(kept, t) /\ rest' = rest \ {t}
        BY <1>4 DEF Normalize
    <2>2. /\ kept' \in Seq(touched) /\ Len(kept') = n + 1 /\ kept'[n + 1] = t
          /\ \A i \in 1 .. n : kept'[i] = kept[i]
        BY <1>1, <2>1 DEF Normal, Known
    <2>3. \A i \in 1 .. n : Less(kept[i], t) /\ kept[i] \in Words
        BY KeptWords DEF Normal, Ahead
    <2>4. ASSUME NEW i \in 1 .. n PROVE ~Within(t, kept[i])
        <3>1. n \in 1 .. n /\ kept # <<>>
            BY <1>1 DEF Normal, Known
        <3>2. ~Within(t, kept[n])
            BY <1>4, <3>1 DEF Last
        <3>3. CASE i < n
            <4>1. Less(kept[i], kept[n]) /\ ~Within(kept[n], kept[i])
                BY <3>1, <3>3 DEF Normal, Apart
            <4> QED BY <1>1, <2>3, <3>1, <4>1, WithinBetween
        <3> QED BY <3>1, <3>2, <3>3
    <2>5. Apart'
        <3> SUFFICES ASSUME NEW i \in 1 .. n + 1, NEW j \in 1 .. n + 1, i < j
                     PROVE  Less(kept'[i], kept'[j]) /\ ~Within(kept'[j], kept'[i])
            BY <2>2 DEF Apart
        <3>1. CASE j = n + 1
            BY <1>1, <2>2, <2>3, <2>4, <3>1
        <3>2. CASE j # n + 1
            BY <1>1, <2>2, <3>2 DEF Normal, Apart
        <3> QED BY <3>1, <3>2
    <2>6. Ahead'
        <3> SUFFICES ASSUME NEW i \in 1 .. n + 1, NEW u \in rest \ {t}
                     PROVE  Less(kept'[i], u)
            BY <2>1, <2>2 DEF Ahead
        <3>1. CASE i = n + 1
            BY <1>2, <2>2, <3>1
        <3>2. CASE i # n + 1
            BY <1>1, <2>2, <3>2 DEF Normal, Ahead
        <3> QED BY <3>1, <3>2
    <2>7. Covered'
        <3> SUFFICES ASSUME stage = "normalizing", NEW u \in touched \ (rest \ {t})
                     PROVE  \E i \in 1 .. n + 1 : Within(u, kept'[i])
            BY <1>1, <2>1, <2>2 DEF Covered
        <3>1. CASE u = t
            <4>1. Within(t, t)
                BY <1>1, PrefixReflexive DEF Within
            <4> QED BY <1>1, <2>2, <3>1, <4>1
        <3>2. CASE u # t
            <4>1. PICK i \in 1 .. n : Within(u, kept[i])
                BY <3>2 DEF Normal, Covered
            <4> QED BY <1>1, <2>2, <4>1
        <3> QED BY <3>1, <3>2
    <2>8. Known'
        <3>1. stage # "touching"
            BY DEF Normal, Known
        <3> QED BY <1>1, <2>1, <2>2, <3>1 DEF Normal, Known
    <2> QED BY <2>5, <2>6, <2>7, <2>8 DEF Normal
<1> QED BY <1>3, <1>4

\* Normalization keeps its promises at every turn of the loop.
THEOREM NormalNext == Normal /\ [Next]_vars => Normal'
<1>1. Normal /\ UNCHANGED vars => Normal'
    BY DEF vars, Normal, Known, Apart, Ahead, Covered
<1> QED BY <1>1, NormalTouch, NormalBegins, NormalTurns DEF Next

-----------------------------------------------------------------------------
LEMMA IntendedFound ==
    ASSUME ~WithRoot, Normal
    PROVE  IntendedIsDiscovered
<1> SUFFICES ASSUME Ready, NEW d \in Directories, Intended(d)
             PROVE  ShouldDiscoverLocally(kept, d)
    BY DEF IntendedIsDiscovered
<1>1. d \in Words /\ Bare(d)
    BY DirectoriesBare
<1>2. PICK t \in touched : AtOrBelow(Plain(t), d) \/ AtOrBelow(d, Plain(t))
    BY DEF Intended
<1>3. /\ t \in Words /\ Plain(t) \in Words /\ Bare(Plain(t))
      /\ t = Plain(t) \/ t = Append(Plain(t), Slash)
      /\ t # <<>> /\ Plain(t) # <<>>
    BY TouchablesPlain DEF Normal, Known
<1>4. PICK i \in 1 .. Len(kept) : Within(t, kept[i])
    BY DEF Normal, Covered, Ready
<1>5. kept \in Lists /\ kept[i] \in touched
    BY KeptWords DEF Normal
<1>6. kept[i] # <<>>
    BY <1>5, TouchablesPlain DEF Normal, Known
<1>7. kept[i] \in Words
    BY <1>5, KeptWords DEF Normal
<1> DEFINE P == Plain(t)
<1> HIDE DEF P
<1>8. IsPrefix(P, t) /\ (t = P \/ t[Len(P) + 1] = Slash) /\ (t # P => t[Len(t)] = Slash)
    <2>1. CASE t = P
        BY <1>3, <2>1, PrefixReflexive
    <2>2. CASE t = Append(P, Slash)
        <3>1. IsPrefix(P, t) /\ Len(P) < Len(t) /\ t[Len(P) + 1] = Slash
            BY <1>3, <2>2, AppendedPrefix, PrefixReflexive DEF P
        <3>2. Len(t) = Len(P) + 1
            BY <1>3, <2>2 DEF P, Words
        <3> QED BY <3>1, <3>2
    <2> QED BY <1>3, <2>1, <2>2 DEF P
<1>9. CASE d = <<>>
    <2>1. IsPrefix(d, kept[i])
        BY <1>1, <1>7, <1>9, PrefixPointwise
    <2> QED BY <1>1, <1>5, <1>6, <1>9, <2>1, AboveFound
<1>10. CASE d = P
    BY <1>1, <1>3, <1>4, <1>5, <1>6, <1>8, <1>10, WayFound
<1>11. CASE IsPrefix(Append(d, Slash), P)
    <2>1. IsPrefix(Append(d, Slash), t)
        BY <1>1, <1>3, <1>8, <1>11, AppendedPrefix, PrefixTransitive DEF P
    <2>2. IsPrefix(d, t) /\ t[Len(d) + 1] = Slash
        BY <1>1, <1>3, <2>1, AppendedPrefix
    <2> QED BY <1>1, <1>3, <1>4, <1>5, <1>6, <2>2, WayFound
<1>12. CASE IsPrefix(Append(P, Slash), d)
    <2>1. IsPrefix(P, d) /\ Len(P) < Len(d) /\ d[Len(P) + 1] = Slash
        BY <1>1, <1>3, <1>12, AppendedPrefix DEF P
    <2>2. IsPrefix(t, d)
        BY <1>3, <1>12, <2>1 DEF P
    <2>3. t # d
        <3>1. CASE t = P
            BY <2>1, <3>1, <1>1, Characters
        <3>2. CASE t # P
            BY <1>3, <1>8, <3>2, <1>1 DEF Bare
        <3> QED BY <3>1, <3>2
    <2>4. t[Len(t)] = Slash \/ d[Len(t) + 1] = Slash
        BY <1>8, <2>1
    <2> QED BY <1>1, <1>3, <1>4, <1>5, <1>6, <2>2, <2>3, <2>4, BelowFound
<1> QED BY <1>2, <1>3, <1>9, <1>10, <1>11, <1>12 DEF AtOrBelow, P

LEMMA FoundIsIntended ==
    ASSUME Normal
    PROVE  OnlyKnownFalsePositives
<1> SUFFICES ASSUME Ready, NEW d \in Directories, ShouldDiscoverLocally(kept, d),
                    ~Intended(d)
             PROVE  \E p \in touched : \E i \in 1 .. Len(d) :
                        d[i] < Slash /\ SubSeq(d, 1, i - 1) = Plain(p)
    BY DEF OnlyKnownFalsePositives
<1>1. d \in Words /\ Bare(d)
    BY DirectoriesBare
<1>2. kept \in Lists /\ \A i \in 1 .. Len(kept) : kept[i] \in touched /\ kept[i] \in Words
    BY KeptWords DEF Normal
<1>3. \A t \in touched :
        /\ t \in Words /\ Plain(t) \in Words
        /\ t = Plain(t) \/ t = Append(Plain(t), Slash)
    BY TouchablesPlain DEF Normal, Known
<1> DEFINE it == LowerBound(kept, d)
           Starting == {i \in it .. Len(kept) : IsPrefix(d, kept[i])}
<1>4. it \in 1 .. Len(kept) + 1
    BY <1>1, <1>2, SearchEnds DEF Lists
<1>5. \A t \in touched : ~AtOrBelow(Plain(t), d) /\ ~AtOrBelow(d, Plain(t))
    BY DEF Intended
\* A path in the list that starts with d is d or lies below it.
<1>6. it \notin Starting
    <2> SUFFICES ASSUME it \in Starting PROVE FALSE
        OBVIOUS
    <2>1. \/ kept[it] = d \/ d = <<>>
          \/ \E i \in Starting : Len(kept[i]) > Len(d) /\ kept[i][Len(d) + 1] = Slash
        BY DEF ShouldDiscoverLocally
    <2>2. it \in 1 .. Len(kept) /\ kept[it] \in touched
        BY <1>2, <1>4
    <2> HIDE DEF it
    <2>3. CASE kept[it] = d
        <3>1. Plain(d) = d
            BY <1>1 DEF Plain, Bare
        <3> QED BY <1>5, <2>2, <2>3, <3>1 DEF AtOrBelow
    <2>4. CASE d = <<>>
        BY <1>5, <2>2, <2>4 DEF AtOrBelow
    <2>5. ASSUME NEW i \in Starting, Len(kept[i]) > Len(d), kept[i][Len(d) + 1] = Slash
          PROVE  FALSE
        <3> DEFINE e == kept[i]
        <3>1. e \in touched /\ e \in Words /\ IsPrefix(d, e)
            BY <1>2, <2>2
        <3>2. Append(d, Slash) \in Words /\ IsPrefix(Append(d, Slash), e)
            BY <1>1, <2>5, <3>1, AppendedPrefix
        <3>3. CASE e = Plain(e)
            BY <1>5, <3>1, <3>2, <3>3 DEF AtOrBelow
        <3>4. CASE e = Append(Plain(e), Slash)
            <4> DEFINE P == Plain(e)
            <4> HIDE DEF P
            <4>1. P \in Words /\ IsPrefix(P, e) /\ Len(e) = Len(P) + 1
                <5>1. P \in Words
                    BY <1>3, <3>1 DEF P
                <5>2. Len(e) = Len(P) + 1
                    BY <3>4, <5>1 DEF P, Words
                <5>3. IsPrefix(P, e)
                    <6>1. IsPrefix(Append(P, Slash), e)
                        BY <3>1, <3>4, PrefixReflexive DEF P
                    <6> QED BY <3>1, <5>1, <6>1, AppendedPrefix
                <5> QED BY <5>1, <5>2, <5>3
            <4>2. Len(d) \in Nat /\ Len(P) \in Nat /\ Len(Append(d, Slash)) = Len(d) + 1
                BY <1>1, <4>1 DEF Words
            <4>3. CASE Len(P) = Len(d)
                <5>1. P = d
                    BY <1>1, <3>1, <4>1, <4>3, Prefixes2, SameLength
                <5> QED BY <1>5, <3>1, <5>1 DEF P, AtOrBelow
            <4>4. CASE Len(P) # Len(d)
                <5>1. Len(Append(d, Slash)) <= Len(P)
                    BY <2>5, <4>1, <4>2, <4>4
                <5>2. IsPrefix(Append(d, Slash), P)
                    BY <3>1, <3>2, <4>1, <5>1, Prefixes2
                <5> QED BY <1>5, <3>1, <5>2 DEF P, AtOrBelow
            <4> QED BY <4>3, <4>4
        <3> QED BY <1>3, <3>1, <3>3, <3>4
    <2> QED BY <2>1, <2>3, <2>4, <2>5
<1>7. it # 1 /\ Inside(d, kept[it - 1])
    BY <1>6 DEF ShouldDiscoverLocally
<1> DEFINE e == kept[it - 1]
<1>8. e \in touched /\ e \in Words /\ IsPrefix(e, d)
    BY <1>2, <1>4, <1>7 DEF Inside
<1> HIDE DEF e
<1>9. \/ e # <<>> /\ e[Len(e)] = Slash
      \/ Len(d) > Len(e) /\ d[Len(e) + 1] <= Slash
    BY <1>7 DEF Inside, e
<1>10. e = Plain(e)
    <2> SUFFICES ASSUME e = Append(Plain(e), Slash) PROVE FALSE
        BY <1>3, <1>8
    <2> QED BY <1>5, <1>8 DEF AtOrBelow
<1>11. Len(d) > Len(e) /\ d[Len(e) + 1] <= Slash
    <2>1. ~(e # <<>> /\ e[Len(e)] = Slash)
        <3>1. Bare(e)
            BY <1>8, <1>10, TouchablesPlain DEF Normal, Known
        <3> QED BY <3>1 DEF Bare
    <2> QED BY <1>9, <2>1
<1>12. Len(e) \in Nat /\ Len(d) \in Nat /\ d[Len(e) + 1] \in Nat /\ Slash \in Nat
    BY <1>1, <1>8, <1>11, Characters, DecisionAssumption
<1>13. d[Len(e) + 1] # Slash
    <2> SUFFICES ASSUME d[Len(e) + 1] = Slash PROVE FALSE
        OBVIOUS
    <2>1. IsPrefix(Append(e, Slash), d)
        BY <1>1, <1>8, <1>11, AppendedPrefix
    <2> QED BY <1>5, <1>8, <1>10, <2>1 DEF AtOrBelow
<1>14. SubSeq(d, 1, Len(e)) = e
    <2>1. \A i \in 1 .. Len(e) : d[i] \in Nat
        BY <1>1, <1>11, <1>12, Characters
    <2>2. /\ SubSeq(d, 1, Len(e)) \in Words /\ Len(SubSeq(d, 1, Len(e))) = Len(e)
          /\ \A i \in 1 .. Len(e) : SubSeq(d, 1, Len(e))[i] = d[i]
        BY <1>12, <2>1, SubSeqProperties DEF Words
    <2>3. \A i \in 1 .. Len(e) : e[i] = d[i]
        BY <1>1, <1>8, PrefixPointwise
    <2> QED BY <1>8, <2>2, <2>3, SameWord
<1>15. Len(e) + 1 \in 1 .. Len(d) /\ (Len(e) + 1) - 1 = Len(e)
    BY <1>11, <1>12
<1> QED BY <1>8, <1>10, <1>11, <1>12, <1>13, <1>14, <1>15

(***************************************************************************)
(* Whatever paths are given to the engine, short of the root itself, every *)
(* directory on the way to one, at it or below it is read from the disk.   *)
(***************************************************************************)
THEOREM NothingIntendedIsMissed ==
    ASSUME ~WithRoot
    PROVE  Spec => []IntendedIsDiscovered
<1>1. Normal => IntendedIsDiscovered
    BY IntendedFound
<1> QED BY <1>1, NormalInit, NormalNext, PTL DEF Spec

(***************************************************************************)
(* What is read from the disk without need continues the name of a touched *)
(* path with a character before the separator, with the root or without.   *)
(***************************************************************************)
THEOREM FalsePositivesAreKnown == Spec => []OnlyKnownFalsePositives
<1>1. Normal => OnlyKnownFalsePositives
    BY FoundIsIntended
<1> QED BY <1>1, NormalInit, NormalNext, PTL DEF Spec
=============================================================================
