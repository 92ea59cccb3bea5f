------------------------- MODULE DiscoveryDecision --------------------------
(***************************************************************************)
(* The decision of a partial local discovery: given the paths the tracker  *)
(* names, does the engine read this directory?  SyncEngine keeps them in   *)
(* an ordered set, drops those that lie within another one, and answers    *)
(* with a search in what is left.                                          *)
(*                                                                         *)
(* The answer depends on how characters compare with the separator, so a   *)
(* path is a sequence of numbers: some before the separator, as a space or *)
(* a dash is, some after it, as letters are.                               *)
(***************************************************************************)
EXTENDS Naturals, FiniteSets, Sequences, SequencesExt

CONSTANTS
    Chars,       \* characters, in their order
    Slash,       \* the separator
    MaxLength,   \* bound: characters of a path
    MaxTouched,  \* bound: paths given to the engine
    WithRoot     \* the watcher may report the root itself, the empty path

ASSUME DecisionAssumption ==
    /\ Chars \subseteq Nat /\ Slash \in Chars
    /\ MaxLength \in Nat \ {0} /\ MaxTouched \in Nat /\ WithRoot \in BOOLEAN

VARIABLES
    touched,   \* the paths of the tracker and of the uploads to resume
    stage,     \* "touching", then "normalizing"
    rest,      \* the paths the loop of setLocalDiscoveryOptions has ahead
    kept       \* those it went by and kept, the last of them its prev

vars == <<touched, stage, rest, kept>>

\* Directories of the tree, relative to its root: no empty name in them.
Directories ==
    {<<>>} \cup
    {p \in UNION {[1 .. n -> Chars] : n \in 1 .. MaxLength} :
        /\ p[1] # Slash /\ p[Len(p)] # Slash
        /\ \A i \in 1 .. Len(p) - 1 : p[i] # Slash \/ p[i + 1] # Slash}

\* A touched path may carry a separator at its end.
Touchable == {p \in Directories \cup {Append(d, Slash) : d \in Directories \ {<<>>}} :
                WithRoot \/ p # <<>>}

---------------------------------------------------------------------------
\* The order of the set, that of QString: a prefix comes first.
Less(s, t) ==
    \E i \in 1 .. Len(t) :
        /\ i <= Len(s) + 1
        /\ \A j \in 1 .. i - 1 : s[j] = t[j]
        /\ i <= Len(s) => s[i] < t[i]

\* The condition under which setLocalDiscoveryOptions drops t after prev.
Within_Letters(t, prev) == IsPrefix(prev, t)
Within(t, prev) ==
    /\ IsPrefix(prev, t)
    /\ \/ prev # <<>> /\ prev[Len(prev)] = Slash
       \/ t = prev
       \/ t[Len(prev) + 1] <= Slash

\* std::set::lower_bound, one beyond the last for its end.
LowerBound(paths, path) ==
    CHOOSE i \in 1 .. Len(paths) + 1 :
        /\ \A j \in 1 .. i - 1 : Less(paths[j], path)
        /\ i = Len(paths) + 1 \/ ~Less(paths[i], path)

\* A directory inside of a path in the list.
Inside_Prefix(path, entry) == IsPrefix(entry, path)
Inside(path, entry) ==
    /\ IsPrefix(entry, path)
    /\ \/ entry # <<>> /\ entry[Len(entry)] = Slash
       \/ Len(path) > Len(entry) /\ path[Len(entry) + 1] <= Slash

\* SyncEngine::shouldDiscoverLocally, under DatabaseAndFilesystem, when the
\* paths in the list are left.
ShouldDiscoverLocally(paths, path) ==
    LET it == LowerBound(paths, path)
        Starting == {i \in it .. Len(paths) : IsPrefix(path, paths[i])}
    IN IF it \notin Starting
       THEN it # 1 /\ Inside(path, paths[it - 1])
       ELSE \/ paths[it] = path \/ path = <<>>
            \/ \E i \in Starting :
                  Len(paths[i]) > Len(path) /\ paths[i][Len(path) + 1] = Slash

---------------------------------------------------------------------------
Init == touched = {} /\ stage = "touching" /\ rest = {} /\ kept = <<>>

Touch(p) ==
    /\ stage = "touching" /\ Cardinality(touched) < MaxTouched
    /\ touched' = touched \cup {p}
    /\ UNCHANGED <<stage, rest, kept>>

\* SyncEngine::setLocalDiscoveryOptions, up to its loop.
SetLocalDiscoveryOptions ==
    /\ stage = "touching"
    /\ stage' = "normalizing" /\ rest' = touched /\ kept' = <<>>
    /\ UNCHANGED touched

\* A turn of the loop, which nothing interrupts: t, next in the order of the
\* set, is compared with the last one that was kept.
Normalize(t) ==
    /\ \A u \in rest \ {t} : Less(t, u)
    /\ rest' = rest \ {t}
    /\ kept' = IF kept # <<>> /\ Within(t, Last(kept)) THEN kept ELSE Append(kept, t)
    /\ UNCHANGED <<touched, stage>>

Next == \/ \E p \in Touchable : Touch(p)
        \/ SetLocalDiscoveryOptions
        \/ \E t \in rest : Normalize(t)

Spec == Init /\ [][Next]_vars

\* The engine may ask for directories.
Ready == stage = "normalizing" /\ rest = {}

---------------------------------------------------------------------------
\* The path without the separator at its end.
Plain(p) == IF p # <<>> /\ p[Len(p)] = Slash THEN Front(p) ELSE p

\* d is the directory p itself or lies below it.
AtOrBelow(d, p) == d = p \/ p = <<>> \/ IsPrefix(Append(p, Slash), d)

(***************************************************************************)
(* The intention stated in SyncEngine::shouldDiscoverLocally: the          *)
(* directories on the way to a touched path, the path itself and all below *)
(* it are discovered.                                                      *)
(***************************************************************************)
Intended(d) == \E p \in touched : AtOrBelow(Plain(p), d) \/ AtOrBelow(d, Plain(p))

(***************************************************************************)
(* Whatever normalization dropped and wherever the search lands, no        *)
(* directory the intention names is read from the database instead.        *)
(***************************************************************************)
IntendedIsDiscovered ==
    Ready => \A d \in Directories : Intended(d) => ShouldDiscoverLocally(kept, d)

(***************************************************************************)
(* A directory is read without need only if its path continues a touched   *)
(* one with a character that sorts before the separator: the "false        *)
(* positive" the comment in setLocalDiscoveryOptions admits.               *)
(***************************************************************************)
OnlyKnownFalsePositives ==
    Ready => \A d \in Directories :
        ShouldDiscoverLocally(kept, d) =>
            \/ Intended(d)
            \/ \E p \in touched : \E i \in 1 .. Len(d) :
                  d[i] < Slash /\ SubSeq(d, 1, i - 1) = Plain(p)
=============================================================================
