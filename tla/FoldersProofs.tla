---------------------------- MODULE FoldersProofs ----------------------------
(***************************************************************************)
(* Proofs about the totals of the tree and the index of duplicate folders  *)
(* (Folders), for every tree, any number of mutators and of requests.      *)
(*                                                                         *)
(* In order: the tree of folders; sums; types; the balance of the totals,  *)
(* from which TotalsSettle; the summaries and what a rebuild has read of   *)
(* them, from which FreshUnlessDirty; paths and what folders hold, from    *)
(* which ClonesAreExact and MatchIsExact.  What a recursive definition     *)
(* gives is had by climbing the tree from the root or from the leaves: a   *)
(* set of folders closed one way or the other is all of them.              *)
(***************************************************************************)
EXTENDS Folders, FiniteSetTheorems, SequenceTheorems, TLAPS

-----------------------------------------------------------------------------
\* The tree of folders.  A set of folders that has the root, and a folder whenever it
\* has the one it lies in, is all of them; and so is one that has a folder
\* whenever it has all that lies in it.

\* Of some subsets of a finite set, one has none of the others in it.
LEMMA Smallest ==
    ASSUME NEW S, IsFiniteSet(S), NEW T \in SUBSET (SUBSET S), T # {}
    PROVE  \E s \in T : \A t \in T : t \subseteq s => t = s
<1>1. IsWellFoundedOn(StrictSubsetOrdering(S), SUBSET S)
  BY FS_StrictSubsetOrderingWellFounded, FS_FiniteSubsetsOfFinite
<1>2. PICK s \in T : \A t \in T : ~(<<t, s>> \in StrictSubsetOrdering(S))
  BY <1>1, WFMin
<1> QED
  BY <1>2 DEF StrictSubsetOrdering

LEMMA FromTheRoot ==
    ASSUME NEW S \in SUBSET Dirs, Root \in S,
           \A d \in Dirs \ {Root} : Parent[d] \in S => d \in S
    PROVE  S = Dirs
<1> SUFFICES ASSUME Dirs \ S # {} PROVE FALSE
  OBVIOUS
<1>1. PICK d \in Dirs \ S : Parent[d] \notin Dirs \ S
  <2>1. Dirs \ S \in SUBSET (Dirs \ {Root})
    OBVIOUS
  <2>2. \A T \in SUBSET (Dirs \ {Root}) : T # {} => \E d \in T : Parent[d] \notin T
    BY TreeAssumption DEF TreeAssumption
  <2> QED
    BY <2>1, <2>2
<1>2. Parent[d] \in Dirs
  BY TreeAssumption DEF TreeAssumption
<1> QED
  BY <1>1, <1>2

LEMMA FromTheLeaves ==
    ASSUME NEW S \in SUBSET Dirs,
           \A d \in Dirs : (\A e \in Dirs \ {Root} : Parent[e] = d => e \in S) => d \in S
    PROVE  S = Dirs
<1> DEFINE B == Dirs \ S
           K == { e \in B \ {Root} : Parent[e] \in B }
           f == [e \in K |-> Parent[e]]
<1> SUFFICES ASSUME B # {} PROVE FALSE
  OBVIOUS
<1>0. B # {}
  OBVIOUS
<1>1. \A d \in B : \E e \in K : Parent[e] = d
  OBVIOUS
<1>2. f \in Surjection(K, B)
  BY <1>1 DEF Surjection
<1>3. IsFiniteSet(B) /\ IsFiniteSet(K) /\ Cardinality(K) <= Cardinality(B)
  <2>1. IsFiniteSet(B)
    BY TreeAssumption, FS_Subset DEF TreeAssumption
  <2> QED
    BY <2>1, FS_Subset
<1>4. Cardinality(B) <= Cardinality(K)
  BY <1>2, <1>3, FS_Surjection
<1>5. Cardinality(B) \in Nat /\ Cardinality(K) \in Nat
  BY <1>3, FS_CardinalityType
<1>6. B = K
  BY <1>3, <1>4, <1>5, FS_Subset
<1>7. B \subseteq Dirs \ {Root} /\ \A d \in B : Parent[d] \in B
  BY <1>6
<1> HIDE DEF B, K, f
<1>8. B \in SUBSET (Dirs \ {Root})
  BY <1>7
<1> QED
  BY <1>0, <1>7, <1>8, TreeAssumption DEF TreeAssumption

\* The folders above a folder, nearest first.
Climb(f, d) == IF d = Root THEN <<>> ELSE <<Parent[d]>> \o f[Parent[d]]

LEMMA ChainsExist == \E f : f = [d \in Dirs |-> Climb(f, d)]
<1> DEFINE good == { D \in SUBSET Dirs : /\ Root \in D
                                         /\ \A d \in D \ {Root} : Parent[d] \in D
                                         /\ \E f : f = [d \in D |-> Climb(f, d)] }
           rest == { Dirs \ D : D \in good }
<1>1. {Root} \in good
  <2> DEFINE f == [d \in {Root} |-> <<>>]
  <2>1. f = [d \in {Root} |-> Climb(f, d)]
    BY DEF Climb
  <2> QED
    BY <2>1, TreeAssumption DEF TreeAssumption
<1>2. PICK R \in rest : \A t \in rest : t \subseteq R => t = R
  <2>1. rest \in SUBSET (SUBSET Dirs) /\ rest # {}
    BY <1>1
  <2> HIDE DEF rest
  <2> QED
    BY <2>1, Smallest, TreeAssumption DEF TreeAssumption
<1>3. PICK D \in good : R = Dirs \ D
  BY <1>2
<1>4. PICK f : f = [d \in D |-> Climb(f, d)]
  BY <1>3
<1>5. CASE R = {}
  BY <1>3, <1>4, <1>5
<1>6. CASE R # {}
  <2>1. PICK d \in R : Parent[d] \notin R
    BY <1>3, <1>6, TreeAssumption DEF TreeAssumption
  <2>2. d \in Dirs \ {Root} /\ d \notin D /\ Parent[d] \in D
    BY <1>3, <2>1, TreeAssumption DEF TreeAssumption
  <2> DEFINE E == D \cup {d}
             g == [e \in E |-> IF e = d THEN Climb(f, d) ELSE f[e]]
  <2>3. \A e \in E : g[e] = Climb(g, e)
    <3>1. g[d] = Climb(g, d)
      BY <2>2 DEF Climb
    <3>2. ASSUME NEW e \in D PROVE g[e] = Climb(g, e)
      <4>1. g[e] = Climb(f, e)
        BY <1>4, <2>2
      <4>2. e = Root \/ Parent[e] \in D
        BY <1>3
      <4> QED
        BY <2>2, <4>1, <4>2 DEF Climb
    <3> QED
      BY <3>1, <3>2
  <2>4. g = [e \in E |-> Climb(g, e)]
    BY <2>3
  <2>5. E \in good
    <3>1. E \in SUBSET Dirs /\ Root \in E /\ \A e \in E \ {Root} : Parent[e] \in E
      BY <1>3, <2>2
    <3>2. \E h : h = [e \in E |-> Climb(h, e)]
      BY <2>4
    <3> QED
      BY <3>1, <3>2
  <2>6. Dirs \ E \in rest /\ Dirs \ E \subseteq R /\ Dirs \ E # R
    BY <1>3, <2>1, <2>5
  <2> QED
    BY <1>2, <2>6
<1> QED
  BY <1>5, <1>6

LEMMA Chains ==
    /\ Chain[Root] = <<>>
    /\ \A d \in Dirs \ {Root} : Chain[d] = <<Parent[d]>> \o Chain[Parent[d]]
    /\ \A d \in Dirs : Chain[d] \in Seq(Dirs)
<1>1. Chain = [d \in Dirs |-> Climb(Chain, d)]
  BY ChainsExist DEF Chain, Climb
<1>2. \A d \in Dirs : Chain[d] = Climb(Chain, d)
  BY <1>1
<1>3. Chain[Root] = <<>>
  BY <1>2, TreeAssumption DEF Climb, TreeAssumption
<1>4. \A d \in Dirs \ {Root} : Chain[d] = <<Parent[d]>> \o Chain[Parent[d]]
  BY <1>2 DEF Climb
<1> DEFINE S == { d \in Dirs : Chain[d] \in Seq(Dirs) }
<1>5. S = Dirs
  <2>0. <<>> \in Seq(Dirs)
    BY EmptySeq
  <2>1. Root \in S
    BY <1>3, <2>0, TreeAssumption DEF TreeAssumption
  <2>2. ASSUME NEW d \in Dirs \ {Root}, Parent[d] \in S PROVE d \in S
    <3>1. <<Parent[d]>> \in Seq(Dirs) /\ Chain[Parent[d]] \in Seq(Dirs)
      BY <2>2
    <3>2. <<Parent[d]>> \o Chain[Parent[d]] \in Seq(Dirs)
      BY <3>1, ConcatProperties
    <3> QED
      BY <1>4, <3>2
  <2>3. S \in SUBSET Dirs
    OBVIOUS
  <2> HIDE DEF S
  <2> QED
    BY <2>1, <2>2, <2>3, FromTheRoot
<1> QED
  BY <1>3, <1>4, <1>5

\* The chain of a folder is that of the one it lies in, with that one before it.
LEMMA ChainGrows ==
    ASSUME NEW d \in Dirs \ {Root}
    PROVE  /\ Parent[d] \in Dirs
           /\ Len(Chain[d]) = Len(Chain[Parent[d]]) + 1
           /\ Chain[d][1] = Parent[d]
           /\ \A i \in 1..Len(Chain[Parent[d]]) : Chain[d][i + 1] = Chain[Parent[d]][i]
           /\ Chain[d] # <<>> /\ Head(Chain[d]) = Parent[d]
           /\ Tail(Chain[d]) = Chain[Parent[d]]
<1>1. Parent[d] \in Dirs
  BY TreeAssumption DEF TreeAssumption
<1> DEFINE c == Chain[Parent[d]]
<1>2. c \in Seq(Dirs) /\ Len(c) \in Nat /\ Chain[d] = <<Parent[d]>> \o c
  BY <1>1, Chains, LenProperties
<1> HIDE DEF c
<1>3. <<Parent[d]>> \in Seq(Dirs) /\ Len(<<Parent[d]>>) = 1
  BY <1>1
<1>4. /\ Len(<<Parent[d]>> \o c) = Len(c) + 1
      /\ \A i \in 1..(Len(c) + 1) : (<<Parent[d]>> \o c)[i] =
            IF i <= 1 THEN <<Parent[d]>>[i] ELSE c[i - 1]
      /\ <<Parent[d]>> \o c \in Seq(Dirs)
  BY <1>2, <1>3, ConcatProperties
<1>5. (<<Parent[d]>> \o c)[1] = Parent[d]
  BY <1>2, <1>4
<1>6. \A i \in 1..Len(c) : (<<Parent[d]>> \o c)[i + 1] = c[i]
  BY <1>2, <1>4
<1>7. <<Parent[d]>> \o c # <<>>
  BY <1>2, <1>4
<1>8. Head(<<Parent[d]>> \o c) = Parent[d]
  BY <1>4, <1>5, <1>7
<1>9. Tail(<<Parent[d]>> \o c) = c
  <2> DEFINE t == Tail(<<Parent[d]>> \o c)
  <2>1. t \in Seq(Dirs) /\ Len(t) = Len(c)
    BY <1>2, <1>4, <1>7, HeadTailProperties
  <2>2. \A i \in 1..Len(t) : t[i] = c[i]
    BY <1>2, <1>4, <1>6, <1>7, <2>1
  <2> HIDE DEF t
  <2> QED
    BY <1>2, <2>1, <2>2, SeqEqual
<1> QED
  BY <1>1, <1>2, <1>4, <1>5, <1>6, <1>7, <1>8, <1>9 DEF c

\* The folders above, as sets.
LEMMA AboveGrows ==
    /\ Above[Root] = {}
    /\ \A d \in Dirs \ {Root} : Above[d] = {Parent[d]} \cup Above[Parent[d]]
    /\ \A d \in Dirs : Above[d] \subseteq Dirs
<1>0. \A d \in Dirs : Above[d] = { Chain[d][i] : i \in 1..Len(Chain[d]) }
  BY DEF Above
<1>1. Above[Root] = {}
  BY <1>0, Chains, TreeAssumption DEF TreeAssumption
<1>2. ASSUME NEW d \in Dirs PROVE Above[d] \subseteq Dirs
  <2>1. Chain[d] \in Seq(Dirs)
    BY Chains
  <2>2. \A i \in 1..Len(Chain[d]) : Chain[d][i] \in Dirs
    BY <2>1, ElementOfSeq
  <2> QED
    BY <1>0, <2>2
<1>3. ASSUME NEW d \in Dirs \ {Root} PROVE Above[d] = {Parent[d]} \cup Above[Parent[d]]
  <2> DEFINE c == Chain[d]
             b == Chain[Parent[d]]
  <2>1. /\ Parent[d] \in Dirs /\ Len(c) = Len(b) + 1 /\ c[1] = Parent[d]
        /\ \A i \in 1..Len(b) : c[i + 1] = b[i]
    BY ChainGrows
  <2>2. Len(b) \in Nat
    BY <2>1, Chains, LenProperties
  <2>3. Above[d] = { c[i] : i \in 1..Len(c) } /\ Above[Parent[d]] = { b[i] : i \in 1..Len(b) }
    BY <1>0, <2>1
  <2> HIDE DEF b, c
  <2>4. \A i \in 1..Len(c) : i = 1 \/ (i - 1 \in 1..Len(b) /\ c[i] = b[i - 1])
    BY <2>1, <2>2
  <2>5. \A i \in 1..Len(b) : i + 1 \in 1..Len(c) /\ c[i + 1] = b[i]
    BY <2>1, <2>2
  <2>6. 1 \in 1..Len(c)
    BY <2>1, <2>2
  <2>7. Above[d] \subseteq {Parent[d]} \cup Above[Parent[d]]
    BY <2>1, <2>3, <2>4
  <2>8. {Parent[d]} \cup Above[Parent[d]] \subseteq Above[d]
    BY <2>1, <2>3, <2>5, <2>6
  <2> QED
    BY <2>7, <2>8
<1> QED
  BY <1>1, <1>2, <1>3

LEMMA AboveIsClosed == \A d \in Dirs : \A e \in Above[d] : Above[e] \subseteq Above[d]
<1> DEFINE S == { d \in Dirs : \A e \in Above[d] : Above[e] \subseteq Above[d] }
<1>1. Root \in S
  BY AboveGrows, TreeAssumption DEF TreeAssumption
<1>2. ASSUME NEW d \in Dirs \ {Root}, Parent[d] \in S PROVE d \in S
  BY <1>2, AboveGrows
<1>3. S \in SUBSET Dirs
  OBVIOUS
<1>4. S = Dirs
  <2> HIDE DEF S
  <2> QED
    BY <1>1, <1>2, <1>3, FromTheRoot
<1> QED
  BY <1>4

LEMMA NotInItself == \A d \in Dirs : d \notin Above[d]
<1> DEFINE S == { d \in Dirs : d \notin Above[d] }
<1>1. Root \in S
  BY AboveGrows, TreeAssumption DEF TreeAssumption
<1>2. ASSUME NEW d \in Dirs \ {Root}, Parent[d] \in S PROVE d \in S
  BY <1>2, AboveGrows, AboveIsClosed
<1>3. S \in SUBSET Dirs
  OBVIOUS
<1>4. S = Dirs
  <2> HIDE DEF S
  <2> QED
    BY <1>1, <1>2, <1>3, FromTheRoot
<1> QED
  BY <1>4

LEMMA RootAboveAll == \A d \in Dirs \ {Root} : Root \in Above[d]
<1> DEFINE S == { d \in Dirs : d = Root \/ Root \in Above[d] }
<1>1. Root \in S
  BY TreeAssumption DEF TreeAssumption
<1>2. ASSUME NEW d \in Dirs \ {Root}, Parent[d] \in S PROVE d \in S
  BY <1>2, AboveGrows
<1>3. S \in SUBSET Dirs
  OBVIOUS
<1>4. S = Dirs
  <2> HIDE DEF S
  <2> QED
    BY <1>1, <1>2, <1>3, FromTheRoot
<1> QED
  BY <1>4

\* Of two folders above a third, or it, one is above the other.
LEMMA OneLine ==
    \A d \in Dirs : \A a, b \in Above[d] \cup {d} : a = b \/ a \in Above[b] \/ b \in Above[a]
<1> DEFINE P(d) == \A a, b \in Above[d] \cup {d} : a = b \/ a \in Above[b] \/ b \in Above[a]
           S == { d \in Dirs : P(d) }
<1>1. Root \in S
  BY AboveGrows, TreeAssumption DEF TreeAssumption
<1>2. ASSUME NEW d \in Dirs \ {Root}, Parent[d] \in S PROVE d \in S
  <2>1. Above[d] = Above[Parent[d]] \cup {Parent[d]}
    BY AboveGrows
  <2>2. P(Parent[d])
    BY <1>2
  <2> QED
    BY <2>1, <2>2
<1>3. S \in SUBSET Dirs
  OBVIOUS
<1>4. S = Dirs
  <2> HIDE DEF S
  <2> QED
    BY <1>1, <1>2, <1>3, FromTheRoot
<1> QED
  BY <1>4

LEMMA BelowIs == \A d, e \in Dirs : e \in Below[d] <=> e = d \/ d \in Above[e]
  BY DEF Below

LEMMA BelowInDirs == \A d \in Dirs : Below[d] \subseteq Dirs /\ d \in Below[d] /\ IsFiniteSet(Below[d])
<1>1. \A d \in Dirs : Below[d] \subseteq Dirs /\ d \in Below[d]
  BY DEF Below
<1> QED
  BY <1>1, FS_Subset, TreeAssumption DEF TreeAssumption

\* What is below a folder lies in it or is below a folder in it.
LEMMA BelowAChild ==
    \A d, e \in Dirs : e \in Below[d] /\ e # d =>
        \E c \in Dirs \ {Root} : Parent[c] = d /\ e \in Below[c]
<1> SUFFICES ASSUME NEW d \in Dirs
             PROVE  \A e \in Dirs : e \in Below[d] /\ e # d =>
                        \E c \in Dirs \ {Root} : Parent[c] = d /\ e \in Below[c]
  OBVIOUS
<1> DEFINE S == { e \in Dirs : e \in Below[d] /\ e # d =>
                    \E c \in Dirs \ {Root} : Parent[c] = d /\ e \in Below[c] }
<1>1. Root \in S
  BY BelowIs, AboveGrows, TreeAssumption DEF TreeAssumption
<1>2. ASSUME NEW e \in Dirs \ {Root}, Parent[e] \in S PROVE e \in S
  <2> SUFFICES ASSUME e \in Below[d], e # d
               PROVE  \E c \in Dirs \ {Root} : Parent[c] = d /\ e \in Below[c]
    OBVIOUS
  <2>1. Parent[e] \in Dirs /\ Above[e] = {Parent[e]} \cup Above[Parent[e]]
    BY AboveGrows, TreeAssumption DEF TreeAssumption
  <2>2. CASE Parent[e] = d
    BY <2>2, BelowIs
  <2>3. CASE Parent[e] # d
    <3>1. Parent[e] \in Below[d]
      BY <2>1, <2>3, BelowIs
    <3>2. PICK c \in Dirs \ {Root} : Parent[c] = d /\ Parent[e] \in Below[c]
      BY <1>2, <2>3, <3>1
    <3>3. e \in Below[c]
      BY <2>1, <3>2, BelowIs
    <3> QED
      BY <3>2, <3>3
  <2> QED
    BY <2>2, <2>3
<1>3. S \in SUBSET Dirs
  OBVIOUS
<1>4. S = Dirs
  <2> HIDE DEF S
  <2> QED
    BY <1>1, <1>2, <1>3, FromTheRoot
<1> QED
  BY <1>4

LEMMA BelowIsClosed ==
    ASSUME NEW c \in Dirs \ {Root}
    PROVE  Below[c] \subseteq Below[Parent[c]] \ {Parent[c]}
<1>1. Parent[c] \in Dirs /\ Parent[c] \in Above[c]
  BY AboveGrows, TreeAssumption DEF TreeAssumption
<1>2. SUFFICES ASSUME NEW e \in Below[c] PROVE e \in Below[Parent[c]] /\ e # Parent[c]
  OBVIOUS
<1>3. e \in Dirs /\ Parent[c] \in Above[e]
  BY <1>1, <1>2, BelowIs, BelowInDirs, AboveIsClosed
<1> QED
  BY <1>1, <1>3, BelowIs, NotInItself

\* A set of folders that has the one each of its folders lies in has all above it.
LEMMA UpClosed ==
    ASSUME NEW A \in SUBSET Dirs, \A d \in A \ {Root} : Parent[d] \in A
    PROVE  \A d \in A : Above[d] \subseteq A
<1> DEFINE S == { d \in Dirs : d \in A => Above[d] \subseteq A }
<1>1. Root \in S
  BY AboveGrows, TreeAssumption DEF TreeAssumption
<1>2. ASSUME NEW d \in Dirs \ {Root}, Parent[d] \in S PROVE d \in S
  BY <1>2, AboveGrows
<1>3. S \in SUBSET Dirs
  OBVIOUS
<1>4. S = Dirs
  <2> HIDE DEF S
  <2> QED
    BY <1>1, <1>2, <1>3, FromTheRoot
<1> QED
  BY <1>4

-----------------------------------------------------------------------------
\* Sums.  SumFunctionOnSet is a function of the subsets of a set, defined by what is
\* left when one element is taken out (as in DuplicateIndexProofs).
Some(s) == CHOOSE x \in s : TRUE
AddOne(f, g, s) == IF s = {} THEN 0 ELSE f[Some(s)] + g[s \ {Some(s)}]
Sums(f, g, S)   == g = [s \in SUBSET S |-> AddOne(f, g, s)]

LEMMA SomeIsIn == \A s : s # {} => Some(s) \in s
  BY DEF Some

\* The sums of f over the subsets of two sets agree on what is in both.
LEMMA SumsAgree ==
    ASSUME NEW S, IsFiniteSet(S), NEW R, NEW f, NEW g, NEW h, Sums(f, g, S), Sums(f, h, R),
           NEW s \in SUBSET (S \cap R)
    PROVE  g[s] = h[s]
<1> DEFINE apart == { t \in SUBSET (S \cap R) : g[t] # h[t] }
<1> SUFFICES ASSUME apart # {} PROVE FALSE
  OBVIOUS
<1>1. PICK t \in apart : \A u \in apart : u \subseteq t => u = t
  <2>1. apart \in SUBSET (SUBSET S) /\ apart # {}
    OBVIOUS
  <2> HIDE DEF apart
  <2> QED
    BY <2>1, Smallest
<1>2. g[t] = AddOne(f, g, t) /\ h[t] = AddOne(f, h, t)
  BY DEF Sums
<1>3. CASE t = {}
  BY <1>2, <1>3 DEF AddOne
<1>4. CASE t # {}
  <2>1. Some(t) \in t
    BY <1>4, SomeIsIn
  <2>2. g[t \ {Some(t)}] = h[t \ {Some(t)}]
    BY <1>1, <2>1
  <2> QED
    BY <1>2, <1>4, <2>2 DEF AddOne
<1> QED
  BY <1>3, <1>4

\* There are such sums.
LEMMA SumsExist ==
    ASSUME NEW S, IsFiniteSet(S), NEW f
    PROVE  \E g : Sums(f, g, S)
<1> DEFINE none == { s \in SUBSET S : ~ \E g : Sums(f, g, s) }
<1> SUFFICES ASSUME none # {} PROVE FALSE
  OBVIOUS
<1>1. PICK s \in none : \A u \in none : u \subseteq s => u = s
  <2>1. none \in SUBSET (SUBSET S) /\ none # {}
    OBVIOUS
  <2> HIDE DEF none
  <2> QED
    BY <2>1, Smallest
<1> DEFINE Of(u) == CHOOSE g : Sums(f, g, u)
           below == [u \in SUBSET s |-> Of(u)[u]]
           all   == [t \in SUBSET s |-> AddOne(f, below, t)]
<1>2. \A u \in SUBSET s : u # s => Sums(f, Of(u), u)
  BY <1>1
<1>3. \A u \in SUBSET s : IsFiniteSet(u)
  BY FS_Subset
<1> HIDE DEF Of
<1>4. ASSUME NEW t \in SUBSET s, t # s
      PROVE  all[t] = below[t]
  <2>1. Sums(f, Of(t), t) /\ Of(t)[t] = AddOne(f, Of(t), t)
    BY <1>2, <1>4 DEF Sums
  <2>2. CASE t = {}
    BY <2>1, <2>2 DEF AddOne
  <2>3. CASE t # {}
    <3> DEFINE u == t \ {Some(t)}
    <3>1. Some(t) \in t /\ u \in SUBSET s /\ u # s /\ u \in SUBSET t
      BY <2>3, SomeIsIn
    <3>2. Sums(f, Of(u), u)
      BY <1>2, <3>1
    <3>3. Of(t)[u] = Of(u)[u]
      BY <1>3, <2>1, <3>1, <3>2, SumsAgree
    <3> QED
      BY <2>1, <2>3, <3>1, <3>3 DEF AddOne
  <2> QED
    BY <2>2, <2>3
<1>5. \A t \in SUBSET s : AddOne(f, below, t) = AddOne(f, all, t)
  <2> SUFFICES ASSUME NEW t \in SUBSET s, t # {}
               PROVE  below[t \ {Some(t)}] = all[t \ {Some(t)}]
    BY DEF AddOne
  <2>1. Some(t) \in t
    BY SomeIsIn
  <2> QED
    BY <1>4, <2>1
<1>6. Sums(f, all, s)
  <2> HIDE DEF below
  <2> QED
    BY <1>5 DEF Sums
<1> QED
  BY <1>1, <1>6

LEMMA SumIsDefined ==
    ASSUME NEW S, IsFiniteSet(S), NEW f
    PROVE  \E g : Sums(f, g, S) /\ SumFunctionOnSet(f, S) = g[S]
<1>1. SumFunctionOnSet(f, S) = (CHOOSE g : Sums(f, g, S))[S]
  BY DEF SumFunctionOnSet, FoldFunctionOnSet, MapThenFoldSet, Sums, AddOne, Some
<1> QED
  BY <1>1, SumsExist

\* The total of nothing, and of a set without the element that is taken out.
LEMMA SumUnfolds ==
    ASSUME NEW S, IsFiniteSet(S), NEW f
    PROVE  SumFunctionOnSet(f, S) = IF S = {} THEN 0 ELSE f[Some(S)] + SumFunctionOnSet(f, S \ {Some(S)})
<1>1. PICK g : Sums(f, g, S) /\ SumFunctionOnSet(f, S) = g[S]
  BY SumIsDefined
<1>2. SumFunctionOnSet(f, S) = AddOne(f, g, S)
  BY <1>1 DEF Sums
<1>3. CASE S = {}
  BY <1>2, <1>3 DEF AddOne
<1>4. CASE S # {}
  <2> DEFINE R == S \ {Some(S)}
  <2>1. PICK h : Sums(f, h, R) /\ SumFunctionOnSet(f, R) = h[R]
    BY SumIsDefined, FS_Subset
  <2>2. g[R] = h[R]
    BY <1>1, <2>1, SumsAgree
  <2> QED
    BY <1>2, <1>4, <2>1, <2>2 DEF AddOne
<1> QED
  BY <1>3, <1>4

LEMMA SumIsInt ==
    ASSUME NEW S, IsFiniteSet(S), NEW f, \A x \in S : f[x] \in Int
    PROVE  SumFunctionOnSet(f, S) \in Int
<1> DEFINE not == { s \in SUBSET S : SumFunctionOnSet(f, s) \notin Int }
<1> SUFFICES ASSUME not # {} PROVE FALSE
  OBVIOUS
<1>1. PICK s \in not : \A u \in not : u \subseteq s => u = s
  <2>1. not \in SUBSET (SUBSET S) /\ not # {}
    OBVIOUS
  <2> HIDE DEF not
  <2> QED
    BY <2>1, Smallest
<1>2. SumFunctionOnSet(f, s) = IF s = {} THEN 0 ELSE f[Some(s)] + SumFunctionOnSet(f, s \ {Some(s)})
  BY FS_Subset, SumUnfolds
<1>3. CASE s # {}
  <2>1. Some(s) \in s
    BY <1>3, SomeIsIn
  <2>2. SumFunctionOnSet(f, s \ {Some(s)}) \in Int
    BY <1>1, <2>1
  <2> QED
    BY <1>2, <1>3, <2>1, <2>2
<1> QED
  BY <1>2, <1>3

\* It does not matter which element is taken out.
LEMMA SumOfAny ==
    ASSUME NEW S, IsFiniteSet(S), NEW f, \A x \in S : f[x] \in Int, NEW e \in S
    PROVE  SumFunctionOnSet(f, S) = f[e] + SumFunctionOnSet(f, S \ {e})
<1> DEFINE wrong == { s \in SUBSET S : \E x \in s : SumFunctionOnSet(f, s) # f[x] + SumFunctionOnSet(f, s \ {x}) }
<1> SUFFICES ASSUME wrong # {} PROVE FALSE
  OBVIOUS
<1>1. PICK s \in wrong : \A u \in wrong : u \subseteq s => u = s
  <2>1. wrong \in SUBSET (SUBSET S) /\ wrong # {}
    OBVIOUS
  <2> HIDE DEF wrong
  <2> QED
    BY <2>1, Smallest
<1>2. PICK x \in s : SumFunctionOnSet(f, s) # f[x] + SumFunctionOnSet(f, s \ {x})
  BY <1>1
<1> DEFINE y == Some(s)
<1>3. y \in s /\ SumFunctionOnSet(f, s) = f[y] + SumFunctionOnSet(f, s \ {y})
  BY <1>2, SomeIsIn, SumUnfolds, FS_Subset
<1> HIDE DEF y
<1> DEFINE rest == SumFunctionOnSet(f, (s \ {x}) \ {y})
<1>4. CASE x = y
  BY <1>2, <1>3, <1>4
<1>5. CASE x # y
  <2>1. (s \ {y}) \ {x} = (s \ {x}) \ {y}
    OBVIOUS
  <2>2. SumFunctionOnSet(f, s \ {y}) = f[x] + rest
    BY <1>1, <1>2, <1>3, <1>5, <2>1
  <2>3. SumFunctionOnSet(f, s \ {x}) = f[y] + rest
    BY <1>1, <1>2, <1>3, <1>5
  <2>4. rest \in Int
    BY FS_Subset, SumIsInt
  <2>5. f[x] \in Int /\ f[y] \in Int
    BY <1>2, <1>3
  <2> HIDE DEF rest
  <2> QED
    BY <1>2, <1>3, <2>2, <2>3, <2>4, <2>5
<1> QED
  BY <1>4, <1>5

\* Numbers that go one to one have one total.
LEMMA SumsMatch ==
    ASSUME NEW S, IsFiniteSet(S), NEW f, NEW g, NEW b,
           \A x \in S : f[x] = g[b[x]] /\ g[b[x]] \in Int,
           \A x, y \in S : b[x] = b[y] => x = y
    PROVE  SumFunctionOnSet(f, S) = SumFunctionOnSet(g, { b[x] : x \in S })
<1> DEFINE image(s) == { b[x] : x \in s }
           apart == { s \in SUBSET S : SumFunctionOnSet(f, s) # SumFunctionOnSet(g, image(s)) }
<1> SUFFICES ASSUME apart # {} PROVE FALSE
  OBVIOUS
<1>1. PICK s \in apart : \A u \in apart : u \subseteq s => u = s
  <2>1. apart \in SUBSET (SUBSET S) /\ apart # {}
    OBVIOUS
  <2> HIDE DEF apart
  <2> QED
    BY <2>1, Smallest
<1>2. IsFiniteSet(s) /\ IsFiniteSet(image(s))
  <2>1. IsFiniteSet(s)
    BY FS_Subset
  <2> DEFINE h == [x \in s |-> b[x]]
  <2>2. h \in Surjection(s, image(s))
    BY DEF Surjection
  <2> QED
    BY <2>1, <2>2, FS_Surjection
<1>3. CASE s = {}
  <2>1. SumFunctionOnSet(f, s) = 0 /\ image(s) = {}
    BY <1>2, <1>3, SumUnfolds
  <2>2. SumFunctionOnSet(g, {}) = 0
    BY SumUnfolds, FS_EmptySet
  <2> QED
    BY <1>1, <2>1, <2>2
<1>4. CASE s # {}
  <2>1. PICK e \in s : TRUE
    BY <1>4
  <2>2. SumFunctionOnSet(f, s) = f[e] + SumFunctionOnSet(f, s \ {e})
    BY <1>2, SumOfAny
  <2>3. image(s \ {e}) = image(s) \ {b[e]} /\ b[e] \in image(s)
    BY <2>1
  <2>4. SumFunctionOnSet(g, image(s)) = g[b[e]] + SumFunctionOnSet(g, image(s) \ {b[e]})
    <3>1. \A z \in image(s) : g[z] \in Int
      OBVIOUS
    <3> HIDE DEF image
    <3> QED
      BY <1>2, <2>3, <3>1, SumOfAny
  <2>5. SumFunctionOnSet(f, s \ {e}) = SumFunctionOnSet(g, image(s \ {e}))
    BY <1>1, <2>1
  <2> QED
    BY <1>1, <2>1, <2>2, <2>3, <2>4, <2>5
<1> QED
  BY <1>3, <1>4

LEMMA SumOfNone == \A f : SumFunctionOnSet(f, {}) = 0
  BY SumUnfolds, FS_EmptySet

\* The sums of functions that agree agree.
LEMMA SumOfSame ==
    ASSUME NEW S, IsFiniteSet(S), NEW f, NEW g, \A x \in S : f[x] = g[x] /\ f[x] \in Int
    PROVE  SumFunctionOnSet(f, S) = SumFunctionOnSet(g, S)
<1> DEFINE apart == { s \in SUBSET S : SumFunctionOnSet(f, s) # SumFunctionOnSet(g, s) }
<1> SUFFICES ASSUME apart # {} PROVE FALSE
  OBVIOUS
<1>1. PICK s \in apart : \A u \in apart : u \subseteq s => u = s
  <2>1. apart \in SUBSET (SUBSET S) /\ apart # {}
    OBVIOUS
  <2> HIDE DEF apart
  <2> QED
    BY <2>1, Smallest
<1>2. s # {}
  BY <1>1, SumOfNone
<1>3. PICK e \in s : TRUE
  BY <1>2
<1>4. SumFunctionOnSet(f, s \ {e}) = SumFunctionOnSet(g, s \ {e})
  BY <1>1
<1>5. /\ SumFunctionOnSet(f, s) = f[e] + SumFunctionOnSet(f, s \ {e})
      /\ SumFunctionOnSet(g, s) = g[e] + SumFunctionOnSet(g, s \ {e})
  BY <1>1, FS_Subset, SumOfAny
<1> QED
  BY <1>1, <1>4, <1>5

LEMMA SumOfZeros ==
    ASSUME NEW S, IsFiniteSet(S), NEW f, \A x \in S : f[x] = 0
    PROVE  SumFunctionOnSet(f, S) = 0
<1> DEFINE some == { s \in SUBSET S : SumFunctionOnSet(f, s) # 0 }
<1> SUFFICES ASSUME some # {} PROVE FALSE
  OBVIOUS
<1>1. PICK s \in some : \A u \in some : u \subseteq s => u = s
  <2>1. some \in SUBSET (SUBSET S) /\ some # {}
    OBVIOUS
  <2> HIDE DEF some
  <2> QED
    BY <2>1, Smallest
<1>2. PICK e \in s : TRUE
  BY <1>1, SumOfNone
<1>3. SumFunctionOnSet(f, s \ {e}) = 0
  BY <1>1
<1>4. SumFunctionOnSet(f, s) = f[e] + SumFunctionOnSet(f, s \ {e})
  BY <1>1, FS_Subset, SumOfAny
<1> QED
  BY <1>1, <1>3, <1>4

\* The sum over two sets that share nothing.
LEMMA SumOfTwo ==
    ASSUME NEW A, IsFiniteSet(A), NEW B, IsFiniteSet(B), A \cap B = {}, NEW f,
           \A x \in A \cup B : f[x] \in Int
    PROVE  SumFunctionOnSet(f, A \cup B) = SumFunctionOnSet(f, A) + SumFunctionOnSet(f, B)
<1> DEFINE apart == { s \in SUBSET A : SumFunctionOnSet(f, s \cup B) #
                                       SumFunctionOnSet(f, s) + SumFunctionOnSet(f, B) }
<1> SUFFICES ASSUME apart # {} PROVE FALSE
  OBVIOUS
<1>1. PICK s \in apart : \A u \in apart : u \subseteq s => u = s
  <2>1. apart \in SUBSET (SUBSET A) /\ apart # {}
    OBVIOUS
  <2> HIDE DEF apart
  <2> QED
    BY <2>1, Smallest
<1>2. SumFunctionOnSet(f, B) \in Int
  BY SumIsInt
<1>3. CASE s = {}
  BY <1>1, <1>2, <1>3, SumOfNone
<1>4. CASE s # {}
  <2>1. PICK e \in s : TRUE
    BY <1>4
  <2>2. e \notin B /\ (s \cup B) \ {e} = (s \ {e}) \cup B
    BY <2>1
  <2>3. SumFunctionOnSet(f, (s \ {e}) \cup B) =
            SumFunctionOnSet(f, s \ {e}) + SumFunctionOnSet(f, B)
    BY <1>1, <2>1
  <2>4. IsFiniteSet(s) /\ IsFiniteSet(s \cup B) /\ IsFiniteSet(s \ {e})
    BY FS_Subset, FS_Union
  <2>5. SumFunctionOnSet(f, s) = f[e] + SumFunctionOnSet(f, s \ {e})
    BY <2>1, <2>4, SumOfAny
  <2>6. SumFunctionOnSet(f, s \cup B) = f[e] + SumFunctionOnSet(f, (s \cup B) \ {e})
    BY <2>1, <2>4, SumOfAny
  <2>7. SumFunctionOnSet(f, s \ {e}) \in Int /\ f[e] \in Int
    BY <2>1, <2>4, SumIsInt
  <2> QED
    BY <1>1, <1>2, <2>2, <2>3, <2>5, <2>6, <2>7
<1> QED
  BY <1>3, <1>4

\* What changes at one place changes the sum by as much.
LEMMA SumOfChange ==
    ASSUME NEW S, IsFiniteSet(S), NEW f, NEW g, NEW e \in S,
           \A x \in S : f[x] \in Int /\ g[x] \in Int,
           \A x \in S \ {e} : f[x] = g[x]
    PROVE  SumFunctionOnSet(g, S) = SumFunctionOnSet(f, S) + (g[e] - f[e])
<1>1. IsFiniteSet(S \ {e})
  BY FS_Subset
<1>2. SumFunctionOnSet(f, S) = f[e] + SumFunctionOnSet(f, S \ {e})
  BY SumOfAny
<1>3. SumFunctionOnSet(g, S) = g[e] + SumFunctionOnSet(g, S \ {e})
  BY SumOfAny
<1>4. SumFunctionOnSet(f, S \ {e}) = SumFunctionOnSet(g, S \ {e})
  BY <1>1, SumOfSame
<1>5. SumFunctionOnSet(f, S \ {e}) \in Int
  BY <1>1, SumIsInt
<1> QED
  BY <1>2, <1>3, <1>4, <1>5

\* Numbers that are not negative add up to zero only if all of them are.
LEMMA SumOfCounts ==
    ASSUME NEW S, IsFiniteSet(S), NEW f, \A x \in S : f[x] \in Nat
    PROVE  /\ SumFunctionOnSet(f, S) \in Nat
           /\ SumFunctionOnSet(f, S) = 0 <=> \A x \in S : f[x] = 0
<1> DEFINE some == { s \in SUBSET S : SumFunctionOnSet(f, s) \notin Nat }
<1>1. some = {}
  <2> SUFFICES ASSUME some # {} PROVE FALSE
    OBVIOUS
  <2>1. PICK s \in some : \A u \in some : u \subseteq s => u = s
    <3>1. some \in SUBSET (SUBSET S) /\ some # {}
      OBVIOUS
    <3> HIDE DEF some
    <3> QED
      BY <3>1, Smallest
  <2>2. PICK e \in s : TRUE
    <3>1. SumFunctionOnSet(f, {}) \in Nat
      BY SumOfNone
    <3> QED
      BY <2>1, <3>1
  <2>3. SumFunctionOnSet(f, s \ {e}) \in Nat
    BY <2>1
  <2>4. SumFunctionOnSet(f, s) = f[e] + SumFunctionOnSet(f, s \ {e})
    BY <2>1, FS_Subset, SumOfAny
  <2> QED
    BY <2>1, <2>3, <2>4
<1>2. \A s \in SUBSET S : SumFunctionOnSet(f, s) \in Nat
  BY <1>1
<1>3. ASSUME NEW e \in S, SumFunctionOnSet(f, S) = 0 PROVE f[e] = 0
  <2>1. SumFunctionOnSet(f, S) = f[e] + SumFunctionOnSet(f, S \ {e})
    BY SumOfAny
  <2>2. SumFunctionOnSet(f, S \ {e}) \in Nat
    BY <1>2
  <2> QED
    BY <1>3, <2>1, <2>2
<1> QED
  BY <1>2, <1>3, SumOfZeros

-----------------------------------------------------------------------------
\* Types.
Amounts == [size : Int, count : Int]

Doings ==
    [kind : {"none", "replace", "remove", "remove dir", "aggregate"},
     at : {"idle", "write", "sum", "bubble"}, dir : Dirs, file : Versions \cup {Absent},
     delta : Amounts, left : Seq(Dirs), lost : BOOLEAN,
     sums : {<<>>} \cup UNION { [D -> Amounts] : D \in SUBSET Dirs }]

\* What is attached hangs together, and elsewhere there is nothing.
Hanging ==
    /\ attached \in SUBSET Dirs /\ Root \in attached
    /\ \A d \in attached \ {Root} : Parent[d] \in attached
    /\ files \in [Dirs -> Versions \cup {Absent}]
    /\ total \in [Dirs -> Amounts]
    /\ \A d \in Dirs \ attached : files[d] = Absent /\ total[d] = Zero

Typed ==
    /\ Hanging
    /\ op \in [Mutators -> Doings] /\ ops \in 0..MaxOps
    /\ drifted \in BOOLEAN /\ dirty \in BOOLEAN
    /\ pc \in [Queries -> {"idle", "rebuild", "walk", "answer"}]
    /\ lock \in Queries \cup {Free}
    /\ \A q \in Queries : pc[q] = "walk" <=> lock = q

\* The folders an operation has still to tell.
Owes(o) == { o.left[i] : i \in 1..Len(o.left) }

\* What an operation holds at each of its places, A being what is attached.
Works(o, A) ==
    /\ o.at # "bubble" => o.left = <<>>
    /\ o.at = "write" => o.file \in Versions
    /\ o.at = "write" /\ ~o.lost => o.dir \in A
    /\ o.at = "sum" /\ o.kind = "remove dir" => o.dir # Root
    /\ \E x \in {o.dir, Root} \cup Above[o.dir] : o.left = Chain[x]
    /\ ~o.lost => Owes(o) \subseteq A

Base == Typed /\ \A m \in Mutators : Works(op[m], attached)

LEMMA WeightsTyped ==
    \A v \in Versions \cup {Absent} : SizeOf(v) \in Nat /\ CountOf(v) \in {0, 1}
  BY VersionsAssumption DEF VersionsAssumption, SizeOf, CountOf

LEMMA SumTyped ==
    ASSUME files \in [Dirs -> Versions \cup {Absent}], NEW d \in Dirs
    PROVE  Sum(d) \in Amounts
<1> DEFINE f == [e \in Dirs |-> SizeOf(files[e])]
           g == [e \in Dirs |-> CountOf(files[e])]
           D == Below[d] \cap attached
<1>1. IsFiniteSet(D) /\ D \subseteq Dirs
  BY BelowInDirs, FS_Subset
<1>2. \A e \in D : f[e] \in Int /\ g[e] \in Int
  BY <1>1, WeightsTyped
<1>3. SumFunctionOnSet(f, D) \in Int /\ SumFunctionOnSet(g, D) \in Int
  <2> HIDE DEF f, g, D
  <2> QED
    BY <1>1, <1>2, SumIsInt
<1> QED
  BY <1>3 DEF Sum, Amounts

\* A change of place leaves the rest of an operation as it is.
LEMMA Moved ==
    ASSUME NEW o \in Doings, NEW a, NEW l
    PROVE  /\ [o EXCEPT !.at = a].at = a /\ [o EXCEPT !.at = a].left = o.left
           /\ [o EXCEPT !.at = a, !.left = l].at = a /\ [o EXCEPT !.left = l].at = o.at
  BY DEF Doings

LEMMA NoOpTyped == NoOp \in Doings
<1>1. <<>> \in Seq(Dirs)
  BY EmptySeq
<1> QED
  BY <1>1, TreeAssumption DEF NoOp, Doings, Amounts, Zero, TreeAssumption

LEMMA BubbleFromTyped ==
    \A d \in Dirs : \A a : BubbleFrom(d, a) \in Seq(Dirs)
  BY Chains, EmptySeq DEF BubbleFrom

LEMMA TypeInit == Init => Typed
<1> SUFFICES ASSUME Init PROVE Typed
  OBVIOUS
<1>1. files \in [Dirs -> Versions \cup {Absent}] /\ attached = Dirs
  BY FoldersAssumption DEF Init, FoldersAssumption
<1>2. \A d \in Dirs : Sum(d) \in Amounts
  BY <1>1, SumTyped
<1>3. total \in [Dirs -> Amounts]
  BY <1>2 DEF Init
<1>4. Hanging
  BY <1>1, <1>3, TreeAssumption DEF Hanging, TreeAssumption
<1>5. op \in [Mutators -> Doings] /\ ops \in 0..MaxOps
  BY NoOpTyped, FoldersAssumption DEF Init, FoldersAssumption
<1> QED
  BY <1>4, <1>5, FoldersAssumption DEF Init, Typed, FoldersAssumption

LEMMA PlusTyped == \A a, b \in Amounts : Plus(a, b) \in Amounts /\ Minus(a) \in Amounts
  BY DEF Plus, Minus, Amounts

\* A file and a total that change in a folder that is attached.
LEMMA GrowKeeps ==
    ASSUME Hanging, NEW d \in attached, NEW a \in Amounts, Grow(d, a), attached' = attached,
           NEW v \in Versions \cup {Absent}, files' = files \/ files' = [files EXCEPT ![d] = v]
    PROVE  Hanging'
<1>1. d \in Dirs /\ total' = [total EXCEPT ![d] = Plus(total[d], a)]
  BY DEF Hanging, Grow
<1>2. total' \in [Dirs -> Amounts]
  BY <1>1, PlusTyped DEF Hanging
<1>3. files' \in [Dirs -> Versions \cup {Absent}]
  BY DEF Hanging
<1> QED
  BY <1>1, <1>2, <1>3 DEF Hanging

LEMMA OwesChain == \A d \in Dirs : \A o : o.left = Chain[d] => Owes(o) = Above[d]
  BY DEF Owes, Above

LEMMA NothingOwed == \A o : o.left = <<>> => Owes(o) = {}
<1>1. Len(<<>>) = 0
  BY EmptySeq
<1> QED
  BY <1>1 DEF Owes

\* Whoever begins works, and so does who owes nothing.
LEMMA OwingNothingWorks ==
    ASSUME NEW A, NEW o \in Doings, o.left = <<>>, o.at # "write",
           o.at = "sum" /\ o.kind = "remove dir" => o.dir # Root
    PROVE  Works(o, A)
  BY NothingOwed, Chains DEF Works

\* A step of one mutator, that takes nothing from the tree.
LEMMA StepKeeps ==
    ASSUME Base, NEW m \in Mutators, NEW o \in Doings, Becomes(m, o), Works(o, attached'),
           Hanging', attached \subseteq attached', ops' = ops \/ Begins(m),
           drifted' \in BOOLEAN, dirty' \in BOOLEAN, UNCHANGED <<pc, lock>>
    PROVE  Base'
<1>1. op' = [op EXCEPT ![m] = o] /\ op' \in [Mutators -> Doings]
  BY DEF Becomes, Base, Typed
<1>2. ops' \in 0..MaxOps
  BY FoldersAssumption DEF Begins, Base, Typed, FoldersAssumption
<1>3. Typed'
  BY <1>1, <1>2 DEF Base, Typed
<1>4. ASSUME NEW n \in Mutators PROVE Works(op'[n], attached')
  <2>1. CASE n = m
    BY <1>1, <2>1 DEF Base, Typed
  <2>2. CASE n # m
    BY <1>1, <2>2 DEF Base, Works
  <2> QED
    BY <2>1, <2>2
<1> QED
  BY <1>3, <1>4 DEF Base

LEMMA ReplaceFileKeeps ==
    ASSUME Base, NEW m \in Mutators, ReplaceFile(m) PROVE Base'
<1>1. PICK d \in Slots, v \in Arrivals :
          /\ attached' = Ensured(d)
          /\ Becomes(m, [NoOp EXCEPT !.kind = "replace", !.at = "write", !.dir = d, !.file = v])
  BY DEF ReplaceFile
<1>2. d \in Dirs /\ v \in Versions
  BY FoldersAssumption, VersionsAssumption DEF FoldersAssumption, VersionsAssumption
<1> DEFINE o == [NoOp EXCEPT !.kind = "replace", !.at = "write", !.dir = d, !.file = v]
<1>3. o \in Doings /\ o.left = <<>> /\ o.dir = d /\ o.file = v /\ ~o.lost /\ o.at = "write"
  BY <1>2, NoOpTyped DEF Doings, NoOp
<1>4. attached \subseteq attached' /\ attached' \in SUBSET Dirs /\ d \in attached'
  BY <1>1, <1>2, AboveGrows DEF Ensured, Base, Typed, Hanging
<1>5. ASSUME NEW e \in attached' \ {Root} PROVE Parent[e] \in attached'
  <2>1. e \in Dirs /\ Parent[e] \in Above[e]
    BY <1>4, AboveGrows
  <2>2. CASE e \in attached
    BY <1>4, <2>2 DEF Base, Typed, Hanging
  <2>3. CASE e = d \/ e \in Above[d]
    BY <1>1, <1>2, <2>1, <2>3, AboveIsClosed DEF Ensured
  <2> QED
    BY <1>1, <2>2, <2>3 DEF Ensured
<1>6. Hanging'
  BY <1>4, <1>5 DEF ReplaceFile, Base, Typed, Hanging
<1>7. Works(o, attached')
  <2>1. Owes(o) = {} /\ o.left = Chain[Root]
    BY <1>3, NothingOwed, Chains
  <2> HIDE DEF o
  <2> QED
    BY <1>2, <1>3, <1>4, <2>1 DEF Works
<1>8. Begins(m) /\ UNCHANGED <<drifted, dirty, pc, lock>>
  BY DEF ReplaceFile, view
<1>9. drifted' \in BOOLEAN /\ dirty' \in BOOLEAN
  BY <1>8 DEF Base, Typed
<1>10. Becomes(m, o)
  BY <1>1
<1> HIDE DEF o
<1> QED
  BY <1>3, <1>4, <1>6, <1>7, <1>8, <1>9, <1>10, StepKeeps

\* What ReplaceWrite and RemoveFile add to the totals.
LEMMA DeltasTyped ==
    ASSUME NEW v \in Versions \cup {Absent}, NEW w \in Versions \cup {Absent}
    PROVE  /\ [size |-> SizeOf(v) - SizeOf(w), count |-> 1 - CountOf(w)] \in Amounts
           /\ [size |-> SizeOf(v), count |-> 1] \in Amounts
<1>1. SizeOf(v) \in Nat /\ SizeOf(w) \in Nat /\ CountOf(w) \in {0, 1}
  BY WeightsTyped
<1> QED
  BY <1>1 DEF Amounts

\* An operation that begins to bubble from a folder that it knows of.
LEMMA BubblingWorks ==
    ASSUME NEW A, NEW o \in Doings, o.at = "bubble", NEW d \in {o.dir} \cup Above[o.dir],
           NEW a, o.left = BubbleFrom(d, a), ~o.lost => Above[d] \subseteq A
    PROVE  Works(o, A)
<1>1. d \in Dirs
  BY AboveGrows DEF Doings
<1>2. CASE a = Zero
  BY <1>2, NothingOwed, Chains DEF Works, BubbleFrom
<1>3. CASE a # Zero
  <2>1. o.left = Chain[d] /\ Owes(o) = Above[d]
    BY <1>1, <1>3, OwesChain DEF BubbleFrom
  <2> QED
    BY <2>1 DEF Works
<1> QED
  BY <1>2, <1>3

LEMMA AttachedIsUpClosed == Hanging => \A d \in attached : Above[d] \subseteq attached
  BY UpClosed DEF Hanging

LEMMA ReplaceWriteKeeps ==
    ASSUME Base, NEW m \in Mutators, ReplaceWrite(m) PROVE Base'
<1> DEFINE d == op[m].dir
           v == op[m].file
           delta == [size |-> SizeOf(v) - SizeOf(files[d]), count |-> 1 - CountOf(files[d])]
           lone  == [size |-> SizeOf(v), count |-> 1]
           o(a) == [op[m] EXCEPT !.at = "bubble", !.delta = a, !.left = BubbleFrom(d, a)]
<1>1. /\ op[m] \in Doings /\ d \in Dirs /\ v \in Versions /\ files[d] \in Versions \cup {Absent}
      /\ op[m].lost \in BOOLEAN
      /\ ~op[m].lost => d \in attached
  BY DEF Base, Typed, Hanging, Works, ReplaceWrite, Doing, Doings
<1>2. delta \in Amounts /\ lone \in Amounts
  BY <1>1, DeltasTyped
<1>3. \A a \in Amounts : /\ o(a) \in Doings /\ o(a).at = "bubble" /\ o(a).dir = d
                         /\ o(a).left = BubbleFrom(d, a) /\ o(a).lost = op[m].lost
  BY <1>1, BubbleFromTyped DEF Doings
<1>4. \A a \in Amounts : Works(o(a), attached)
  <2>0. \A x \in attached : Above[x] \subseteq attached
    BY AttachedIsUpClosed DEF Base, Typed
  <2>1. ~op[m].lost => Above[d] \subseteq attached
    BY <1>1, <2>0
  <2> HIDE DEF o, d
  <2> QED
    BY <1>3, <2>1, BubblingWorks
<1>5. UNCHANGED <<attached, ops, drifted, dirty, pc, lock>>
  BY DEF ReplaceWrite, view
<1>6. drifted' \in BOOLEAN /\ dirty' \in BOOLEAN
  BY <1>5 DEF Base, Typed
<1>7. CASE op[m].lost
  <2>1. Becomes(m, o(lone)) /\ Hanging'
    BY <1>5, <1>7 DEF ReplaceWrite, Base, Typed, Hanging
  <2> HIDE DEF o, lone
  <2> QED
    BY <1>2, <1>3, <1>4, <1>5, <1>6, <2>1, StepKeeps
<1>8. CASE ~op[m].lost
  <2>1. Becomes(m, o(delta)) /\ files' = [files EXCEPT ![d] = v] /\ Grow(d, delta)
    BY <1>8 DEF ReplaceWrite
  <2> HIDE DEF o, delta, d, v
  <2>2. Hanging'
    <3>1. Hanging /\ d \in attached /\ v \in Versions \cup {Absent} /\ attached' = attached
      BY <1>1, <1>5, <1>8 DEF Base, Typed
    <3> QED
      BY <1>2, <2>1, <3>1, GrowKeeps
  <2> QED
    BY <1>2, <1>3, <1>4, <1>5, <1>6, <2>1, <2>2, StepKeeps
<1> QED
  BY <1>1, <1>7, <1>8

LEMMA RemoveFileKeeps ==
    ASSUME Base, NEW m \in Mutators, RemoveFile(m) PROVE Base'
<1> DEFINE delta(d) == Minus([size |-> SizeOf(files[d]), count |-> 1])
           o(d) == [NoOp EXCEPT !.kind = "remove", !.at = "bubble", !.dir = d,
                                !.delta = delta(d), !.left = BubbleFrom(d, delta(d))]
<1>1. PICK d \in attached :
          /\ Grow(d, delta(d)) /\ Becomes(m, o(d))
          /\ files' = [files EXCEPT ![d] = Absent]
  BY DEF RemoveFile
<1>2. d \in Dirs /\ files[d] \in Versions \cup {Absent} /\ Hanging
  BY DEF Base, Typed, Hanging
<1>3. delta(d) \in Amounts
  BY <1>2, WeightsTyped, PlusTyped DEF Amounts
<1>4. /\ o(d) \in Doings /\ o(d).at = "bubble" /\ o(d).dir = d
      /\ o(d).left = BubbleFrom(d, delta(d))
  <2> HIDE DEF delta
  <2> QED
    BY <1>2, <1>3, NoOpTyped, BubbleFromTyped DEF Doings, NoOp
<1>5. Works(o(d), attached)
  <2>1. Above[d] \subseteq attached
    BY <1>2, AttachedIsUpClosed
  <2> HIDE DEF o, delta
  <2> QED
    BY <1>4, <2>1, BubblingWorks
<1>6. Begins(m) /\ UNCHANGED <<attached, drifted, dirty, pc, lock>>
  BY DEF RemoveFile, view
<1>7. drifted' \in BOOLEAN /\ dirty' \in BOOLEAN
  BY <1>6 DEF Base, Typed
<1> HIDE DEF o, delta
<1>8. Hanging'
  BY <1>1, <1>2, <1>3, <1>6, GrowKeeps
<1> QED
  BY <1>1, <1>4, <1>5, <1>6, <1>7, <1>8, StepKeeps

\* The folder that is told next, and the one after it.
LEMMA LeftIsAChain ==
    ASSUME NEW A, NEW o \in Doings, Works(o, A), o.left # <<>>
    PROVE  \E x \in Dirs \ {Root} :
              /\ x \in {o.dir} \cup Above[o.dir] /\ o.left = Chain[x]
              /\ Head(o.left) = Parent[x] /\ Tail(o.left) = Chain[Parent[x]]
              /\ Parent[x] \in Above[o.dir] /\ Parent[x] \in Dirs
              /\ Owes(o) = {Parent[x]} \cup Above[Parent[x]]
<1>1. PICK x \in {o.dir, Root} \cup Above[o.dir] : o.left = Chain[x]
  BY DEF Works
<1>2. x \in Dirs \ {Root}
  BY <1>1, Chains, AboveGrows, TreeAssumption DEF Doings, TreeAssumption
<1>3. Above[x] = {Parent[x]} \cup Above[Parent[x]] /\ Parent[x] \in Dirs
  BY <1>2, AboveGrows, TreeAssumption DEF TreeAssumption
<1>4. Parent[x] \in Above[o.dir]
  BY <1>1, <1>2, <1>3, AboveIsClosed DEF Doings
<1>5. Head(o.left) = Parent[x] /\ Tail(o.left) = Chain[Parent[x]]
  BY <1>1, <1>2, ChainGrows
<1>6. Owes(o) = Above[x]
  BY <1>1, <1>2, OwesChain
<1> QED
  BY <1>1, <1>2, <1>3, <1>4, <1>5, <1>6

LEMMA BubbleKeeps ==
    ASSUME Base, NEW m \in Mutators, Bubble(m) PROVE Base'
<1> DEFINE o == [op[m] EXCEPT !.left = Tail(@)]
           p == Head(op[m].left)
<1>1. op[m] \in Doings /\ op[m].at = "bubble" /\ op[m].left # <<>> /\ Works(op[m], attached)
  BY DEF Bubble, Base, Typed
<1>2. PICK x \in Dirs \ {Root} :
              /\ x \in {op[m].dir} \cup Above[op[m].dir] /\ op[m].left = Chain[x]
              /\ p = Parent[x] /\ Tail(op[m].left) = Chain[Parent[x]]
              /\ Parent[x] \in Above[op[m].dir] /\ Parent[x] \in Dirs
              /\ Owes(op[m]) = {Parent[x]} \cup Above[Parent[x]]
  <2> HIDE DEF o, p
  <2> QED
    BY <1>1, LeftIsAChain DEF p
<1>3. /\ o \in Doings /\ o.at = "bubble" /\ o.dir = op[m].dir /\ o.lost = op[m].lost
      /\ o.left = Chain[p]
  BY <1>1, <1>2, Chains DEF Doings
<1>4. Works(o, attached)
  <2>1. Owes(o) \subseteq Owes(op[m])
    <3>1. p \in Dirs /\ o.left = Chain[p] /\ Owes(op[m]) = {p} \cup Above[p]
      BY <1>2, <1>3
    <3>2. Owes(o) = { Chain[p][i] : i \in 1..Len(Chain[p]) }
      BY <3>1 DEF Owes
    <3> HIDE DEF o, p
    <3> QED
      BY <3>1, <3>2, OwesChain
  <2> HIDE DEF o, p
  <2> QED
    BY <1>1, <1>2, <1>3, <2>1 DEF Works
<1>5. Becomes(m, o) /\ UNCHANGED <<attached, files, ops, dirty, pc, lock>>
  BY DEF Bubble, view
<1>6. drifted' \in BOOLEAN /\ dirty' \in BOOLEAN
  BY <1>1, <1>5 DEF Bubble, Base, Typed, Doings
<1>7. Hanging'
  <2>0. op[m].delta \in Amounts
    BY <1>1 DEF Doings
  <2>1. CASE p \in attached
    <3>1. Grow(p, op[m].delta) /\ Hanging
      BY <2>1 DEF Bubble, Base, Typed
    <3> HIDE DEF p
    <3> QED
      BY <2>0, <2>1, <3>1, <1>5, GrowKeeps
  <2>2. CASE p \notin attached
    BY <1>5, <2>2 DEF Bubble, Base, Typed, Hanging
  <2> QED
    BY <2>1, <2>2
<1> HIDE DEF o, p
<1> QED
  BY <1>3, <1>4, <1>5, <1>6, <1>7, StepKeeps

LEMMA RemoveDirKeeps ==
    ASSUME Base, NEW m \in Mutators, RemoveDir(m) PROVE Base'
<1> DEFINE o(d) == [NoOp EXCEPT !.kind = "remove dir", !.at = "sum", !.dir = d,
                                !.delta = Minus(Sum(d))]
<1>1. PICK d \in attached \ {Root} : Becomes(m, o(d))
  BY DEF RemoveDir
<1>2. d \in Dirs /\ Minus(Sum(d)) \in Amounts
  BY SumTyped, PlusTyped DEF Base, Typed, Hanging
<1>3. /\ o(d) \in Doings /\ o(d).left = <<>> /\ o(d).dir = d /\ o(d).at = "sum"
  BY <1>2, NoOpTyped DEF Doings, NoOp
<1> HIDE DEF o
<1>4. Works(o(d), attached)
  BY <1>1, <1>3, OwingNothingWorks
<1>5. Begins(m) /\ UNCHANGED <<attached, files, total, drifted, dirty, pc, lock>>
  BY DEF RemoveDir, view, tree
<1>6. drifted' \in BOOLEAN /\ dirty' \in BOOLEAN /\ Hanging'
  BY <1>5 DEF Base, Typed, Hanging
<1> QED
  BY <1>1, <1>3, <1>4, <1>5, <1>6, StepKeeps

LEMMA ResetKeeps ==
    ASSUME Base, NEW m \in Mutators, Becomes(m, NoOp), dirty' \in BOOLEAN,
           UNCHANGED <<tree, ops, drifted, pc, lock>>
    PROVE  Base'
<1>1. NoOp \in Doings /\ Works(NoOp, attached')
  <2>1. NoOp.left = <<>> /\ NoOp.at = "idle"
    BY DEF NoOp
  <2> QED
    BY <2>1, NoOpTyped, OwingNothingWorks
<1>2. drifted' \in BOOLEAN /\ Hanging' /\ attached' = attached
  BY DEF Base, Typed, Hanging, tree
<1> QED
  BY <1>1, <1>2, StepKeeps

LEMMA AggregateKeeps ==
    ASSUME Base, NEW m \in Mutators, Aggregate(m) PROVE Base'
<1> DEFINE sums == [d \in attached |-> Sum(d)]
           o == [NoOp EXCEPT !.kind = "aggregate", !.at = "sum", !.sums = sums]
<1>1. Hanging /\ attached \in SUBSET Dirs
  BY DEF Base, Typed, Hanging
<1>2. \A d \in attached : Sum(d) \in Amounts
  BY <1>1, SumTyped DEF Hanging
<1>3. sums \in [attached -> Amounts]
  BY <1>2
<1>4. o \in Doings /\ o.left = <<>> /\ o.at = "sum" /\ o.kind = "aggregate"
  <2> HIDE DEF sums
  <2> QED
    BY <1>1, <1>3, NoOpTyped DEF Doings, NoOp
<1>5. Becomes(m, o) /\ Begins(m) /\ UNCHANGED <<attached, files, total, drifted, dirty, pc, lock>>
  BY DEF Aggregate, view, tree
<1> HIDE DEF o, sums
<1>6. Works(o, attached)
  BY <1>4, OwingNothingWorks
<1>7. drifted' \in BOOLEAN /\ dirty' \in BOOLEAN /\ Hanging'
  BY <1>5 DEF Base, Typed, Hanging
<1> QED
  BY <1>4, <1>5, <1>6, <1>7, StepKeeps

LEMMA SetTotalsKeeps ==
    ASSUME Base, NEW m \in Mutators, SetTotals(m) PROVE Base'
<1> DEFINE o == [op[m] EXCEPT !.at = "bubble"]
           sums == op[m].sums
<1>1. op[m] \in Doings /\ op[m].at = "sum" /\ op[m].left = <<>> /\ op[m].lost \in BOOLEAN
  BY DEF SetTotals, Doing, Base, Typed, Works, Doings
<1>2. o \in Doings /\ o.left = <<>> /\ o.at = "bubble"
  BY <1>1 DEF Doings
<1>3. \A d \in Dirs \cap DOMAIN sums : sums[d] \in Amounts
  <2>1. sums \in {<<>>} \cup UNION { [D -> Amounts] : D \in SUBSET Dirs }
    BY <1>1 DEF Doings
  <2>2. DOMAIN <<>> = {}
    OBVIOUS
  <2>3. CASE sums = <<>>
    BY <2>2, <2>3
  <2>4. CASE \E D \in SUBSET Dirs : sums \in [D -> Amounts]
    BY <2>4
  <2> QED
    BY <2>1, <2>3, <2>4
<1>4. /\ Becomes(m, o) /\ UNCHANGED <<attached, files, ops, dirty, pc, lock>>
      /\ total' = [d \in Dirs |-> IF d \in attached \cap DOMAIN sums THEN sums[d] ELSE total[d]]
      /\ drifted' \in BOOLEAN
  BY DEF SetTotals, view
<1>5. Hanging'
  BY <1>3, <1>4 DEF Base, Typed, Hanging
<1>6. dirty' \in BOOLEAN
  BY <1>4 DEF Base, Typed
<1> HIDE DEF o, sums
<1>7. Works(o, attached)
  BY <1>2, OwingNothingWorks
<1> QED
  BY <1>2, <1>4, <1>5, <1>6, <1>7, StepKeeps

LEMMA OwesAbove ==
    ASSUME NEW A, NEW o \in Doings, Works(o, A) PROVE Owes(o) \subseteq Above[o.dir]
<1>1. CASE o.left = <<>>
  BY <1>1, NothingOwed
<1>2. CASE o.left # <<>>
  <2>1. PICK x \in Dirs \ {Root} :
              /\ Parent[x] \in Above[o.dir]
              /\ Owes(o) = {Parent[x]} \cup Above[Parent[x]]
    BY <1>2, LeftIsAChain
  <2> QED
    BY <2>1, AboveIsClosed DEF Doings
<1> QED
  BY <1>1, <1>2

\* What is left when a folder is taken out.
LEMMA StillAttached ==
    ASSUME Hanging, NEW d \in Dirs \ {Root}
    PROVE  LET left == attached \ Below[d] IN
              Root \in left /\ \A e \in left \ {Root} : Parent[e] \in left
<1>1. Root \notin Below[d] /\ Root \in Dirs
  BY BelowIs, AboveGrows, TreeAssumption DEF TreeAssumption
<1>2. ASSUME NEW e \in attached \ Below[d], e # Root PROVE Parent[e] \notin Below[d]
  <2>1. e \in Dirs /\ Parent[e] \in Dirs /\ Above[e] = {Parent[e]} \cup Above[Parent[e]]
    BY <1>2, AboveGrows, TreeAssumption DEF Hanging, TreeAssumption
  <2> QED
    BY <1>2, <2>1, BelowIs
<1> QED
  BY <1>1, <1>2 DEF Hanging

LEMMA DetachKeeps ==
    ASSUME Base, NEW m \in Mutators, Detach(m) PROVE Base'
<1> DEFINE d == op[m].dir
           gone == Below[d]
           o == [op[m] EXCEPT !.at = "bubble", !.left = BubbleFrom(Parent[d], op[m].delta)]
<1>1. /\ op[m] \in Doings /\ op[m].at = "sum" /\ d \in Dirs \ {Root} /\ d \in attached
      /\ op[m].delta \in Amounts /\ op[m].lost \in BOOLEAN
  BY DEF Detach, Doing, Base, Typed, Works, Doings
<1>2. /\ attached' = attached \ gone
      /\ files' = [e \in Dirs |-> IF e \in gone THEN Absent ELSE files[e]]
      /\ total' = [e \in Dirs |-> CASE e \in gone       -> Zero
                                    [] e = Parent[d]    -> Plus(total[e], op[m].delta)
                                    [] OTHER            -> total[e]]
      /\ op' = [n \in Mutators |->
                CASE n = m -> o
                  [] n # m /\ ~Idle(n) /\ op[n].dir \in gone -> [op[n] EXCEPT !.lost = TRUE]
                  [] OTHER -> op[n]]
      /\ UNCHANGED <<ops, dirty, pc, lock>>
      /\ drifted' = (drifted \/ op[m].delta # Minus(Sum(d)))
  BY DEF Detach, view
<1>3. Parent[d] \in Dirs /\ Parent[d] \in attached /\ Parent[d] \in Above[d] /\ Parent[d] \notin gone
  <2>1. Parent[d] \in Dirs /\ Parent[d] \in attached /\ Parent[d] \in Above[d]
    BY <1>1, AboveGrows, TreeAssumption DEF Base, Typed, Hanging, TreeAssumption
  <2> QED
    BY <1>1, <2>1, BelowIs, NotInItself, AboveIsClosed
<1>4. Root \in attached' /\ \A e \in attached' \ {Root} : Parent[e] \in attached'
  BY <1>1, <1>2, StillAttached DEF Base, Typed
<1>5. Hanging'
  <2> HIDE DEF d, gone, o
  <2>1. total' \in [Dirs -> Amounts]
    <3>1. Zero \in Amounts /\ total \in [Dirs -> Amounts]
      BY DEF Zero, Amounts, Base, Typed, Hanging
    <3>2. \A e \in Dirs : Plus(total[e], op[m].delta) \in Amounts
      BY <1>1, <3>1, PlusTyped
    <3> QED
      BY <1>2, <3>1, <3>2
  <2>2. files' \in [Dirs -> Versions \cup {Absent}] /\ attached' \in SUBSET Dirs
    BY <1>2 DEF Base, Typed, Hanging
  <2>3. ASSUME NEW e \in Dirs \ attached' PROVE files'[e] = Absent /\ total'[e] = Zero
    <3>1. /\ files'[e] = IF e \in gone THEN Absent ELSE files[e]
          /\ total'[e] = CASE e \in gone       -> Zero
                         [] e = Parent[d]    -> Plus(total[e], op[m].delta)
                         [] OTHER            -> total[e]
      BY <1>2
    <3>2. e \notin gone => e \in Dirs \ attached
      BY <1>2, <2>3
    <3>3. e \notin gone => files[e] = Absent /\ total[e] = Zero /\ e # Parent[d]
      BY <1>3, <3>2 DEF Base, Typed, Hanging
    <3> QED
      BY <1>3, <3>1, <3>3
  <2> QED
    BY <1>4, <2>1, <2>2, <2>3 DEF Hanging
<1>6. /\ o \in Doings /\ o.at = "bubble" /\ o.dir = d
      /\ o.left = BubbleFrom(Parent[d], op[m].delta) /\ Parent[d] \in Above[d]
  BY <1>1, <1>3, BubbleFromTyped DEF Doings
<1>7. Works(o, attached')
  <2>1. Parent[d] \in attached'
    BY <1>2, <1>3
  <2>2. Above[Parent[d]] \subseteq attached'
    BY <1>5, <2>1, UpClosed DEF Hanging
  <2> HIDE DEF o, d, gone
  <2> QED
    BY <1>6, <2>2, BubblingWorks
<1>8. ASSUME NEW n \in Mutators, n # m
      PROVE  op'[n] \in Doings /\ Works(op'[n], attached')
  <2>1. op[n] \in Doings /\ Works(op[n], attached)
    BY DEF Base, Typed
  <2>2. CASE ~Idle(n) /\ op[n].dir \in gone
    <3> DEFINE q == [op[n] EXCEPT !.lost = TRUE]
    <3>1. op'[n] = q /\ q \in Doings
      BY <1>2, <1>8, <2>1, <2>2 DEF Doings
    <3>2. Works(q, attached')
      BY <2>1 DEF Works, Doings
    <3> QED
      BY <3>1, <3>2
  <2>3. CASE Idle(n) \/ op[n].dir \notin gone
    <3>1. op'[n] = op[n]
      BY <1>2, <1>8, <2>3
    <3>2. CASE Idle(n)
      <4>1. op[n].left = <<>> /\ op[n].at = "idle"
        BY <2>1, <3>2 DEF Works, Idle
      <4> QED
        BY <2>1, <3>1, <4>1, OwingNothingWorks
    <3>3. CASE op[n].dir \notin gone
      <4>1. Owes(op[n]) \subseteq Above[op[n].dir] /\ op[n].dir \in Dirs
        BY <2>1, OwesAbove DEF Doings
      <4>2. Above[op[n].dir] \cap gone = {}
        <5>1. SUFFICES ASSUME NEW x \in Above[op[n].dir], x \in gone PROVE FALSE
          OBVIOUS
        <5>2. x \in Dirs /\ (x = d \/ d \in Above[x])
          BY <1>1, <4>1, <5>1, AboveGrows, BelowIs
        <5>3. d \in Above[op[n].dir]
          BY <4>1, <5>1, <5>2, AboveIsClosed
        <5> QED
          BY <1>1, <3>3, <4>1, <5>3, BelowIs
      <4>3. attached' = attached \ gone
        BY <1>2
      <4>4. ~op[n].lost => Owes(op[n]) \subseteq attached'
        BY <2>1, <4>1, <4>2, <4>3 DEF Works
      <4>5. op[n].at = "write" /\ ~op[n].lost => op[n].dir \in attached'
        BY <2>1, <3>3, <4>3 DEF Works
      <4> HIDE DEF d, gone
      <4>6. Works(op[n], attached')
        BY <2>1, <4>4, <4>5 DEF Works
      <4> QED
        BY <2>1, <3>1, <4>6
    <3> QED
      BY <2>3, <3>2, <3>3
  <2> QED
    BY <2>2, <2>3
<1>9. op'[m] = o /\ DOMAIN op' = Mutators
  BY <1>2
<1>10. op' \in [Mutators -> Doings] /\ \A n \in Mutators : Works(op'[n], attached')
  <2> HIDE DEF o, d, gone
  <2>1. \A n \in Mutators : op'[n] \in Doings /\ Works(op'[n], attached')
    BY <1>6, <1>7, <1>8, <1>9
  <2>2. op' = [n \in Mutators |-> op'[n]]
    BY <1>2
  <2> QED
    BY <2>1, <2>2
<1>11. drifted' \in BOOLEAN
  BY <1>2 DEF Base, Typed
<1> QED
  BY <1>2, <1>5, <1>10, <1>11 DEF Base, Typed

\* The requests change nothing that the mutators do.
LEMMA ServeKeeps ==
    ASSUME Base, UNCHANGED <<tree, op, ops, drifted>>, dirty' \in BOOLEAN,
           pc' \in [Queries -> {"idle", "rebuild", "walk", "answer"}],
           lock' \in Queries \cup {Free},
           \A q \in Queries : pc'[q] = "walk" <=> lock' = q
    PROVE  Base'
  BY ZenonT(40) DEF Base, Typed, Hanging, tree, Works

LEMMA QueriesKeep ==
    ASSUME Base, NEW q \in Queries,
           RebuildIfDirty(q) \/ RebuildFolderIndex(q) \/ Serve(q)
    PROVE  Base'
<1>1. /\ dirty \in BOOLEAN /\ pc \in [Queries -> {"idle", "rebuild", "walk", "answer"}]
      /\ lock \in Queries \cup {Free} /\ Free \notin Queries
      /\ \A r \in Queries : pc[r] = "walk" <=> lock = r
  BY FoldersAssumption DEF Base, Typed, FoldersAssumption
<1>2. UNCHANGED <<tree, op, ops, drifted>>
  BY DEF RebuildIfDirty, RebuildFolderIndex, Serve, RebuildBegins, Walk, RebuildEnds,
     Answer
<1>3. CASE RebuildIfDirty(q)
  BY <1>1, <1>2, <1>3, ServeKeeps DEF RebuildIfDirty
<1>4. CASE RebuildFolderIndex(q)
  BY <1>1, <1>2, <1>4, ServeKeeps DEF RebuildFolderIndex
<1>5. CASE RebuildBegins(q)
  BY <1>1, <1>2, <1>5, ServeKeeps DEF RebuildBegins
<1>6. CASE Walk(q)
  BY <1>1, <1>2, <1>6, ServeKeeps DEF Walk
<1>7. CASE RebuildEnds(q)
  BY <1>1, <1>2, <1>7, ServeKeeps DEF RebuildEnds
<1>8. CASE Answer(q)
  BY <1>1, <1>2, <1>8, ServeKeeps DEF Answer
<1> QED
  BY <1>3, <1>4, <1>5, <1>6, <1>7, <1>8 DEF Serve

\* The types hold.
LEMMA BaseInit == Init => Base
<1> SUFFICES ASSUME Init PROVE Base
  OBVIOUS
<1>1. \A m \in Mutators : op[m] = NoOp
  BY DEF Init
<1>2. NoOp.left = <<>> /\ NoOp.at = "idle"
  BY DEF NoOp
<1> QED
  BY <1>1, <1>2, TypeInit, NoOpTyped, OwingNothingWorks DEF Base

LEMMA BaseNext == Base /\ [Next]_vars => Base'
<1> SUFFICES ASSUME Base, [Next]_vars PROVE Base'
  OBVIOUS
<1>1. CASE UNCHANGED vars
  BY <1>1 DEF Base, Typed, Hanging, Works, vars, tree, view
<1>2. ASSUME NEW m \in Mutators, Change(m) PROVE Base'
  BY <1>2, ReplaceFileKeeps, RemoveFileKeeps, RemoveDirKeeps, AggregateKeeps DEF Change
<1>3. ASSUME NEW m \in Mutators, Proceed(m) PROVE Base'
  <2>1. CASE DetachNothing(m)
    BY <2>1, ResetKeeps DEF DetachNothing, view, Base, Typed
  <2>2. CASE MarkDirty(m)
    BY <2>2, ResetKeeps DEF MarkDirty
  <2> QED
    BY <1>3, <2>1, <2>2, ReplaceWriteKeeps, BubbleKeeps, DetachKeeps, SetTotalsKeeps
    DEF Proceed
<1> QED
  BY <1>1, <1>2, <1>3, QueriesKeep DEF Next

LEMMA BaseIsTyped == Base => TypeOK
  BY DEF Base, Typed, Hanging, TypeOK, Doings, Amounts

\* The types of the tree, of the operations on it and of the requests: what is
\* attached hangs together up to the root (EnsureDirNode, RemoveDir), and elsewhere
\* there is nothing.
THEOREM TypeCorrect == Spec => []TypeOK
<1>1. Spec => []Base
  BY BaseInit, BaseNext, PTL DEF Spec
<1> QED
  BY <1>1, BaseIsTyped, PTL

-----------------------------------------------------------------------------
\* The balance of the totals: in every folder that is attached, the total and what
\* the operations under way have still to add to it make the sum of its files.
\* An operation that lost its folder does not count, as long as it tells no one.
Measures == {"size", "count"}   \* of a total

Due(o, k, p) == IF p \in Owes(o) THEN o.delta[k] ELSE 0
Owed(k, p)   == [m \in Mutators |-> Due(op[m], k, p)]
Astray       == \E m \in Mutators : op[m].lost /\ op[m].left # <<>>

Even(k, p) == total[p][k] + SumFunctionOnSet(Owed(k, p), Mutators) = Sum(p)[k]

Balanced == ~drifted /\ ~Astray => \A p \in attached, k \in Measures : Even(k, p)

Weight(k) == [e \in Dirs |-> IF k = "size" THEN SizeOf(files[e]) ELSE CountOf(files[e])]

LEMMA MeasuresOf ==
    ASSUME NEW a \in Amounts, NEW b \in Amounts, NEW k \in Measures
    PROVE  /\ a[k] \in Int /\ Plus(a, b)[k] = a[k] + b[k]
           /\ Zero[k] = 0 /\ Minus(a)[k] = -a[k]
  BY DEF Measures, Amounts, Plus, Zero, Minus

LEMMA SumIs ==
    \A d : \A k \in Measures : Sum(d)[k] = SumFunctionOnSet(Weight(k), Below[d] \cap attached)
<1> TAKE d
<1>1. Sum(d)["size"] = SumFunctionOnSet(Weight("size"), Below[d] \cap attached)
  BY DEF Sum, Weight
<1>2. Sum(d)["count"] = SumFunctionOnSet(Weight("count"), Below[d] \cap attached)
  BY DEF Sum, Weight
<1> QED
  BY <1>1, <1>2 DEF Measures

LEMMA SumsTyped == Base => \A d \in Dirs : Sum(d) \in Amounts
  BY SumTyped DEF Base, Typed, Hanging

LEMMA SumsTypedNext == Base' => \A d \in Dirs : Sum(d)' \in Amounts
<1>1. (Base => \A d \in Dirs : Sum(d) \in Amounts)'
  BY SumsTyped, PTL
<1> QED
  BY <1>1

LEMMA WeightTyped ==
    ASSUME Hanging, NEW k \in Measures
    PROVE  /\ \A e \in Dirs : Weight(k)[e] \in Int
           /\ \A e \in Dirs \ attached : Weight(k)[e] = 0
  BY WeightsTyped DEF Hanging, Weight, SizeOf, CountOf

LEMMA UnderFinite ==
    \A d \in Dirs : \A A : IsFiniteSet(Below[d] \cap A) /\ Below[d] \cap A \subseteq Dirs
  BY BelowInDirs, FS_Subset

LEMMA DueTyped ==
    \A o \in Doings : \A k \in Measures : \A p : Due(o, k, p) \in Int
<1> TAKE o \in Doings
<1> TAKE k \in Measures
<1>1. o.delta \in Amounts
  BY DEF Doings
<1>2. o.delta[k] \in Int
  BY <1>1, MeasuresOf
<1> QED
  BY <1>2 DEF Due

LEMMA NothingDue ==
    ASSUME NEW o, o.left = <<>> PROVE \A k, p : Due(o, k, p) = 0
  BY NothingOwed DEF Due

\* When one mutator moves, what is owed changes by what it owes.
LEMMA OwedMoves ==
    ASSUME Base, Base', NEW m \in Mutators, NEW k \in Measures, NEW p,
           \A n \in Mutators \ {m} : Due(op'[n], k, p) = Due(op[n], k, p)
    PROVE  /\ SumFunctionOnSet(Owed(k, p)', Mutators) =
                 SumFunctionOnSet(Owed(k, p), Mutators) + (Due(op'[m], k, p) - Due(op[m], k, p))
           /\ SumFunctionOnSet(Owed(k, p), Mutators) \in Int
<1> DEFINE f == Owed(k, p)
           g == Owed(k, p)'
<1>1. \A n \in Mutators : op[n] \in Doings /\ op'[n] \in Doings
  BY DEF Base, Typed
<1>2. \A n \in Mutators : f[n] = Due(op[n], k, p) /\ g[n] = Due(op'[n], k, p)
  BY DEF Owed, Due, Owes
<1>3. \A n \in Mutators : f[n] \in Int /\ g[n] \in Int
  BY <1>1, <1>2, DueTyped
<1>4. IsFiniteSet(Mutators)
  BY FoldersAssumption DEF FoldersAssumption
<1>5. \A n \in Mutators \ {m} : f[n] = g[n]
  BY <1>2
<1>6. f[m] = Due(op[m], k, p) /\ g[m] = Due(op'[m], k, p)
  BY <1>2
<1> HIDE DEF f, g
<1>7. SumFunctionOnSet(g, Mutators) = SumFunctionOnSet(f, Mutators) + (g[m] - f[m])
  BY <1>3, <1>4, <1>5, SumOfChange
<1>8. SumFunctionOnSet(f, Mutators) \in Int
  BY <1>3, <1>4, SumIsInt
<1> QED
  BY <1>6, <1>7, <1>8 DEF f, g

LEMMA EvenMoves ==
    ASSUME Base, Base', NEW m \in Mutators, NEW k \in Measures, NEW p \in Dirs,
           \A n \in Mutators \ {m} : Due(op'[n], k, p) = Due(op[n], k, p),
           Even(k, p),
           total'[p][k] + Due(op'[m], k, p) - (total[p][k] + Due(op[m], k, p)) = Sum(p)'[k] - Sum(p)[k]
    PROVE  Even(k, p)'
<1>1. total[p][k] \in Int /\ total'[p][k] \in Int
  BY MeasuresOf DEF Base, Typed, Hanging
<1>2. Sum(p)[k] \in Int
  BY SumTyped, MeasuresOf DEF Base, Typed, Hanging
<1>3. Sum(p)'[k] \in Int
  BY SumsTypedNext, MeasuresOf
<1>4. Due(op[m], k, p) \in Int /\ Due(op'[m], k, p) \in Int
  BY DueTyped DEF Base, Typed
<1> DEFINE s == SumFunctionOnSet(Owed(k, p), Mutators)
           t == SumFunctionOnSet(Owed(k, p)', Mutators)
<1>5. t = s + (Due(op'[m], k, p) - Due(op[m], k, p)) /\ s \in Int
  BY OwedMoves
<1>6. total[p][k] + s = Sum(p)[k]
  BY DEF Even
<1>7. total'[p][k] + t = Sum(p)'[k]
  <2> HIDE DEF s, t
  <2> QED
    BY <1>1, <1>2, <1>3, <1>4, <1>5, <1>6
<1> QED
  BY <1>7 DEF Even

LEMMA SumIsNext ==
    \A d : \A k \in Measures : Sum(d)'[k] = SumFunctionOnSet(Weight(k)', Below[d] \cap attached')
<1>1. (\A d : \A k \in Measures : Sum(d)[k] = SumFunctionOnSet(Weight(k), Below[d] \cap attached))'
  BY SumIs, PTL
<1> QED
  BY <1>1

LEMMA WeightTypedNext ==
    Base' => \A k \in Measures : \A e \in Dirs : Weight(k)'[e] \in Int
<1>1. Base => \A k \in Measures : \A e \in Dirs : Weight(k)[e] \in Int
  BY WeightTyped DEF Base, Typed
<1>2. (Base => \A k \in Measures : \A e \in Dirs : Weight(k)[e] \in Int)'
  BY <1>1, PTL
<1> QED
  BY <1>2

LEMMA SumsStay ==
    ASSUME UNCHANGED <<attached, files>> PROVE \A d : Sum(d)' = Sum(d)
  BY DEF Sum

LEMMA OneMoves ==
    ASSUME Base, NEW m \in Mutators, NEW o, Becomes(m, o)
    PROVE  op'[m] = o /\ \A n \in Mutators \ {m} : op'[n] = op[n]
  BY DEF Becomes, Base, Typed

LEMMA AstrayMoves ==
    ASSUME Base, NEW m \in Mutators, NEW o, Becomes(m, o), ~Astray',
           op[m].left = <<>> \/ ~op[m].lost
    PROVE  ~Astray
<1>1. \A n \in Mutators \ {m} : op'[n] = op[n]
  BY OneMoves
<1> QED
  BY <1>1 DEF Astray

\* A mutator that had nothing to add and has nothing to add.
LEMMA NothingMoves ==
    ASSUME Base, Base', Balanced, NEW m \in Mutators, NEW o, Becomes(m, o),
           op[m].left = <<>>, o.left = <<>>, UNCHANGED <<tree, drifted>>
    PROVE  Balanced'
<1> SUFFICES ASSUME ~drifted', ~Astray', NEW p \in attached', NEW k \in Measures
             PROVE  Even(k, p)'
  BY DEF Balanced
<1>1. p \in attached /\ p \in Dirs /\ total' = total /\ UNCHANGED <<attached, files>>
  BY DEF tree, Base, Typed, Hanging
<1>2. ~Astray /\ ~drifted
  BY AstrayMoves
<1>3. Even(k, p)
  BY <1>1, <1>2 DEF Balanced
<1>4. op'[m] = o /\ \A n \in Mutators \ {m} : Due(op'[n], k, p) = Due(op[n], k, p)
  BY OneMoves
<1>5. Due(op[m], k, p) = 0 /\ Due(op'[m], k, p) = 0
  BY <1>4, NothingDue
<1>6. Sum(p)' = Sum(p)
  BY <1>1, SumsStay
<1>7. total[p][k] \in Int /\ Sum(p)[k] \in Int
  BY <1>1, SumsTyped, MeasuresOf DEF Base, Typed, Hanging
<1>8. total'[p][k] + Due(op'[m], k, p) - (total[p][k] + Due(op[m], k, p)) = Sum(p)'[k] - Sum(p)[k]
  BY <1>1, <1>5, <1>6, <1>7
<1> QED
  BY <1>1, <1>3, <1>4, <1>8, EvenMoves

\* A file that changes in a folder, the ancestors' share left to add.
LEMMA FileChanges ==
    ASSUME Base, Base', Balanced, NEW m \in Mutators, NEW o, Becomes(m, o),
           NEW d \in attached, NEW v \in Versions \cup {Absent}, NEW a \in Amounts,
           a.size = SizeOf(v) - SizeOf(files[d]), a.count = CountOf(v) - CountOf(files[d]),
           files' = [files EXCEPT ![d] = v], Grow(d, a),
           op[m].left = <<>>, o.left = BubbleFrom(d, a), o.delta = a,
           UNCHANGED <<attached, drifted>>
    PROVE  Balanced'
<1> SUFFICES ASSUME ~drifted', ~Astray', NEW p \in attached', NEW k \in Measures
             PROVE  Even(k, p)'
  BY DEF Balanced
<1>1. p \in attached /\ p \in Dirs /\ d \in Dirs
  BY DEF Base, Typed, Hanging
<1>2. Even(k, p)
  <2>1. ~Astray /\ ~drifted
    BY AstrayMoves
  <2> QED
    BY <1>1, <2>1 DEF Balanced
<1>3. op'[m] = o /\ \A n \in Mutators \ {m} : Due(op'[n], k, p) = Due(op[n], k, p)
  BY OneMoves
<1>4. Due(op[m], k, p) = 0
  BY NothingDue
<1>5. Due(o, k, p) = IF p \in Above[d] THEN a[k] ELSE 0
  <2>1. CASE a = Zero
    <3>1. o.left = <<>>
      BY <2>1 DEF BubbleFrom
    <3>2. Due(o, k, p) = 0
      BY <3>1, NothingDue
    <3>3. Zero[k] = 0
      BY MeasuresOf
    <3> QED
      BY <2>1, <3>2, <3>3
  <2>2. CASE a # Zero
    <3>1. Owes(o) = Above[d]
      BY <1>1, <2>2, OwesChain DEF BubbleFrom
    <3> QED
      BY <3>1 DEF Due
  <2> QED
    BY <2>1, <2>2
<1>6. total'[p][k] = total[p][k] + IF p = d THEN a[k] ELSE 0
  <2>1. total \in [Dirs -> Amounts] /\ total' = [total EXCEPT ![d] = Plus(total[d], a)]
    BY DEF Grow, Base, Typed, Hanging
  <2>2. total[p][k] \in Int /\ Plus(total[d], a)[k] = total[d][k] + a[k]
    BY <1>1, <2>1, MeasuresOf
  <2> QED
    BY <1>1, <2>1, <2>2
<1> DEFINE D == Below[p] \cap attached
<1>7. Sum(p)[k] = SumFunctionOnSet(Weight(k), D) /\ Sum(p)'[k] = SumFunctionOnSet(Weight(k)', D)
  BY SumIs, SumIsNext
<1>8. IsFiniteSet(D) /\ D \subseteq Dirs
  BY <1>1, UnderFinite
<1>9. /\ \A e \in D : Weight(k)[e] \in Int /\ Weight(k)'[e] \in Int
      /\ \A e \in D \ {d} : Weight(k)'[e] = Weight(k)[e]
      /\ Weight(k)'[d] = Weight(k)[d] + a[k]
  <2>1. \A e \in D : Weight(k)[e] \in Int /\ Weight(k)'[e] \in Int
    BY <1>8, WeightTyped, WeightTypedNext DEF Base, Typed
  <2>2. \A e \in Dirs \ {d} : Weight(k)'[e] = Weight(k)[e]
    BY DEF Weight
  <2>3. files'[d] = v
    BY <1>1 DEF Base, Typed, Hanging
  <2>4. /\ SizeOf(v) \in Int /\ SizeOf(files[d]) \in Int
        /\ CountOf(v) \in Int /\ CountOf(files[d]) \in Int
    BY <1>1, WeightsTyped DEF Base, Typed, Hanging
  <2>5. Weight("size")'[d] = Weight("size")[d] + a["size"]
    BY <1>1, <2>3, <2>4 DEF Weight
  <2>6. Weight("count")'[d] = Weight("count")[d] + a["count"]
    BY <1>1, <2>3, <2>4 DEF Weight
  <2>7. Weight(k)'[d] = Weight(k)[d] + a[k]
    <3>1. CASE k = "size"
      BY <2>5, <3>1
    <3>2. CASE k = "count"
      BY <2>6, <3>2
    <3> QED
      BY <3>1, <3>2 DEF Measures
  <2> QED
    BY <1>8, <2>1, <2>2, <2>7
<1>10. a[k] \in Int /\ total[p][k] \in Int /\ Sum(p)[k] \in Int
  BY <1>1, SumsTyped, MeasuresOf DEF Base, Typed, Hanging
<1>11. Sum(p)'[k] = Sum(p)[k] + IF d \in Below[p] THEN a[k] ELSE 0
  <2> DEFINE f == Weight(k)
             g == Weight(k)'
  <2>0. /\ Sum(p)[k] = SumFunctionOnSet(f, D) /\ Sum(p)'[k] = SumFunctionOnSet(g, D)
        /\ \A e \in D : f[e] \in Int /\ g[e] \in Int
        /\ \A e \in D \ {d} : g[e] = f[e]
        /\ g[d] = f[d] + a[k]
    BY <1>7, <1>9
  <2> HIDE DEF f, g
  <2>1. CASE d \in Below[p]
    <3>1. d \in D
      BY <2>1
    <3> HIDE DEF D
    <3>2. SumFunctionOnSet(g, D) = SumFunctionOnSet(f, D) + (g[d] - f[d])
      BY <1>8, <2>0, <3>1, SumOfChange
    <3> QED
      BY <1>10, <2>0, <2>1, <3>1, <3>2
  <2>2. CASE d \notin Below[p]
    <3>1. D \ {d} = D
      BY <2>2
    <3> HIDE DEF D
    <3>2. SumFunctionOnSet(f, D) = SumFunctionOnSet(g, D)
      BY <1>8, <2>0, <3>1, SumOfSame
    <3> QED
      BY <1>10, <2>0, <2>2, <3>2
  <2> QED
    BY <2>1, <2>2
<1>12. /\ d \in Below[p] <=> p = d \/ p \in Above[d]
       /\ d \notin Above[d]
  BY <1>1, BelowIs, NotInItself
<1>13. total'[p][k] + Due(op'[m], k, p) - (total[p][k] + Due(op[m], k, p)) = Sum(p)'[k] - Sum(p)[k]
  BY <1>3, <1>4, <1>5, <1>6, <1>10, <1>11, <1>12
<1> QED
  BY <1>1, <1>2, <1>3, <1>13, EvenMoves

LEMMA ReplaceWriteBalances ==
    ASSUME Base, Base', Balanced, NEW m \in Mutators, ReplaceWrite(m) PROVE Balanced'
<1> DEFINE d == op[m].dir
           v == op[m].file
           delta == [size |-> SizeOf(v) - SizeOf(files[d]), count |-> 1 - CountOf(files[d])]
           lone  == [size |-> SizeOf(v), count |-> 1]
           o(a) == [op[m] EXCEPT !.at = "bubble", !.delta = a, !.left = BubbleFrom(d, a)]
<1>1. /\ op[m] \in Doings /\ v \in Versions /\ op[m].left = <<>> /\ UNCHANGED <<attached, drifted>>
      /\ op[m].lost \in BOOLEAN /\ files[d] \in Versions \cup {Absent}
  BY DEF Base, Typed, Hanging, Works, ReplaceWrite, Doing, Doings
<1>2. \A a : o(a).left = BubbleFrom(d, a) /\ o(a).delta = a /\ o(a).lost = op[m].lost
  BY <1>1 DEF Doings
<1>3. CASE op[m].lost
  <2>1. Becomes(m, o(lone)) /\ UNCHANGED <<tree, drifted>>
    BY <1>1, <1>3 DEF ReplaceWrite, tree
  <2>2. o(lone).left = BubbleFrom(d, lone) /\ o(lone).lost
    BY <1>2, <1>3
  <2> HIDE DEF o, d, lone
  <2>3. CASE o(lone).left = <<>>
    BY <1>1, <2>1, <2>3, NothingMoves
  <2>4. CASE o(lone).left # <<>>
    <3>1. op'[m] = o(lone)
      BY <2>1, OneMoves
    <3>2. Astray'
      BY <2>2, <2>4, <3>1 DEF Astray
    <3> QED
      BY <3>2 DEF Balanced
  <2> QED
    BY <2>3, <2>4
<1>4. CASE ~op[m].lost
  <2>1. /\ Becomes(m, o(delta)) /\ files' = [files EXCEPT ![d] = v] /\ Grow(d, delta)
        /\ d \in attached
    BY <1>4 DEF ReplaceWrite, Doing, Base, Works
  <2>2. delta \in Amounts /\ v \in Versions \cup {Absent}
    BY <1>1, DeltasTyped
  <2>3. CountOf(v) = 1
    BY <1>1, VersionsAssumption DEF CountOf, VersionsAssumption
  <2>4. delta.size = SizeOf(v) - SizeOf(files[d]) /\ delta.count = CountOf(v) - CountOf(files[d])
    BY <2>3
  <2>5. o(delta).left = BubbleFrom(d, delta) /\ o(delta).delta = delta
    BY <1>2
  <2> HIDE DEF o, d, v, delta
  <2> QED
    BY <1>1, <2>1, <2>2, <2>4, <2>5, FileChanges
<1> QED
  BY <1>1, <1>3, <1>4

LEMMA IdleOwesNothing ==
    ASSUME Base, NEW m \in Mutators, Begins(m) PROVE op[m].left = <<>>
  BY DEF Base, Works, Begins, Idle

LEMMA RemoveFileBalances ==
    ASSUME Base, Base', Balanced, NEW m \in Mutators, RemoveFile(m) PROVE Balanced'
<1> DEFINE delta(d) == Minus([size |-> SizeOf(files[d]), count |-> 1])
           o(d) == [NoOp EXCEPT !.kind = "remove", !.at = "bubble", !.dir = d,
                                !.delta = delta(d), !.left = BubbleFrom(d, delta(d))]
<1>1. PICK d \in attached :
          /\ files[d] # Absent
          /\ Grow(d, delta(d)) /\ Becomes(m, o(d))
          /\ files' = [files EXCEPT ![d] = Absent]
  BY DEF RemoveFile
<1>2. d \in Dirs /\ files[d] \in Versions /\ SizeOf(files[d]) \in Int /\ CountOf(files[d]) = 1
  BY <1>1, WeightsTyped DEF Base, Typed, Hanging, CountOf
<1>3. /\ delta(d) \in Amounts /\ delta(d).size = -SizeOf(files[d]) /\ delta(d).count = -1
      /\ SizeOf(Absent) = 0 /\ CountOf(Absent) = 0
  BY <1>2 DEF Minus, Amounts, SizeOf, CountOf
<1>4. /\ delta(d).size = SizeOf(Absent) - SizeOf(files[d])
      /\ delta(d).count = CountOf(Absent) - CountOf(files[d])
  <2> HIDE DEF delta
  <2> QED
    BY <1>2, <1>3
<1>5. o(d).left = BubbleFrom(d, delta(d)) /\ o(d).delta = delta(d)
  BY DEF NoOp
<1>6. op[m].left = <<>> /\ UNCHANGED <<attached, drifted>> /\ Absent \in Versions \cup {Absent}
  BY IdleOwesNothing DEF RemoveFile
<1> HIDE DEF o, delta
<1> QED
  BY <1>1, <1>3, <1>4, <1>5, <1>6, FileChanges

LEMMA BubbleBalances ==
    ASSUME Base, Base', Balanced, NEW m \in Mutators, Bubble(m) PROVE Balanced'
<1> SUFFICES ASSUME ~drifted', ~Astray', NEW p \in attached', NEW k \in Measures
             PROVE  Even(k, p)'
  BY DEF Balanced
<1> DEFINE o == [op[m] EXCEPT !.left = Tail(@)]
           next == Head(op[m].left)
           a == op[m].delta
<1>1. op[m] \in Doings /\ op[m].left # <<>> /\ Works(op[m], attached) /\ a \in Amounts
  BY DEF Bubble, Base, Typed, Doings
<1>2. /\ Becomes(m, o) /\ UNCHANGED <<attached, files>>
      /\ next \in attached => total' = [total EXCEPT ![next] = Plus(total[next], a)]
      /\ next \notin attached => total' = total
      /\ drifted' = (drifted \/ (next \in attached /\ op[m].lost))
  BY DEF Bubble, Grow
<1>3. /\ next \in Dirs /\ Tail(op[m].left) = Chain[next]
      /\ Owes(op[m]) = {next} \cup Above[next] /\ next \notin Above[next]
  <2>1. PICK x \in Dirs \ {Root} :
              /\ Head(op[m].left) = Parent[x] /\ Tail(op[m].left) = Chain[Parent[x]]
              /\ Parent[x] \in Dirs
              /\ Owes(op[m]) = {Parent[x]} \cup Above[Parent[x]]
    BY <1>1, LeftIsAChain
  <2> QED
    BY <2>1, NotInItself
<1>4. o.left = Chain[next] /\ Owes(o) = Above[next] /\ o.delta = a /\ o.lost = op[m].lost
  <2>1. o.left = Chain[next] /\ o.delta = a /\ o.lost = op[m].lost
    BY <1>1, <1>3 DEF Doings
  <2> HIDE DEF o, next
  <2> QED
    BY <1>3, <2>1, OwesChain
<1>5. op'[m] = o /\ \A n \in Mutators \ {m} : op'[n] = op[n]
  <2> HIDE DEF o
  <2> QED
    BY <1>2, OneMoves
<1> HIDE DEF o, next
<1>6. ~op[m].lost
  <2> SUFFICES ASSUME op[m].lost PROVE FALSE
    OBVIOUS
  <2>1. next \notin attached
    BY <1>2
  <2>2. next # Root
    BY <2>1 DEF Base, Typed, Hanging
  <2>3. o.left # <<>>
    BY <1>3, <1>4, <2>2, ChainGrows
  <2> QED
    BY <1>4, <1>5, <2>3 DEF Astray
<1>7. next \in attached
  BY <1>1, <1>3, <1>6 DEF Works
<1>8. p \in attached /\ p \in Dirs /\ Even(k, p)
  <2>1. ~Astray
    BY <1>2, <1>6, AstrayMoves
  <2> QED
    BY <1>2, <2>1 DEF Balanced, Base, Typed, Hanging
<1>9. total'[p][k] = total[p][k] + IF p = next THEN a[k] ELSE 0
  <2>1. total \in [Dirs -> Amounts] /\ total' = [total EXCEPT ![next] = Plus(total[next], a)]
    BY <1>2, <1>7 DEF Base, Typed, Hanging
  <2>2. total[p][k] \in Int /\ Plus(total[next], a)[k] = total[next][k] + a[k]
    BY <1>1, <1>3, <1>8, <2>1, MeasuresOf
  <2> QED
    BY <1>8, <2>1, <2>2
<1>10. /\ Due(op[m], k, p) = IF p = next \/ p \in Above[next] THEN a[k] ELSE 0
       /\ Due(op'[m], k, p) = IF p \in Above[next] THEN a[k] ELSE 0
  BY <1>3, <1>4, <1>5 DEF Due
<1>11. Sum(p)' = Sum(p)
  BY <1>2, SumsStay
<1>12. a[k] \in Int /\ total[p][k] \in Int /\ Sum(p)[k] \in Int
  BY <1>1, <1>8, SumsTyped, MeasuresOf DEF Base, Typed, Hanging
<1>13. total'[p][k] + Due(op'[m], k, p) - (total[p][k] + Due(op[m], k, p)) = Sum(p)'[k] - Sum(p)[k]
  BY <1>3, <1>9, <1>10, <1>11, <1>12
<1>14. \A n \in Mutators \ {m} : Due(op'[n], k, p) = Due(op[n], k, p)
  BY <1>5
<1> QED
  BY <1>8, <1>13, <1>14, EvenMoves

\* A folder that is made, with those above it, has nothing below it.
LEMMA ReplaceFileBalances ==
    ASSUME Base, Base', Balanced, NEW m \in Mutators, ReplaceFile(m) PROVE Balanced'
<1> SUFFICES ASSUME ~drifted', ~Astray', NEW p \in attached', NEW k \in Measures
             PROVE  Even(k, p)'
  BY DEF Balanced
<1>1. PICK d \in Slots, v \in Arrivals :
          /\ attached' = Ensured(d)
          /\ Becomes(m, [NoOp EXCEPT !.kind = "replace", !.at = "write", !.dir = d, !.file = v])
  BY DEF ReplaceFile
<1> DEFINE o == [NoOp EXCEPT !.kind = "replace", !.at = "write", !.dir = d, !.file = v]
<1>2. Becomes(m, o) /\ o.left = <<>>
  BY <1>1 DEF NoOp
<1> HIDE DEF o
<1>3. op[m].left = <<>> /\ UNCHANGED <<files, total, drifted>> /\ attached \subseteq attached'
  BY <1>1, IdleOwesNothing DEF ReplaceFile, Ensured
<1>4. op'[m] = o /\ \A n \in Mutators \ {m} : op'[n] = op[n]
  BY <1>2, OneMoves
<1>5. ~Astray /\ ~drifted
  BY <1>2, <1>3, AstrayMoves
<1>6. p \in Dirs /\ total[p][k] \in Int
  BY MeasuresOf DEF Base, Typed, Hanging
<1> DEFINE D == Below[p] \cap attached
           N == Below[p] \cap (attached' \ attached)
           W == Weight(k)
<1>7. /\ IsFiniteSet(D) /\ IsFiniteSet(N) /\ D \cap N = {} /\ D \cup N = Below[p] \cap attached'
      /\ D \cup N \subseteq Dirs /\ N \subseteq Dirs \ attached
  BY <1>3, <1>6, UnderFinite
<1>8. /\ \A e \in Dirs : W[e] \in Int
      /\ \A e \in Dirs \ attached : W[e] = 0
  BY WeightTyped DEF Base, Typed
<1>9. Sum(p)'[k] = SumFunctionOnSet(W, D \cup N) /\ Sum(p)[k] = SumFunctionOnSet(W, D)
  <2>1. Weight(k)' = Weight(k)
    BY <1>3 DEF Weight
  <2> QED
    BY <1>7, <2>1, SumIs, SumIsNext
<1>10. Sum(p)'[k] = Sum(p)[k] /\ Sum(p)[k] \in Int
  <2> HIDE DEF D, N, W
  <2>1. SumFunctionOnSet(W, N) = 0 /\ SumFunctionOnSet(W, D) \in Int
    BY <1>7, <1>8, SumOfZeros, SumIsInt
  <2>2. SumFunctionOnSet(W, D \cup N) = SumFunctionOnSet(W, D) + SumFunctionOnSet(W, N)
    BY <1>7, <1>8, SumOfTwo
  <2> QED
    BY <1>9, <2>1, <2>2
<1>11. Even(k, p)
  <2>1. CASE p \in attached
    BY <1>5, <2>1 DEF Balanced
  <2>2. CASE p \notin attached
    <3>1. total[p] = Zero /\ Zero[k] = 0
      BY <1>6, <2>2, MeasuresOf DEF Base, Typed, Hanging
    <3>2. D = {}
      <4>1. SUFFICES ASSUME NEW e \in D PROVE FALSE
        OBVIOUS
      <4>2. e \in attached /\ e \in Dirs /\ (e = p \/ p \in Above[e])
        BY <1>6, BelowIs DEF Base, Typed, Hanging
      <4>3. Above[e] \subseteq attached
        BY <4>2, AttachedIsUpClosed DEF Base, Typed
      <4> QED
        BY <2>2, <4>2, <4>3
    <3>3. Sum(p)[k] = 0
      <4> HIDE DEF D
      <4> QED
        BY <1>9, <3>2, SumOfNone
    <3>4. \A n \in Mutators : Due(op[n], k, p) = 0
      <4>1. TAKE n \in Mutators
      <4>2. CASE op[n].left = <<>>
        BY <4>2, NothingDue
      <4>3. CASE op[n].left # <<>>
        <5>1. ~op[n].lost
          BY <1>5, <4>3 DEF Astray
        <5>2. Owes(op[n]) \subseteq attached
          BY <5>1 DEF Base, Works
        <5> QED
          BY <2>2, <5>2 DEF Due
      <4> QED
        BY <4>2, <4>3
    <3>5. SumFunctionOnSet(Owed(k, p), Mutators) = 0
      <4> DEFINE f == Owed(k, p)
      <4>1. \A n \in Mutators : f[n] = 0
        BY <3>4 DEF Owed
      <4> HIDE DEF f
      <4>2. SumFunctionOnSet(f, Mutators) = 0
        BY <4>1, SumOfZeros, FoldersAssumption DEF FoldersAssumption
      <4> QED
        BY <4>2 DEF f
    <3> QED
      BY <3>1, <3>3, <3>5 DEF Even
  <2> QED
    BY <2>1, <2>2
<1>12. Due(op[m], k, p) = 0 /\ Due(op'[m], k, p) = 0
  BY <1>2, <1>3, <1>4, NothingDue
<1>13. \A n \in Mutators \ {m} : Due(op'[n], k, p) = Due(op[n], k, p)
  BY <1>4
<1>14. total'[p][k] + Due(op'[m], k, p) - (total[p][k] + Due(op[m], k, p)) = Sum(p)'[k] - Sum(p)[k]
  BY <1>3, <1>6, <1>10, <1>12
<1> QED
  BY <1>6, <1>11, <1>13, <1>14, EvenMoves

LEMMA DetachBalances ==
    ASSUME Base, Base', Balanced, NEW m \in Mutators, Detach(m) PROVE Balanced'
<1> SUFFICES ASSUME ~drifted', ~Astray', NEW p \in attached', NEW k \in Measures
             PROVE  Even(k, p)'
  BY DEF Balanced
<1> DEFINE d == op[m].dir
           a == op[m].delta
           gone == Below[d]
           o == [op[m] EXCEPT !.at = "bubble", !.left = BubbleFrom(Parent[d], a)]
<1>1. /\ op[m] \in Doings /\ op[m].left = <<>> /\ d \in Dirs \ {Root} /\ d \in attached
      /\ a \in Amounts
  <2>1. op[m] \in Doings /\ Works(op[m], attached)
    BY DEF Base, Typed
  <2>2. op[m].at = "sum" /\ op[m].kind = "remove dir" /\ d \in attached
    BY DEF Detach, Doing
  <2>3. op[m].left = <<>> /\ d # Root
    BY <2>1, <2>2 DEF Works
  <2>4. d \in Dirs /\ a \in Amounts
    BY <2>1 DEF Doings
  <2> QED
    BY <2>1, <2>2, <2>3, <2>4
<1>2. /\ attached' = attached \ gone
      /\ files' = [e \in Dirs |-> IF e \in gone THEN Absent ELSE files[e]]
      /\ total' = [e \in Dirs |-> CASE e \in gone       -> Zero
                                    [] e = Parent[d]    -> Plus(total[e], a)
                                    [] OTHER            -> total[e]]
      /\ op' = [n \in Mutators |->
                CASE n = m -> o
                  [] n # m /\ ~Idle(n) /\ op[n].dir \in gone -> [op[n] EXCEPT !.lost = TRUE]
                  [] OTHER -> op[n]]
      /\ ~drifted /\ a = Minus(Sum(d))
  BY DEF Detach
<1>3. Parent[d] \in Dirs /\ Above[d] = {Parent[d]} \cup Above[Parent[d]] /\ Parent[d] \notin Above[Parent[d]]
  BY <1>1, AboveGrows, NotInItself, TreeAssumption DEF TreeAssumption
<1>4. op'[m] = o /\ o.left = BubbleFrom(Parent[d], a) /\ o.delta = a
  BY <1>1, <1>2 DEF Doings
<1>5. ASSUME NEW n \in Mutators \ {m}
      PROVE  op'[n].left = op[n].left /\ op'[n].delta = op[n].delta /\ (op[n].lost => op'[n].lost)
  <2>1. op[n] \in Doings
    BY DEF Base, Typed
  <2>2. op'[n] = [op[n] EXCEPT !.lost = TRUE] \/ op'[n] = op[n]
    BY <1>2, <1>5
  <2> QED
    BY <2>1, <2>2 DEF Doings
<1>6. \A n \in Mutators \ {m} : Due(op'[n], k, p) = Due(op[n], k, p)
  BY <1>5 DEF Due, Owes
<1>7. ~Astray
  BY <1>1, <1>5 DEF Astray
<1>8. p \in attached /\ p \in Dirs /\ p \notin gone
  BY <1>2 DEF Base, Typed, Hanging
<1>9. Even(k, p)
  BY <1>2, <1>7, <1>8 DEF Balanced
<1>10. a[k] \in Int /\ a[k] = -Sum(d)[k] /\ Sum(d)[k] \in Int /\ total[p][k] \in Int /\ Sum(p)[k] \in Int
  <2>1. Sum(d) \in Amounts /\ Sum(p) \in Amounts /\ total[p] \in Amounts
    BY <1>1, <1>8, SumsTyped DEF Base, Typed, Hanging
  <2> HIDE DEF d, a
  <2> QED
    BY <1>1, <1>2, <2>1, MeasuresOf
<1>11. total'[p][k] = total[p][k] + IF p = Parent[d] THEN a[k] ELSE 0
  <2>1. total'[p] = IF p = Parent[d] THEN Plus(total[p], a) ELSE total[p]
    BY <1>2, <1>8
  <2>2. Plus(total[p], a)[k] = total[p][k] + a[k]
    BY <1>1, <1>8, MeasuresOf DEF Base, Typed, Hanging
  <2> HIDE DEF d, a
  <2> QED
    BY <1>10, <2>1, <2>2
<1>12. Due(op[m], k, p) = 0 /\ Due(op'[m], k, p) = IF p \in Above[Parent[d]] THEN a[k] ELSE 0
  <2>1. Due(op[m], k, p) = 0
    BY <1>1, NothingDue
  <2> HIDE DEF o, d, a
  <2>2. CASE a = Zero
    <3>1. o.left = <<>>
      BY <1>4, <2>2 DEF BubbleFrom
    <3>2. Zero[k] = 0
      BY <1>1, MeasuresOf
    <3> QED
      BY <1>4, <2>1, <2>2, <3>1, <3>2, NothingDue
  <2>3. CASE a # Zero
    <3>1. Owes(o) = Above[Parent[d]]
      BY <1>3, <1>4, <2>3, OwesChain DEF BubbleFrom
    <3> QED
      BY <1>4, <2>1, <3>1 DEF Due
  <2> QED
    BY <2>2, <2>3
<1> DEFINE D == Below[p] \cap attached'
           G == gone \cap attached
           V == Weight(k)
           W == Weight(k)'
<1>13. /\ IsFiniteSet(D) /\ IsFiniteSet(G) /\ D \cap G = {} /\ D \subseteq Dirs /\ G \subseteq Dirs
  BY <1>1, <1>2, <1>8, UnderFinite
<1>14. \A e \in D : V[e] = W[e]
  BY <1>2, <1>13 DEF Weight
<1>15. \A e \in Dirs : V[e] \in Int
  BY WeightTyped DEF Base, Typed
<1>16. Sum(p)'[k] = SumFunctionOnSet(W, D) /\ Sum(d)[k] = SumFunctionOnSet(V, G)
  BY SumIs, SumIsNext
<1>17. Sum(p)[k] = SumFunctionOnSet(V, Below[p] \cap attached)
  BY SumIs
<1>18. SumFunctionOnSet(W, D) = SumFunctionOnSet(V, D)
  <2> HIDE DEF D, V, W
  <2> QED
    BY <1>13, <1>14, <1>15, SumOfSame
<1>19. Sum(p)[k] = Sum(p)'[k] + IF p \in Above[d] THEN Sum(d)[k] ELSE 0
  <2>1. CASE p \in Above[d]
    <3>1. gone \subseteq Below[p]
      <4>1. SUFFICES ASSUME NEW e \in gone PROVE e \in Below[p]
        OBVIOUS
      <4>2. e \in Dirs /\ (e = d \/ d \in Above[e])
        BY <1>1, BelowInDirs, BelowIs
      <4> QED
        BY <1>8, <2>1, <4>2, AboveIsClosed, BelowIs
    <3>2. Below[p] \cap attached = D \cup G
      BY <1>2, <3>1
    <3> HIDE DEF D, G, V, W, d, gone
    <3>3. SumFunctionOnSet(V, D \cup G) = SumFunctionOnSet(V, D) + SumFunctionOnSet(V, G)
      BY <1>13, <1>15, SumOfTwo
    <3> QED
      BY <1>16, <1>17, <1>18, <2>1, <3>2, <3>3
  <2>2. CASE p \notin Above[d]
    <3>1. Below[p] \cap gone = {}
      <4>1. SUFFICES ASSUME NEW e \in gone, e \in Below[p] PROVE FALSE
        OBVIOUS
      <4>2. e \in Dirs /\ d \in Above[e] \cup {e} /\ p \in Above[e] \cup {e}
        BY <1>1, <1>8, <4>1, BelowInDirs, BelowIs
      <4>3. p = d \/ p \in Above[d] \/ d \in Above[p]
        BY <4>2, OneLine
      <4> QED
        BY <1>1, <1>8, <2>2, <4>3, BelowIs
    <3>2. Below[p] \cap attached = D
      BY <1>2, <3>1
    <3>3. SumFunctionOnSet(V, D) \in Int
      <4> HIDE DEF D, V
      <4> QED
        BY <1>13, <1>15, SumIsInt
    <3> HIDE DEF D, G, V, W, d, gone
    <3>4. Sum(p)[k] = Sum(p)'[k] /\ Sum(p)'[k] \in Int
      BY <1>16, <1>17, <1>18, <3>2, <3>3
    <3> QED
      BY <2>2, <3>4
  <2> QED
    BY <2>1, <2>2
<1>20. Sum(p)'[k] \in Int
  BY <1>8, SumsTypedNext, MeasuresOf
<1>21. total'[p][k] + Due(op'[m], k, p) - (total[p][k] + Due(op[m], k, p)) = Sum(p)'[k] - Sum(p)[k]
  <2> HIDE DEF d, a
  <2> QED
    BY <1>3, <1>10, <1>11, <1>12, <1>19, <1>20
<1> QED
  BY <1>6, <1>8, <1>9, <1>21, EvenMoves

\* What a re-scan sets is right, and nobody has anything to add, or a race is recorded.
LEMMA SetTotalsBalances ==
    ASSUME Base, Base', NEW m \in Mutators, SetTotals(m) PROVE Balanced'
<1> SUFFICES ASSUME ~drifted', NEW p \in attached', NEW k \in Measures
             PROVE  Even(k, p)'
  BY DEF Balanced
<1> DEFINE o == [op[m] EXCEPT !.at = "bubble"]
<1>1. /\ UNCHANGED <<attached, files>> /\ Becomes(m, o)
      /\ \A d \in attached : total'[d] = Sum(d)
      /\ \A n \in Mutators : op[n].at = "bubble" => op[n].left = <<>>
  BY DEF SetTotals
<1>2. \A n \in Mutators : op[n].left = <<>>
  BY <1>1 DEF Base, Works
<1>3. o.left = <<>>
  BY <1>2, Moved DEF Base, Typed
<1> HIDE DEF o
<1>4. \A n \in Mutators : op'[n].left = <<>>
  BY <1>1, <1>2, <1>3, OneMoves
<1>5. SumFunctionOnSet(Owed(k, p)', Mutators) = 0
  <2> DEFINE f == Owed(k, p)'
  <2>1. \A n \in Mutators : f[n] = 0
    <3>1. \A n \in Mutators : f[n] = Due(op'[n], k, p)
      BY DEF Owed, Due, Owes
    <3> QED
      BY <1>4, <3>1, NothingDue
  <2> HIDE DEF f
  <2>2. SumFunctionOnSet(f, Mutators) = 0
    BY <2>1, SumOfZeros, FoldersAssumption DEF FoldersAssumption
  <2> QED
    BY <2>2 DEF f
<1>6. total'[p] = Sum(p) /\ Sum(p)' = Sum(p) /\ Sum(p)[k] \in Int
  BY <1>1, SumsStay, SumsTyped, MeasuresOf DEF Base, Typed, Hanging
<1> QED
  BY <1>5, <1>6 DEF Even

LEMMA BalancedStays ==
    ASSUME Base, Balanced, UNCHANGED <<tree, op, drifted>> PROVE Balanced'
<1>1. \A p : Sum(p)' = Sum(p)
  BY SumsStay DEF tree
<1> QED
  BY <1>1 DEF Balanced, Astray, Even, Owed, Due, Owes, tree

LEMMA BalancedInit == Init => Balanced
<1> SUFFICES ASSUME Init, NEW p \in attached, NEW k \in Measures PROVE Even(k, p)
  BY DEF Balanced
<1>1. Base /\ p \in Dirs /\ total[p] = Sum(p)
  BY BaseInit DEF Init
<1>2. \A n \in Mutators : op[n].left = <<>>
  BY DEF Init, NoOp
<1>3. SumFunctionOnSet(Owed(k, p), Mutators) = 0
  <2> DEFINE f == Owed(k, p)
  <2>1. \A n \in Mutators : f[n] = 0
    BY <1>2, NothingDue DEF Owed
  <2> HIDE DEF f
  <2>2. SumFunctionOnSet(f, Mutators) = 0
    BY <2>1, SumOfZeros, FoldersAssumption DEF FoldersAssumption
  <2> QED
    BY <2>2 DEF f
<1>4. Sum(p)[k] \in Int
  BY <1>1, SumsTyped, MeasuresOf
<1> QED
  BY <1>1, <1>3, <1>4 DEF Even

LEMMA BalancedNext == Base /\ Base' /\ Balanced /\ [Next]_vars => Balanced'
<1> SUFFICES ASSUME Base, Base', Balanced, [Next]_vars PROVE Balanced'
  OBVIOUS
<1>1. CASE UNCHANGED vars
  BY <1>1, BalancedStays DEF vars
<1>2. ASSUME NEW m \in Mutators, Change(m) PROVE Balanced'
  <2>1. CASE RemoveDir(m)
    <3>1. PICK d \in attached \ {Root} :
             Becomes(m, [NoOp EXCEPT !.kind = "remove dir", !.at = "sum", !.dir = d,
                                     !.delta = Minus(Sum(d))])
      BY <2>1 DEF RemoveDir
    <3> DEFINE o == [NoOp EXCEPT !.kind = "remove dir", !.at = "sum", !.dir = d,
                                 !.delta = Minus(Sum(d))]
    <3>2. Becomes(m, o) /\ o.left = <<>>
      BY <3>1 DEF NoOp
    <3> HIDE DEF o
    <3>3. op[m].left = <<>> /\ UNCHANGED <<tree, drifted>>
      BY <2>1, IdleOwesNothing DEF RemoveDir
    <3> QED
      BY <3>2, <3>3, NothingMoves
  <2>2. CASE Aggregate(m)
    <3> DEFINE o == [NoOp EXCEPT !.kind = "aggregate", !.at = "sum",
                                 !.sums = [d \in attached |-> Sum(d)]]
    <3>1. Becomes(m, o) /\ o.left = <<>>
      BY <2>2 DEF Aggregate, NoOp
    <3> HIDE DEF o
    <3>2. op[m].left = <<>> /\ UNCHANGED <<tree, drifted>>
      BY <2>2, IdleOwesNothing DEF Aggregate
    <3> QED
      BY <3>1, <3>2, NothingMoves
  <2> QED
    BY <1>2, <2>1, <2>2, ReplaceFileBalances, RemoveFileBalances DEF Change
<1>3. ASSUME NEW m \in Mutators, Proceed(m) PROVE Balanced'
  <2>1. CASE DetachNothing(m) \/ MarkDirty(m)
    <3>1. op[m].left = <<>> /\ Becomes(m, NoOp) /\ NoOp.left = <<>> /\ UNCHANGED <<tree, drifted>>
      BY <2>1 DEF DetachNothing, MarkDirty, Doing, Base, Works, NoOp
    <3> QED
      BY <3>1, NothingMoves
  <2> QED
    BY <1>3, <2>1, ReplaceWriteBalances, BubbleBalances, DetachBalances, SetTotalsBalances
    DEF Proceed
<1>4. ASSUME NEW q \in Queries, RebuildIfDirty(q) \/ RebuildFolderIndex(q) \/ Serve(q)
      PROVE  Balanced'
  <2>1. UNCHANGED <<tree, op, drifted>>
    BY <1>4 DEF RebuildIfDirty, RebuildFolderIndex, Serve, RebuildBegins, Walk,
       RebuildEnds, Answer
  <2> QED
    BY <2>1, BalancedStays
<1> QED
  BY <1>1, <1>2, <1>3, <1>4 DEF Next

\* At rest, with no race recorded, each total is the sum.
LEMMA TotalsAreSums ==
    ASSUME Base, Balanced, Quiet, ~drifted PROVE \A d \in attached : total[d] = Sum(d)
<1>1. \A n \in Mutators : op[n].left = <<>>
  BY DEF Base, Works, Quiet, Idle
<1>2. ~Astray
  BY <1>1 DEF Astray
<1> TAKE d \in attached
<1>3. \A k \in Measures : total[d][k] = Sum(d)[k]
  <2> TAKE k \in Measures
  <2>1. Even(k, d)
    BY <1>2 DEF Balanced
  <2> DEFINE f == Owed(k, d)
  <2>2. \A n \in Mutators : f[n] = 0
    BY <1>1, NothingDue DEF Owed
  <2>3. SumFunctionOnSet(f, Mutators) = 0
    <3> HIDE DEF f
    <3> QED
      BY <2>2, SumOfZeros, FoldersAssumption DEF FoldersAssumption
  <2>4. total[d][k] \in Int
    BY MeasuresOf DEF Base, Typed, Hanging
  <2> QED
    BY <2>1, <2>3, <2>4 DEF Even
<1>4. total[d] \in Amounts /\ Sum(d) \in Amounts
  BY SumsTyped DEF Base, Typed, Hanging
<1> QED
  BY <1>3, <1>4 DEF Amounts, Measures

LEMMA BalanceHolds == Spec => [](Base /\ Balanced)
<1>1. Init => Base /\ Balanced
  BY BaseInit, BalancedInit
<1>2. Base /\ Balanced /\ [Next]_vars => (Base /\ Balanced)'
  BY BaseNext, BalancedNext
<1> QED
  BY <1>1, <1>2, PTL DEF Spec

\* Once the changes under way are done, and with no race recorded, the total of every
\* folder is the sum of the files below it, whatever the order in which the changes,
\* the ancestors they told one by one, the removals of folders and the sums of a
\* re-scan met (bubbleUpSize, ReplaceFile, RemoveDir, ComputeAggregatedSizes).
THEOREM TotalsSettleCorrect == Spec => []TotalsSettle
<1>1. Base /\ Balanced => TotalsSettle
  BY BaseIsTyped, TotalsAreSums DEF TotalsSettle
<1> QED
  BY <1>1, BalanceHolds, PTL

-----------------------------------------------------------------------------
\* The summaries: there are such functions, and only one for a tree.
Digest(f, d) == IF d \in attached THEN Entry(d, [e \in Children(d) |-> f[e]]) ELSE NoEntry

LEMMA SummariesExist ==
    ASSUME attached \in SUBSET Dirs PROVE \E f : f = [d \in Dirs |-> Digest(f, d)]
<1> DEFINE good == { D \in SUBSET Dirs : /\ \A e \in Dirs \ {Root} : Parent[e] \in D => e \in D
                                         /\ \E f : f = [d \in D |-> Digest(f, d)] }
           rest == { Dirs \ D : D \in good }
<1>1. {} \in good
  <2> DEFINE f == [d \in {} |-> NoEntry]
  <2>1. f = [d \in {} |-> Digest(f, d)]
    OBVIOUS
  <2> QED
    BY <2>1
<1>2. PICK R \in rest : \A t \in rest : t \subseteq R => t = R
  <2>0. Dirs \ {} \in rest
    BY <1>1
  <2>1. rest \in SUBSET (SUBSET Dirs) /\ rest # {}
    BY <2>0
  <2> HIDE DEF rest
  <2> QED
    BY <2>1, Smallest, TreeAssumption DEF TreeAssumption
<1>3. PICK D \in good : R = Dirs \ D
  BY <1>2
<1>4. PICK f : f = [d \in D |-> Digest(f, d)]
  BY <1>3
<1>5. CASE R = {}
  BY <1>3, <1>4, <1>5
<1>6. CASE R # {}
  <2>1. \E d \in R : \A e \in Dirs \ {Root} : Parent[e] = d => e \notin R
    <3> SUFFICES ASSUME \A d \in R : \E e \in Dirs \ {Root} : Parent[e] = d /\ e \in R
                 PROVE  FALSE
      OBVIOUS
    <3>1. D \in SUBSET Dirs
      BY <1>3
    <3>2. \A d \in Dirs : (\A e \in Dirs \ {Root} : Parent[e] = d => e \in D) => d \in D
      BY <1>3
    <3> HIDE DEF good, rest
    <3>3. D = Dirs
      BY <3>1, <3>2, FromTheLeaves
    <3> QED
      BY <1>3, <1>6, <3>3
  <2>2. PICK d \in R : \A e \in Dirs \ {Root} : Parent[e] = d => e \notin R
    BY <2>1
  <2>3. d \in Dirs /\ d \notin D /\ \A e \in Dirs \ {Root} : Parent[e] = d => e \in D
    BY <1>3, <2>2
  <2> DEFINE E == D \cup {d}
             g == [e \in E |-> IF e = d THEN Digest(f, d) ELSE f[e]]
  <2>4. \A e \in E : Digest(f, e) = Digest(g, e)
    <3> TAKE e \in E
    <3>1. \A c \in Children(e) : c \in D
      BY <1>3, <2>3 DEF Children
    <3>2. \A c \in Children(e) : f[c] = g[c]
      BY <2>3, <3>1
    <3> HIDE DEF g
    <3>3. [c \in Children(e) |-> f[c]] = [c \in Children(e) |-> g[c]]
      BY <3>2
    <3> QED
      BY <3>3 DEF Digest
  <2>5. \A e \in E : g[e] = Digest(f, e)
    BY <1>4
  <2>6. g = [e \in E |-> Digest(g, e)]
    BY <2>4, <2>5
  <2>7. E \in good
    <3>1. E \in SUBSET Dirs /\ \A e \in Dirs \ {Root} : Parent[e] \in E => e \in E
      BY <1>3, <2>3
    <3>2. \E h : h = [e \in E |-> Digest(h, e)]
      <4> HIDE DEF g
      <4> QED
        BY <2>6
    <3> QED
      BY <3>1, <3>2
  <2>8. Dirs \ E \in rest /\ Dirs \ E \subseteq R /\ Dirs \ E # R
    BY <1>3, <2>2, <2>7
  <2> QED
    BY <1>2, <2>8
<1> QED
  BY <1>5, <1>6

LEMMA SummariesAre ==
    attached \in SUBSET Dirs =>
        /\ Summaries = [d \in Dirs |-> Summaries[d]]
        /\ \A d \in Dirs : Summaries[d] = Digest(Summaries, d)
<1> SUFFICES ASSUME attached \in SUBSET Dirs
             PROVE  Summaries = [d \in Dirs |-> Digest(Summaries, d)]
  OBVIOUS
<1>1. Summaries = CHOOSE f : f = [d \in Dirs |-> Digest(f, d)]
  BY DEF Summaries, Digest
<1> QED
  BY <1>1, SummariesExist

LEMMA SummariesAreNext ==
    attached' \in SUBSET Dirs =>
        /\ Summaries' = [d \in Dirs |-> Summaries'[d]]
        /\ \A d \in Dirs : Summaries'[d] = Digest(Summaries, d)'
<1>1. (attached \in SUBSET Dirs =>
          /\ Summaries = [d \in Dirs |-> Summaries[d]]
          /\ \A d \in Dirs : Summaries[d] = Digest(Summaries, d))'
  BY SummariesAre, PTL
<1> QED
  BY <1>1

LEMMA SummariesStay ==
    ASSUME attached \in SUBSET Dirs, UNCHANGED tree PROVE Summaries' = Summaries
<1>1. UNCHANGED <<attached, files, total>>
  BY DEF tree
<1> DEFINE f == Summaries
           g == Summaries'
<1>2. /\ f = [d \in Dirs |-> f[d]] /\ g = [d \in Dirs |-> g[d]]
      /\ \A d \in Dirs : f[d] = Digest(f, d) /\ g[d] = Digest(g, d)
  <2>1. \A d \in Dirs : Digest(Summaries, d)' = Digest(Summaries', d)
    BY <1>1 DEF Digest, Entry, Children
  <2> QED
    BY <1>1, <2>1, SummariesAre, SummariesAreNext
<1> HIDE DEF f, g
<1> DEFINE S == { d \in Dirs : f[d] = g[d] }
<1>3. ASSUME NEW d \in Dirs, \A e \in Dirs \ {Root} : Parent[e] = d => e \in S
      PROVE  d \in S
  <2>1. \A e \in Children(d) : f[e] = g[e]
    BY <1>3 DEF Children
  <2>2. [e \in Children(d) |-> f[e]] = [e \in Children(d) |-> g[e]]
    BY <2>1
  <2>3. Digest(f, d) = Digest(g, d)
    BY <2>2 DEF Digest
  <2> QED
    BY <1>2, <2>3
<1>4. S \in SUBSET Dirs
  OBVIOUS
<1>5. S = Dirs
  <2> HIDE DEF S
  <2> QED
    BY <1>3, <1>4, FromTheLeaves
<1>6. f = g
  BY <1>2, <1>5
<1> QED
  BY <1>6 DEF f, g

-----------------------------------------------------------------------------
\* The index is that of the tree while no change is half made, no mark stands and no
\* rebuild is to begin: what is shown when nobody rebuilds, and what a rebuild
\* has read so far when somebody does.
Untouched == \A m \in Mutators : op[m].at \in {"idle", "sum"}

Seeing ==
    /\ seen = [e \in DOMAIN seen |-> seen[e]] /\ DOMAIN seen \subseteq Dirs
    /\ lock = Free => DOMAIN seen = {}

Current ==
    Untouched /\ ~dirty /\ (\A q \in Queries : pc[q] # "rebuild") =>
        IF lock = Free THEN indexed = Summaries ELSE \A e \in DOMAIN seen : seen[e] = Summaries[e]

LEMMA ChangesAreSeen ==
    ASSUME Base, Seeing, Current, [\E m \in Mutators : Change(m) \/ Proceed(m)]_vars
    PROVE  Seeing' /\ Current'
<1>1. CASE UNCHANGED vars
  <2>1. Summaries' = Summaries
    BY <1>1, SummariesStay DEF vars, Base, Typed, Hanging
  <2> QED
    BY <1>1, <2>1 DEF vars, view, Seeing, Current, Untouched
<1>2. CASE \E m \in Mutators : Change(m) \/ Proceed(m)
  <2>1. UNCHANGED <<lock, seen, pc, indexed>> /\ (dirty' = dirty \/ dirty' = TRUE)
    BY <1>2 DEF Change, Proceed, ReplaceFile, RemoveFile, RemoveDir, Aggregate,
       ReplaceWrite,
                Bubble, Detach, DetachNothing, SetTotals, MarkDirty, view
  <2>2. PICK m \in Mutators : Change(m) \/ Proceed(m)
    BY <1>2
  <2>3. op[m] \in Doings /\ op \in [Mutators -> Doings]
    BY DEF Base, Typed
  <2>4. Untouched' => UNCHANGED tree /\ (dirty' \/ Untouched)
    <3> SUFFICES ASSUME Untouched' PROVE UNCHANGED tree /\ (dirty' \/ Untouched)
      OBVIOUS
    <3>1. op'[m].at \in {"idle", "sum"}
      BY DEF Untouched
    <3>2. ASSUME NEW o, Becomes(m, o), op[m].at \in {"idle", "sum"} PROVE Untouched
      BY <2>3, <3>2 DEF Untouched, Becomes
    <3>3. ~ReplaceFile(m) /\ ~RemoveFile(m)
      <4>1. \A o : Becomes(m, o) => o.at \in {"idle", "sum"}
        BY <2>3, <3>1 DEF Becomes
      <4>2. ~ReplaceFile(m)
        <5> SUFFICES ASSUME ReplaceFile(m) PROVE FALSE
          OBVIOUS
        <5> DEFINE o(d, v) == [NoOp EXCEPT !.kind = "replace", !.at = "write", !.dir = d,
                                           !.file = v]
        <5>1. \E d, v : Becomes(m, o(d, v))
          BY DEF ReplaceFile
        <5>2. \A d, v : o(d, v).at = "write"
          BY DEF NoOp
        <5> HIDE DEF o
        <5> QED
          BY <4>1, <5>1, <5>2
      <4>3. ~RemoveFile(m)
        <5> SUFFICES ASSUME RemoveFile(m) PROVE FALSE
          OBVIOUS
        <5> DEFINE o(d, a) == [NoOp EXCEPT !.kind = "remove", !.at = "bubble", !.dir = d,
                                           !.delta = a, !.left = BubbleFrom(d, a)]
        <5>1. \E d, a : Becomes(m, o(d, a))
          BY DEF RemoveFile
        <5>2. \A d, a : o(d, a).at = "bubble"
          BY DEF NoOp
        <5> HIDE DEF o
        <5> QED
          BY <4>1, <5>1, <5>2
      <4> QED
        BY <4>2, <4>3
    <3>4. ~Bubble(m) /\ ~ReplaceWrite(m) /\ ~SetTotals(m)
      <4>1. ~Bubble(m)
        <5> SUFFICES ASSUME Bubble(m) PROVE FALSE
          OBVIOUS
        <5>1. op[m].at = "bubble" /\ op'[m] = [op[m] EXCEPT !.left = Tail(@)]
          BY <2>3 DEF Bubble, Becomes
        <5> QED
          BY <2>3, <3>1, <5>1, Moved
      <4>2. ~SetTotals(m)
        <5> SUFFICES ASSUME SetTotals(m) PROVE FALSE
          OBVIOUS
        <5>1. op'[m] = [op[m] EXCEPT !.at = "bubble"]
          BY <2>3 DEF SetTotals, Becomes
        <5> QED
          BY <2>3, <3>1, <5>1, Moved
      <4>3. ASSUME ReplaceWrite(m) PROVE FALSE
        <5> DEFINE o(a) == [op[m] EXCEPT !.at = "bubble", !.delta = a,
                                         !.left = BubbleFrom(op[m].dir, a)]
        <5>1. \E a : Becomes(m, o(a))
          BY <4>3 DEF ReplaceWrite
        <5>2. \A a : o(a).at = "bubble"
          BY <2>3 DEF Doings
        <5> HIDE DEF o
        <5> QED
          BY <2>3, <3>1, <5>1, <5>2 DEF Becomes
      <4> QED
        BY <4>1, <4>2, <4>3
    <3>5. ~Detach(m)
      <4> SUFFICES ASSUME Detach(m) PROVE FALSE
        OBVIOUS
      <4>1. op'[m] = [op[m] EXCEPT !.at = "bubble", !.left = BubbleFrom(Parent[op[m].dir], op[m].delta)]
        BY DEF Detach
      <4> QED
        BY <2>3, <3>1, <4>1, Moved
    <3>6. CASE RemoveDir(m)
      BY <3>2, <3>6 DEF RemoveDir, Begins, Idle
    <3>7. CASE Aggregate(m)
      BY <3>2, <3>7 DEF Aggregate, Begins, Idle
    <3>8. CASE DetachNothing(m)
      BY <3>2, <3>8 DEF DetachNothing, Doing
    <3>9. CASE MarkDirty(m)
      BY <3>9 DEF MarkDirty
    <3> QED
      BY <2>2, <3>3, <3>4, <3>5, <3>6, <3>7, <3>8, <3>9 DEF Change, Proceed
  <2>5. Seeing'
    BY <2>1 DEF Seeing
  <2>6. Current'
    <3> SUFFICES ASSUME Untouched', ~dirty', \A q \in Queries : pc'[q] # "rebuild"
                 PROVE  IF lock' = Free THEN indexed' = Summaries'
                        ELSE \A e \in DOMAIN seen' : seen'[e] = Summaries'[e]
      BY DEF Current
    <3>1. UNCHANGED tree /\ Untouched /\ ~dirty
      BY <2>1, <2>4
    <3>2. Summaries' = Summaries
      BY <3>1, SummariesStay DEF Base, Typed, Hanging
    <3> QED
      BY <2>1, <3>1, <3>2 DEF Current
  <2> QED
    BY <2>5, <2>6
<1> QED
  BY <1>1, <1>2

\* The part that is read next is a part of the tree.
LEMMA NextPart ==
    ASSUME Read # DOMAIN Parts PROVE Parts[Cardinality(Read) + 1] \in SUBSET Dirs
<1>1. Parts \in Seq(SUBSET Dirs) /\ Len(Parts) \in Nat /\ DOMAIN Parts = 1..Len(Parts)
  BY TreeAssumption, LenProperties DEF TreeAssumption
<1>2. IsFiniteSet(1..Len(Parts)) /\ Cardinality(1..Len(Parts)) = Len(Parts)
  BY <1>1, FS_Interval
<1>3. Read \subseteq 1..Len(Parts) /\ Read # 1..Len(Parts)
  BY <1>1 DEF Read
<1>4. IsFiniteSet(Read) /\ Cardinality(Read) <= Len(Parts) /\ Cardinality(Read) # Len(Parts)
  <2>1. IsFiniteSet(Read) /\ Cardinality(Read) <= Cardinality(1..Len(Parts))
    BY <1>2, <1>3, FS_Subset
  <2>2. Cardinality(Read) # Cardinality(1..Len(Parts))
    BY <1>2, <1>3, FS_Subset
  <2> QED
    BY <1>2, <2>1, <2>2
<1>5. Cardinality(Read) \in Nat
  BY <1>4, FS_CardinalityType
<1>6. Cardinality(Read) + 1 \in 1..Len(Parts)
  BY <1>1, <1>4, <1>5
<1> QED
  BY <1>1, <1>6, ElementOfSeq

LEMMA WalkIsCurrent ==
    ASSUME Base, Seeing, Current, NEW q \in Queries, Walk(q) PROVE Seeing' /\ Current'
<1> DEFINE part == Parts[Cardinality(Read) + 1]
           now(e) == [k \in Children(e) |-> IF k \in DOMAIN seen THEN seen[k] ELSE Summaries[k]]
<1>1. part \in SUBSET Dirs
  BY NextPart DEF Walk
<1>2. /\ seen' = [e \in DOMAIN seen \cup part |->
                    IF e \notin part THEN seen[e]
                    ELSE IF e \in attached THEN Entry(e, now(e)) ELSE NoEntry]
      /\ UNCHANGED <<tree, op, dirty, lock, pc>> /\ pc[q] = "walk"
  BY DEF Walk
<1>3. lock = q /\ lock # Free
  BY <1>2, FoldersAssumption DEF Base, Typed, FoldersAssumption
<1> HIDE DEF part
<1>4. DOMAIN seen' = DOMAIN seen \cup part
  BY <1>2
<1>5. Seeing'
  BY <1>1, <1>2, <1>3, <1>4 DEF Seeing
<1>6. ASSUME Untouched', ~dirty', \A r \in Queries : pc'[r] # "rebuild", NEW e \in DOMAIN seen'
      PROVE  seen'[e] = Summaries'[e]
  <2>1. \A k \in DOMAIN seen : seen[k] = Summaries[k]
    BY <1>2, <1>3, <1>6 DEF Current, Untouched
  <2>2. Summaries' = Summaries
    BY <1>2, SummariesStay DEF Base, Typed, Hanging
  <2>3. CASE e \notin part
    BY <1>2, <1>4, <1>6, <2>1, <2>2, <2>3
  <2>4. CASE e \in part
    <3>1. \A k \in Children(e) : now(e)[k] = Summaries[k]
      BY <2>1
    <3>2. now(e) = [k \in Children(e) |-> Summaries[k]]
      BY <2>1
    <3> HIDE DEF now
    <3>3. seen'[e] = Digest(Summaries, e)
      BY <1>2, <1>4, <1>6, <2>4, <3>2 DEF Digest
    <3>4. Summaries[e] = Digest(Summaries, e)
      BY <1>1, <2>4, SummariesAre DEF Base, Typed, Hanging
    <3> QED
      BY <2>2, <3>3, <3>4
  <2> QED
    BY <2>3, <2>4
<1>7. lock' # Free
  BY <1>2, <1>3
<1> QED
  BY <1>5, <1>6, <1>7 DEF Current

LEMMA RebuildEndsCurrent ==
    ASSUME Base, Seeing, Current, NEW q \in Queries, RebuildEnds(q) PROVE Seeing' /\ Current'
<1>1. /\ pc[q] = "walk" /\ Read = DOMAIN Parts
      /\ indexed' = seen /\ seen' = [d \in {} |-> NoEntry]
      /\ lock' = Free /\ pc' = [pc EXCEPT ![q] = "answer"]
      /\ UNCHANGED <<tree, op, dirty>>
  BY DEF RebuildEnds
<1>2. lock = q /\ lock # Free
  BY <1>1, FoldersAssumption DEF Base, Typed, FoldersAssumption
<1>3. DOMAIN seen = Dirs
  <2>1. \A i \in DOMAIN Parts : Parts[i] \subseteq DOMAIN seen
    BY <1>1 DEF Read
  <2>2. UNION { Parts[i] : i \in DOMAIN Parts } \subseteq DOMAIN seen
    BY <2>1
  <2> QED
    BY <2>2, TreeAssumption DEF Seeing, TreeAssumption
<1>4. Seeing'
  <2>1. DOMAIN seen' = {}
    BY <1>1
  <2>2. seen' = [e \in DOMAIN seen' |-> seen'[e]]
    BY <1>1
  <2> QED
    BY <2>1, <2>2 DEF Seeing
<1>5. ASSUME Untouched', ~dirty', \A r \in Queries : pc'[r] # "rebuild"
      PROVE  indexed' = Summaries'
  <2>1. Untouched /\ ~dirty
    BY <1>1, <1>5 DEF Untouched
  <2>2. \A r \in Queries : pc[r] # "rebuild"
    BY <1>1, <1>5 DEF Base, Typed
  <2>3. \A e \in Dirs : seen[e] = Summaries[e]
    BY <1>2, <1>3, <2>1, <2>2 DEF Current
  <2>4. Summaries = [d \in Dirs |-> Summaries[d]] /\ Summaries' = Summaries
    BY <1>1, SummariesAre, SummariesStay DEF Base, Typed, Hanging
  <2>5. seen = [d \in Dirs |-> seen[d]]
    BY <1>3 DEF Seeing
  <2>6. seen = Summaries
    BY <2>3, <2>4, <2>5
  <2> QED
    BY <1>1, <2>4, <2>6
<1> QED
  BY <1>1, <1>4, <1>5 DEF Current

LEMMA RequestsAreCurrent ==
    ASSUME Base, Seeing, Current, NEW q \in Queries,
           RebuildIfDirty(q) \/ RebuildFolderIndex(q) \/ RebuildBegins(q) \/ Answer(q)
    PROVE  Seeing' /\ Current'
<1>1. UNCHANGED <<tree, op, seen, indexed>> /\ pc \in [Queries -> {"idle", "rebuild", "walk", "answer"}]
  BY DEF RebuildIfDirty, RebuildFolderIndex, RebuildBegins, Answer, Base, Typed
<1>2. Summaries' = Summaries
  BY <1>1, SummariesStay DEF Base, Typed, Hanging
<1>3. Untouched' = Untouched
  BY <1>1 DEF Untouched
<1>4. CASE RebuildIfDirty(q)
  <2>1. Seeing'
    BY <1>1, <1>4 DEF RebuildIfDirty, Seeing
  <2>2. CASE dirty
    BY <1>1, <1>4, <2>1, <2>2 DEF RebuildIfDirty, Current
  <2>3. CASE ~dirty
    <3>1. (\A r \in Queries : pc'[r] # "rebuild") => \A r \in Queries : pc[r] # "rebuild"
      BY <1>1, <1>4 DEF RebuildIfDirty
    <3>2. UNCHANGED lock
      BY <1>4 DEF RebuildIfDirty
    <3> QED
      BY <1>1, <1>2, <1>3, <2>1, <2>3, <3>1, <3>2 DEF Current
  <2> QED
    BY <2>2, <2>3
<1>5. CASE RebuildFolderIndex(q)
  <2>1. Seeing'
    BY <1>1, <1>5 DEF RebuildFolderIndex, Seeing
  <2>2. pc'[q] = "rebuild"
    BY <1>1, <1>5 DEF RebuildFolderIndex
  <2> QED
    BY <2>1, <2>2 DEF Current
<1>6. CASE RebuildBegins(q)
  <2>1. lock = Free /\ lock' = q /\ lock' # Free
    BY <1>6, FoldersAssumption DEF RebuildBegins, FoldersAssumption
  <2>2. DOMAIN seen' = {} /\ Seeing'
    BY <1>1, <2>1 DEF Seeing
  <2> QED
    BY <2>1, <2>2 DEF Current
<1>7. CASE Answer(q)
  <2>1. UNCHANGED <<dirty, lock>> /\ pc' = [pc EXCEPT ![q] = "idle"] /\ pc[q] = "answer"
    BY <1>7 DEF Answer
  <2>2. (\A r \in Queries : pc'[r] # "rebuild") => \A r \in Queries : pc[r] # "rebuild"
    BY <1>1, <2>1
  <2>3. Seeing'
    BY <1>1, <2>1 DEF Seeing
  <2> QED
    BY <1>1, <1>2, <1>3, <2>1, <2>2, <2>3 DEF Current
<1> QED
  BY <1>4, <1>5, <1>6, <1>7

\* With no change half made, no mark standing and no rebuild on its way, the index
\* is that of the tree as it is: the flag lowered before the lock is asked for
\* and the tree read loses no mark (RebuildIfDirty, MarkDirty).
THEOREM FreshUnlessDirtyCorrect == Spec => []FreshUnlessDirty
<1>1. Init => Base /\ Seeing /\ Current
  <2> SUFFICES ASSUME Init PROVE Seeing /\ Current
    BY BaseInit
  <2>1. DOMAIN seen = {} /\ seen = [e \in DOMAIN seen |-> seen[e]]
    BY DEF Init
  <2> QED
    BY <2>1 DEF Init, Seeing, Current
<1>2. Base /\ Seeing /\ Current /\ [Next]_vars => (Base /\ Seeing /\ Current)'
  <2> SUFFICES ASSUME Base, Seeing, Current, [Next]_vars PROVE Seeing' /\ Current'
    BY BaseNext
  <2>1. CASE \E q \in Queries : RebuildIfDirty(q) \/ RebuildFolderIndex(q) \/ Serve(q)
    BY <2>1, RequestsAreCurrent, WalkIsCurrent, RebuildEndsCurrent DEF Serve
  <2> QED
    BY <2>1, ChangesAreSeen DEF Next
<1>3. Base /\ Current => FreshUnlessDirty
  <2> SUFFICES ASSUME Base, Current, Quiet, ~dirty, \A q \in Queries : pc[q] \notin {"rebuild", "walk"}
               PROVE  Fresh
    BY DEF FreshUnlessDirty
  <2>1. lock = Free
    BY DEF Base, Typed
  <2>2. Untouched
    BY DEF Quiet, Idle, Untouched
  <2> QED
    BY <2>1, <2>2 DEF Current, Fresh
<1> QED
  BY <1>1, <1>2, <1>3, PTL DEF Spec

-----------------------------------------------------------------------------
\* Paths.  The path of a folder from one above it goes from its own name up to that
\* of the child it lies under.
Names == { Name[d] : d \in Dirs }

\* How deep a folder is, and the folders met from it up.
Height(e)  == Len(Chain[e])
Step(e, i) == IF i = 1 THEN e ELSE Chain[e][i - 1]

LEMMA Heights ==
    /\ \A e \in Dirs : Height(e) \in Nat
    /\ \A e \in Dirs \ {Root} :
          /\ Height(e) = Height(Parent[e]) + 1
          /\ \A i \in 1..(Height(Parent[e]) + 1) : Step(e, i + 1) = Step(Parent[e], i)
<1>1. \A e \in Dirs : Height(e) \in Nat
  BY Chains, LenProperties DEF Height
<1>2. ASSUME NEW e \in Dirs \ {Root}
      PROVE  /\ Height(e) = Height(Parent[e]) + 1
             /\ \A i \in 1..(Height(Parent[e]) + 1) : Step(e, i + 1) = Step(Parent[e], i)
  <2>1. /\ Parent[e] \in Dirs /\ Height(e) = Height(Parent[e]) + 1 /\ Chain[e][1] = Parent[e]
        /\ \A i \in 1..Height(Parent[e]) : Chain[e][i + 1] = Chain[Parent[e]][i]
    BY ChainGrows DEF Height
  <2>2. ASSUME NEW i \in 1..(Height(Parent[e]) + 1) PROVE Step(e, i + 1) = Step(Parent[e], i)
    <3>1. i + 1 # 1 /\ (i + 1) - 1 = i /\ i \in Nat
      BY <1>1, <2>1
    <3>2. Step(e, i + 1) = Chain[e][i]
      BY <3>1 DEF Step
    <3>3. CASE i = 1
      BY <2>1, <3>2, <3>3 DEF Step
    <3>4. CASE i # 1
      <4>1. i - 1 \in 1..Height(Parent[e]) /\ (i - 1) + 1 = i
        BY <1>1, <2>1, <3>4
      <4>2. Chain[e][i] = Chain[Parent[e]][i - 1]
        BY <2>1, <4>1
      <4> QED
        BY <3>2, <3>4, <4>2 DEF Step
    <3> QED
      BY <3>3, <3>4
  <2> QED
    BY <2>1, <2>2
<1> QED
  BY <1>1, <1>2

LEMMA Steps == \A e \in Dirs : \A i \in 1..(Height(e) + 1) : Step(e, i) \in Dirs
<1> TAKE e \in Dirs
<1> TAKE i \in 1..(Height(e) + 1)
<1>1. Height(e) \in Nat /\ Chain[e] \in Seq(Dirs)
  BY Heights, Chains
<1>2. CASE i # 1
  <2>1. i - 1 \in 1..Height(e)
    BY <1>1, <1>2
  <2>2. Chain[e][i - 1] \in Dirs
    BY <1>1, <2>1, ElementOfSeq DEF Height
  <2> QED
    BY <1>2, <2>2 DEF Step
<1> QED
  BY <1>2 DEF Step

\* The folders met from one below a folder come to that folder.
LEMMA Depth ==
    ASSUME NEW c \in Dirs
    PROVE  \A e \in Below[c] : Height(e) - Height(c) \in Nat /\ Step(e, Height(e) - Height(c) + 1) = c
<1> DEFINE Fits(e) == Height(e) - Height(c) \in Nat /\ Step(e, Height(e) - Height(c) + 1) = c
           S == { e \in Dirs : e \in Below[c] => Fits(e) }
<1>1. Fits(c)
  <2>1. Height(c) \in Nat
    BY Heights
  <2>2. Height(c) - Height(c) = 0 /\ Height(c) - Height(c) + 1 = 1
    BY <2>1
  <2> QED
    BY <2>2 DEF Step
<1>2. Root \in S
  <2>1. Root \in Dirs /\ (Root \in Below[c] => Root = c)
    BY AboveGrows, BelowIs, TreeAssumption DEF TreeAssumption
  <2> HIDE DEF Fits
  <2> QED
    BY <1>1, <2>1
<1>3. ASSUME NEW e \in Dirs \ {Root}, Parent[e] \in S PROVE e \in S
  <2> SUFFICES ASSUME e \in Below[c], e # c PROVE Fits(e)
    BY <1>1
  <2>1. /\ Parent[e] \in Dirs /\ Above[e] = {Parent[e]} \cup Above[Parent[e]]
        /\ Height(e) = Height(Parent[e]) + 1
        /\ \A i \in 1..(Height(Parent[e]) + 1) : Step(e, i + 1) = Step(Parent[e], i)
        /\ Height(Parent[e]) \in Nat /\ Height(c) \in Nat
    BY AboveGrows, Heights, TreeAssumption DEF TreeAssumption
  <2>2. Parent[e] \in Below[c]
    BY <2>1, BelowIs
  <2>3. Fits(Parent[e])
    BY <1>3, <2>2
  <2> DEFINE i == Height(Parent[e]) - Height(c) + 1
  <2>4. /\ i \in 1..(Height(Parent[e]) + 1) /\ Height(e) - Height(c) + 1 = i + 1
        /\ Height(e) - Height(c) \in Nat
    BY <2>1, <2>3
  <2>5. Step(e, i + 1) = Step(Parent[e], i)
    <3> HIDE DEF i
    <3> QED
      BY <2>1, <2>4
  <2> QED
    BY <2>3, <2>4, <2>5
<1>4. S \in SUBSET Dirs
  OBVIOUS
<1>5. S = Dirs
  <2> HIDE DEF S
  <2> QED
    BY <1>2, <1>3, <1>4, FromTheRoot
<1> QED
  BY <1>5, BelowInDirs

LEMMA PathIs ==
    ASSUME NEW d \in Dirs, NEW e \in Below[d]
    PROVE  Path[d][e] = [i \in 1..(Height(e) - Height(d)) |-> Name[Step(e, i)]]
  BY DEF Path, Height, Step

LEMMA PathTyped ==
    ASSUME NEW d \in Dirs, NEW e \in Below[d]
    PROVE  Path[d][e] \in Seq(Names) /\ Len(Path[d][e]) = Height(e) - Height(d)
<1> DEFINE n == Height(e) - Height(d)
           at(i) == Name[Step(e, i)]
<1>1. e \in Dirs /\ n \in Nat /\ Height(e) \in Nat /\ Height(d) \in Nat
  BY BelowInDirs, Depth, Heights
<1>2. Path[d][e] = [i \in 1..n |-> at(i)]
  BY PathIs
<1>3. \A i \in 1..n : at(i) \in Names
  <2> TAKE i \in 1..n
  <2>1. i \in 1..(Height(e) + 1)
    BY <1>1
  <2> QED
    BY <1>1, <2>1, Steps DEF Names
<1> HIDE DEF n, at
<1>4. Path[d][e] \in [1..n -> Names]
  BY <1>2, <1>3
<1>5. Path[d][e] \in Seq(Names)
  BY <1>1, <1>4, SeqDef
<1>6. Len(Path[d][e]) = n
  BY <1>1, <1>4, <1>5, LenProperties
<1> QED
  BY <1>5, <1>6 DEF n

LEMMA PathOfItself == \A d \in Dirs : Path[d][d] = <<>>
<1> TAKE d \in Dirs
<1>1. d \in Below[d] /\ Height(d) - Height(d) = 0
  BY BelowInDirs, Heights
<1>2. Path[d][d] \in Seq(Names) /\ Len(Path[d][d]) = 0
  BY <1>1, PathTyped
<1> QED
  BY <1>2, EmptySeq

LEMMA PathGrows ==
    ASSUME NEW c \in Dirs \ {Root}, NEW e \in Below[c]
    PROVE  Path[Parent[c]][e] = Append(Path[c][e], Name[c])
<1> DEFINE p == Parent[c]
           n == Height(e) - Height(c)
           at(i) == Name[Step(e, i)]
           q == Append(Path[c][e], Name[c])
<1>1. p \in Dirs /\ e \in Below[p] /\ e \in Dirs
  BY BelowIsClosed, BelowInDirs, TreeAssumption DEF TreeAssumption
<1>2. n \in Nat /\ at(n + 1) = Name[c]
  BY Depth
<1>3. Height(e) - Height(p) = n + 1
  BY <1>1, Heights
<1>4. Path[p][e] = [i \in 1..(n + 1) |-> at(i)] /\ Path[c][e] = [i \in 1..n |-> at(i)]
  <2> HIDE DEF p
  <2> QED
    BY <1>1, <1>3, PathIs
<1>6. /\ Path[p][e] \in Seq(Names) /\ Path[c][e] \in Seq(Names) /\ Name[c] \in Names
      /\ Len(Path[p][e]) = n + 1 /\ Len(Path[c][e]) = n
  <2> HIDE DEF p
  <2> QED
    BY <1>1, <1>3, PathTyped DEF Names
<1> HIDE DEF n, at, p
<1>7. /\ q \in Seq(Names) /\ Len(q) = n + 1
      /\ \A i \in 1..n : q[i] = Path[c][e][i]
      /\ q[n + 1] = Name[c]
  BY <1>2, <1>6, AppendProperties
<1> HIDE DEF q
<1>8. \A i \in 1..(n + 1) : q[i] = Path[p][e][i]
  <2> TAKE i \in 1..(n + 1)
  <2>1. i = n + 1 \/ i \in 1..n
    BY <1>2
  <2>2. Path[p][e][i] = at(i) /\ (i \in 1..n => Path[c][e][i] = at(i))
    BY <1>4
  <2> QED
    BY <1>2, <1>7, <2>1, <2>2
<1>9. q = Path[p][e]
  BY <1>6, <1>7, <1>8, SeqEqual
<1> QED
  BY <1>9 DEF q, p

LEMMA OneEnd ==
    ASSUME NEW p \in Seq(Names), NEW q \in Seq(Names), NEW x \in Names, NEW y \in Names,
           Append(p, x) = Append(q, y)
    PROVE  p = q /\ x = y
<1> DEFINE r == Append(p, x)
           s == Append(q, y)
<1>1. r = s /\ Len(p) \in Nat /\ Len(q) \in Nat
  BY LenProperties
<1>2. Len(r) = Len(p) + 1 /\ r[Len(p) + 1] = x /\ \A i \in 1..Len(p) : r[i] = p[i]
  BY AppendProperties
<1>3. Len(s) = Len(q) + 1 /\ s[Len(q) + 1] = y /\ \A i \in 1..Len(q) : s[i] = q[i]
  BY AppendProperties
<1> HIDE DEF r, s
<1>4. Len(p) = Len(q) /\ x = y /\ \A i \in 1..Len(p) : p[i] = q[i]
  BY <1>1, <1>2, <1>3
<1> QED
  BY <1>4, SeqEqual

\* Two folders of one path are one.
LEMMA PathsDiffer ==
    \A d \in Dirs : \A e, f \in Below[d] : Path[d][e] = Path[d][f] => e = f
<1> DEFINE S == { d \in Dirs : \A e, f \in Below[d] : Path[d][e] = Path[d][f] => e = f }
<1>1. ASSUME NEW d \in Dirs, \A c \in Dirs \ {Root} : Parent[c] = d => c \in S PROVE d \in S
  <2> SUFFICES ASSUME NEW e \in Below[d], NEW f \in Below[d], Path[d][e] = Path[d][f]
               PROVE  e = f
    OBVIOUS
  <2>1. Path[d][d] = <<>> /\ e \in Dirs /\ f \in Dirs
    BY PathOfItself, BelowInDirs
  <2>2. ASSUME NEW x \in Below[d], x # d
        PROVE  \E c \in Dirs \ {Root} :
                  /\ Parent[c] = d /\ x \in Below[c] /\ Path[d][x] = Append(Path[c][x], Name[c])
                  /\ Path[c][x] \in Seq(Names) /\ Name[c] \in Names /\ Path[d][x] # <<>>
    <3>1. PICK c \in Dirs \ {Root} : Parent[c] = d /\ x \in Below[c]
      BY <2>2, BelowAChild, BelowInDirs
    <3>2. Path[c][x] \in Seq(Names) /\ Name[c] \in Names /\ Path[d][x] = Append(Path[c][x], Name[c])
      BY <3>1, PathTyped, PathGrows DEF Names
    <3>3. Path[d][x] # <<>>
      BY <3>2, AppendProperties
    <3> QED
      BY <3>1, <3>2, <3>3
  <2>3. CASE e = d \/ f = d
    BY <2>1, <2>2, <2>3
  <2>4. CASE e # d /\ f # d
    <3>1. PICK b \in Dirs \ {Root} :
                  /\ Parent[b] = d /\ e \in Below[b] /\ Path[d][e] = Append(Path[b][e], Name[b])
                  /\ Path[b][e] \in Seq(Names) /\ Name[b] \in Names
      BY <2>2, <2>4
    <3>2. PICK c \in Dirs \ {Root} :
                  /\ Parent[c] = d /\ f \in Below[c] /\ Path[d][f] = Append(Path[c][f], Name[c])
                  /\ Path[c][f] \in Seq(Names) /\ Name[c] \in Names
      BY <2>2, <2>4
    <3>3. Path[b][e] = Path[c][f] /\ Name[b] = Name[c]
      <4>1. Append(Path[b][e], Name[b]) = Append(Path[c][f], Name[c])
        BY <3>1, <3>2
      <4> QED
        <5> DEFINE s == Path[b][e]
                   t == Path[c][f]
        <5>1. /\ s \in Seq(Names) /\ t \in Seq(Names) /\ Name[b] \in Names /\ Name[c] \in Names
              /\ Append(s, Name[b]) = Append(t, Name[c])
          BY <3>1, <3>2, <4>1
        <5> HIDE DEF s, t
        <5>2. s = t /\ Name[b] = Name[c]
          BY <5>1, OneEnd
        <5> QED
          BY <5>2 DEF s, t
    <3>4. b = c
      BY <3>1, <3>2, <3>3, TreeAssumption DEF TreeAssumption
    <3> QED
      BY <1>1, <3>1, <3>2, <3>3, <3>4
  <2> QED
    BY <2>3, <2>4
<1>2. S \in SUBSET Dirs
  OBVIOUS
<1>3. S = Dirs
  <2> HIDE DEF S
  <2> QED
    BY <1>1, <1>2, FromTheLeaves
<1> QED
  BY <1>3

-----------------------------------------------------------------------------
\* What a folder holds, by path.
Held(d)    == { e \in Below[d] \cap attached : files[e] # Absent }
Holds(d)   == { <<f[1], Content[f[2]]>> : f \in Relative(d) }
Own(d)     == IF files[d] = Absent THEN {} ELSE { <<<<>>, Content[files[d]]>> }
Within(c, x) == <<Append(x[1], Name[c]), x[2]>>

LEMMA RelativeIs ==
    \A d : /\ Relative(d) = { <<Path[d][e], files[e]>> : e \in Held(d) }
           /\ Holds(d) = { <<Path[d][e], Content[files[e]]>> : e \in Held(d) }
           /\ AllHashed(d) <=> \A e \in Held(d) : files[e] \in Hashed
<1> TAKE d
<1>1. Relative(d) = { <<Path[d][e], files[e]>> : e \in Held(d) }
  BY DEF Relative, Held
<1>2. Holds(d) = { <<Path[d][e], Content[files[e]]>> : e \in Held(d) }
  <2>1. \A f \in Relative(d) : \E e \in Held(d) : f[1] = Path[d][e] /\ f[2] = files[e]
    BY <1>1
  <2>2. \A e \in Held(d) : \E f \in Relative(d) : f[1] = Path[d][e] /\ f[2] = files[e]
    <3> TAKE e \in Held(d)
    <3>1. <<Path[d][e], files[e]>> \in Relative(d)
      BY <1>1
    <3> QED
      BY <3>1
  <2> QED
    BY <2>1, <2>2 DEF Holds
<1>3. AllHashed(d) <=> \A e \in Held(d) : files[e] \in Hashed
  <2>1. \A f \in Relative(d) : \E e \in Held(d) : f[2] = files[e]
    BY <1>1
  <2>2. \A e \in Held(d) : \E f \in Relative(d) : f[2] = files[e]
    <3> TAKE e \in Held(d)
    <3>1. <<Path[d][e], files[e]>> \in Relative(d)
      BY <1>1
    <3> QED
      BY <3>1
  <2> QED
    BY <2>1, <2>2 DEF AllHashed
<1> QED
  BY <1>1, <1>2, <1>3

LEMMA ChildrenAre ==
    ASSUME Hanging, NEW d \in attached
    PROVE  \A c \in Children(d) : c \in attached /\ c \in Dirs \ {Root} /\ Parent[c] = d
  BY DEF Children, Hanging

\* What a folder holds is its own file and what its children hold.
LEMMA HeldIs ==
    ASSUME Hanging, NEW d \in attached
    PROVE  /\ \A e \in Held(d) : e # d => \E c \in Children(d) : e \in Held(c)
           /\ \A c \in Children(d) : Held(c) \subseteq Held(d) \ {d}
           /\ d \in Held(d) <=> files[d] # Absent
<1>1. d \in Dirs
  BY DEF Hanging
<1>2. ASSUME NEW e \in Held(d), e # d PROVE \E c \in Children(d) : e \in Held(c)
  <2>1. e \in Dirs /\ e \in attached /\ e \in Below[d] /\ files[e] # Absent
    BY <1>1, BelowInDirs DEF Held
  <2>2. PICK c \in Dirs \ {Root} : Parent[c] = d /\ e \in Below[c]
    BY <1>1, <1>2, <2>1, BelowAChild
  <2>3. c \in attached
    <3>1. Above[e] \subseteq attached
      BY <2>1, AttachedIsUpClosed
    <3> QED
      BY <2>1, <2>2, <3>1, BelowIs
  <2> QED
    BY <2>1, <2>2, <2>3 DEF Children, Held
<1>3. ASSUME NEW c \in Children(d) PROVE Held(c) \subseteq Held(d) \ {d}
  <2>1. c \in Dirs \ {Root} /\ Parent[c] = d
    BY ChildrenAre
  <2>2. Below[c] \subseteq Below[d] \ {d}
    BY <2>1, BelowIsClosed
  <2> QED
    BY <2>2 DEF Held
<1>4. d \in Held(d) <=> files[d] # Absent
  BY <1>1, BelowInDirs DEF Held
<1> QED
  BY <1>2, <1>3, <1>4

LEMMA HoldsIs ==
    ASSUME Hanging, NEW d \in attached
    PROVE  /\ \A x \in Holds(d) : x \in Own(d) \/ \E c \in Children(d) : \E y \in Holds(c) : x = Within(c, y)
           /\ Own(d) \subseteq Holds(d)
           /\ \A c \in Children(d) : \A y \in Holds(c) : Within(c, y) \in Holds(d)
           /\ \A x \in Holds(d) : x[1] \in Seq(Names) /\ x = <<x[1], x[2]>>
<1>1. d \in Dirs
  BY DEF Hanging
<1>2. ASSUME NEW c \in Children(d), NEW e \in Held(c)
      PROVE  <<Path[d][e], Content[files[e]]>> = Within(c, <<Path[c][e], Content[files[e]]>>)
  <2>1. c \in Dirs \ {Root} /\ Parent[c] = d /\ e \in Below[c]
    BY ChildrenAre DEF Held
  <2>2. Path[d][e] = Append(Path[c][e], Name[c])
    BY <2>1, PathGrows
  <2> QED
    BY <2>2 DEF Within
<1>3. ASSUME NEW x \in Holds(d), x \notin Own(d)
      PROVE  \E c \in Children(d) : \E y \in Holds(c) : x = Within(c, y)
  <2>1. PICK e \in Held(d) : x = <<Path[d][e], Content[files[e]]>>
    BY RelativeIs
  <2>2. e # d
    BY <1>1, <1>3, <2>1, HeldIs, PathOfItself DEF Own
  <2>3. PICK c \in Children(d) : e \in Held(c)
    BY <2>2, HeldIs
  <2>4. <<Path[c][e], Content[files[e]]>> \in Holds(c)
    BY <2>3, RelativeIs
  <2> QED
    BY <1>2, <2>1, <2>3, <2>4
<1>4. Own(d) \subseteq Holds(d)
  <2>1. CASE files[d] = Absent
    BY <2>1 DEF Own
  <2>2. CASE files[d] # Absent
    <3>1. d \in Held(d) /\ Path[d][d] = <<>>
      BY <1>1, <2>2, HeldIs, PathOfItself
    <3>2. <<Path[d][d], Content[files[d]]>> \in Holds(d)
      BY <3>1, RelativeIs
    <3> QED
      BY <2>2, <3>1, <3>2 DEF Own
  <2> QED
    BY <2>1, <2>2
<1>5. ASSUME NEW c \in Children(d), NEW y \in Holds(c) PROVE Within(c, y) \in Holds(d)
  <2>1. PICK e \in Held(c) : y = <<Path[c][e], Content[files[e]]>>
    BY RelativeIs
  <2>2. e \in Held(d)
    BY HeldIs
  <2> QED
    BY <1>2, <2>1, <2>2, RelativeIs
<1>6. ASSUME NEW x \in Holds(d) PROVE x[1] \in Seq(Names) /\ x = <<x[1], x[2]>>
  <2>1. PICK e \in Held(d) : x = <<Path[d][e], Content[files[e]]>>
    BY RelativeIs
  <2>2. Path[d][e] \in Seq(Names)
    BY <1>1, PathTyped DEF Held
  <2> QED
    BY <2>1, <2>2
<1> QED
  BY <1>3, <1>4, <1>5, <1>6

\* Of what is held under two children, the names and the rest of the path can be told.
LEMMA WithinDiffer ==
    ASSUME Hanging, NEW b \in Dirs, NEW c \in Dirs, NEW x, NEW y,
           x[1] \in Seq(Names), y[1] \in Seq(Names), Within(b, x) = Within(c, y)
    PROVE  Name[b] = Name[c] /\ x[1] = y[1] /\ x[2] = y[2]
<1>1. Append(x[1], Name[b]) = Append(y[1], Name[c]) /\ x[2] = y[2]
  BY DEF Within
<1>2. Name[b] \in Names /\ Name[c] \in Names
  BY DEF Names
<1> DEFINE p == x[1]
           q == y[1]
<1>3. p \in Seq(Names) /\ q \in Seq(Names) /\ Append(p, Name[b]) = Append(q, Name[c])
  BY <1>1
<1> HIDE DEF p, q
<1>4. p = q /\ Name[b] = Name[c]
  BY <1>2, <1>3, OneEnd
<1> QED
  BY <1>1, <1>4 DEF p, q

LEMMA WithinIsNotOwn ==
    ASSUME Hanging, NEW d, NEW c \in Dirs, NEW x, x[1] \in Seq(Names)
    PROVE  Within(c, x) \notin Own(d)
<1> DEFINE p == x[1]
<1>1. p \in Seq(Names) /\ Name[c] \in Names
  BY DEF Names
<1> HIDE DEF p
<1>2. Append(p, Name[c]) # <<>>
  BY <1>1, AppendProperties
<1> QED
  BY <1>2 DEF Within, Own, p

\* A child of one folder and a child of the same name of the other hold the same, when
\* the two folders do.
LEMMA ChildrenMatch ==
    ASSUME Hanging, NEW a \in attached, NEW b \in attached, Holds(a) = Holds(b),
           NEW c \in Children(a), Holds(c) # {}
    PROVE  \E e \in Children(b) : Name[e] = Name[c] /\ Holds(e) = Holds(c)
<1>1. c \in attached /\ c \in Dirs \ {Root} /\ Parent[c] = a
  BY ChildrenAre
<1>2. \A x \in Holds(c) : x[1] \in Seq(Names) /\ x = <<x[1], x[2]>>
  BY <1>1, HoldsIs
<1>3. ASSUME NEW x \in Holds(c)
      PROVE  \E e \in Children(b) : Name[e] = Name[c] /\ x \in Holds(e)
  <2>1. Within(c, x) \in Holds(b)
    BY <1>3, HoldsIs
  <2>2. Within(c, x) \notin Own(b)
    BY <1>1, <1>2, WithinIsNotOwn
  <2>3. PICK e \in Children(b) : \E y \in Holds(e) : Within(c, x) = Within(e, y)
    BY <2>1, <2>2, HoldsIs
  <2> PICK y \in Holds(e) : Within(c, x) = Within(e, y)
    BY <2>3
  <2>4. e \in attached /\ e \in Dirs
    BY ChildrenAre
  <2>5. y[1] \in Seq(Names) /\ y = <<y[1], y[2]>>
    BY <2>4, HoldsIs
  <2>6. x[1] \in Seq(Names) /\ x = <<x[1], x[2]>>
    BY <1>2
  <2>7. Name[c] = Name[e] /\ x[1] = y[1] /\ x[2] = y[2]
    BY <1>1, <2>4, <2>5, <2>6, WithinDiffer
  <2>8. x = y
    BY <2>5, <2>6, <2>7
  <2> QED
    BY <2>7, <2>8
<1>4. PICK e \in Children(b) : Name[e] = Name[c]
  BY <1>3
<1>5. e \in attached /\ e \in Dirs \ {Root} /\ Parent[e] = b
  BY ChildrenAre
<1>6. Holds(c) \subseteq Holds(e)
  <2>1. ASSUME NEW f \in Children(b), Name[f] = Name[c] PROVE f = e
    <3>1. f \in Dirs \ {Root} /\ Parent[f] = b
      BY ChildrenAre
    <3> QED
      BY <1>4, <1>5, <2>1, <3>1, TreeAssumption DEF TreeAssumption
  <2> QED
    BY <1>3, <2>1
<1>7. ASSUME NEW y \in Holds(e) PROVE y \in Holds(c)
  <2>1. y[1] \in Seq(Names) /\ y = <<y[1], y[2]>>
    BY <1>5, HoldsIs
  <2>2. Within(e, y) \in Holds(a)
    BY HoldsIs
  <2>3. Within(e, y) \notin Own(a)
    BY <1>5, <2>1, WithinIsNotOwn
  <2>4. PICK f \in Children(a) : \E x \in Holds(f) : Within(e, y) = Within(f, x)
    BY <2>2, <2>3, HoldsIs
  <2> PICK x \in Holds(f) : Within(e, y) = Within(f, x)
    BY <2>4
  <2>5. f \in attached /\ f \in Dirs \ {Root} /\ Parent[f] = a
    BY ChildrenAre
  <2>6. x[1] \in Seq(Names) /\ x = <<x[1], x[2]>>
    BY <2>5, HoldsIs
  <2>7. Name[e] = Name[f] /\ y[1] = x[1] /\ y[2] = x[2]
    BY <1>5, <2>1, <2>5, <2>6, WithinDiffer
  <2>8. f = c
    BY <1>1, <1>4, <2>5, <2>7, TreeAssumption DEF TreeAssumption
  <2>9. y = x
    BY <2>1, <2>6, <2>7
  <2> QED
    BY <2>8, <2>9
<1> QED
  BY <1>4, <1>6, <1>7

\* What a folder holds of its own, when two hold the same.
LEMMA OwnMatch ==
    ASSUME Hanging, NEW a \in attached, NEW b \in attached, Holds(a) = Holds(b)
    PROVE  Own(a) \subseteq Own(b)
<1> SUFFICES ASSUME NEW x \in Own(a), x \notin Own(b) PROVE FALSE
  OBVIOUS
<1>1. x \in Holds(b)
  BY HoldsIs
<1>2. PICK c \in Children(b) : \E y \in Holds(c) : x = Within(c, y)
  BY <1>1, HoldsIs
<1> PICK y \in Holds(c) : x = Within(c, y)
  BY <1>2
<1>3. c \in attached /\ c \in Dirs
  BY ChildrenAre
<1>4. y[1] \in Seq(Names)
  BY <1>3, HoldsIs
<1> QED
  BY <1>2, <1>3, <1>4, WithinIsNotOwn

-----------------------------------------------------------------------------
\* The summaries of a tree whose totals are right.
Settled == Base /\ \A d \in attached : total[d] = Sum(d)

OwnToken(d) == IF files[d] = Absent THEN "none" ELSE Token[files[d]]
Full(d)     == { c \in Children(d) : Summaries[c].hash # <<>> }
Kids(d)     == { <<Name[c], Summaries[c].hash>> : c \in Full(d) }

LEMMA CountsSay ==
    ASSUME Settled, NEW d \in attached
    PROVE  total[d].count = 0 <=> Held(d) = {}
<1> DEFINE f == Weight("count")
           D == Below[d] \cap attached
<1>1. d \in Dirs /\ files \in [Dirs -> Versions \cup {Absent}] /\ total[d] = Sum(d)
  BY DEF Settled, Base, Typed, Hanging
<1>2. IsFiniteSet(D) /\ D \subseteq Dirs
  BY <1>1, UnderFinite
<1>3. \A e \in D : f[e] = CountOf(files[e])
  BY <1>2 DEF Weight
<1>4. \A e \in D : f[e] \in Nat /\ (f[e] = 0 <=> files[e] = Absent)
  BY <1>1, <1>2, <1>3, WeightsTyped DEF CountOf
<1>5. total[d].count = SumFunctionOnSet(f, D)
  BY <1>1, SumIs DEF Measures, Sum
<1>6. SumFunctionOnSet(f, D) = 0 <=> \A e \in D : f[e] = 0
  <2> HIDE DEF f, D
  <2> QED
    BY <1>2, <1>4, SumOfCounts
<1> HIDE DEF f
<1> QED
  BY <1>4, <1>5, <1>6 DEF Held

LEMMA SummaryIs ==
    ASSUME Settled, NEW d \in attached
    PROVE  /\ Held(d) = {} =>
                /\ Summaries[d].hash = <<>>
                /\ Summaries[d].sure <=> \A c \in Children(d) : Summaries[c].sure
           /\ Held(d) # {} =>
                /\ Summaries[d].hash = <<OwnToken(d), Kids(d)>>
                /\ Summaries[d].size = total[d].size /\ Summaries[d].count = total[d].count
                /\ Summaries[d].sure <=> /\ \A c \in Children(d) : Summaries[c].sure
                                         /\ files[d] \in Hashed \cup {Absent}
<1>1. d \in Dirs /\ attached \in SUBSET Dirs
  BY DEF Settled, Base, Typed, Hanging
<1> DEFINE under == [e \in Children(d) |-> Summaries[e]]
           sub  == { e \in Children(d) : under[e].hash # <<>> }
           keys == { <<Name[e], under[e].hash>> : e \in sub }
           sure == \A e \in Children(d) : under[e].sure
<1>2. Summaries[d] = Entry(d, under)
  BY <1>1, SummariesAre DEF Digest
<1>3. sub = Full(d) /\ keys = Kids(d) /\ (sure <=> \A e \in Children(d) : Summaries[e].sure)
  <2>1. \A e \in Children(d) : under[e] = Summaries[e]
    OBVIOUS
  <2>2. sub = Full(d)
    BY <2>1 DEF Full
  <2>3. \A e \in sub : under[e] = Summaries[e]
    BY <2>1
  <2>4. keys = Kids(d)
    BY <2>2, <2>3 DEF Kids
  <2> QED
    BY <2>1, <2>2, <2>4
<1>4. Entry(d, under) =
        IF total[d].count = 0
          THEN [NoEntry EXCEPT !.sure = sure]
          ELSE [hash |-> <<OwnToken(d), keys>>,
                size |-> total[d].size, count |-> total[d].count,
                sure |-> sure /\ files[d] \in Hashed \cup {Absent}]
  BY DEF Entry, OwnToken
<1>5. total[d].count = 0 <=> Held(d) = {}
  BY CountsSay
<1> HIDE DEF under, sub, keys, sure
<1>6. CASE Held(d) = {}
  <2>1. Summaries[d] = [NoEntry EXCEPT !.sure = sure]
    BY <1>2, <1>4, <1>5, <1>6
  <2>2. Summaries[d].hash = <<>> /\ Summaries[d].sure = sure
    BY <2>1 DEF NoEntry
  <2> QED
    BY <1>3, <1>6, <2>2
<1>7. CASE Held(d) # {}
  <2>1. Summaries[d] = [hash |-> <<OwnToken(d), keys>>,
                        size |-> total[d].size, count |-> total[d].count,
                        sure |-> sure /\ files[d] \in Hashed \cup {Absent}]
    BY <1>2, <1>4, <1>5, <1>7
  <2>2. /\ Summaries[d].hash = <<OwnToken(d), keys>>
        /\ Summaries[d].size = total[d].size /\ Summaries[d].count = total[d].count
        /\ Summaries[d].sure = (sure /\ files[d] \in Hashed \cup {Absent})
    BY <2>1
  <2> QED
    BY <1>3, <1>7, <2>2
<1> QED
  BY <1>6, <1>7

LEMMA HashIsEmpty ==
    ASSUME Settled, NEW d \in attached
    PROVE  /\ Summaries[d].hash = <<>> <=> Held(d) = {}
           /\ Holds(d) = {} <=> Held(d) = {}
<1>1. Holds(d) = { <<Path[d][e], Content[files[e]]>> : e \in Held(d) }
  BY RelativeIs
<1>2. \A x, y : <<x, y>> # <<>>
  OBVIOUS
<1> QED
  BY <1>1, <1>2, SummaryIs

LEMMA HashedIs ==
    ASSUME Settled, NEW d \in attached
    PROVE  AllHashed(d) <=> /\ \A c \in Children(d) : AllHashed(c)
                            /\ files[d] \in Hashed \cup {Absent}
<1>1. /\ \A e \in Held(d) : e # d => \E c \in Children(d) : e \in Held(c)
      /\ \A c \in Children(d) : Held(c) \subseteq Held(d) \ {d}
      /\ d \in Held(d) <=> files[d] # Absent
  BY HeldIs DEF Settled, Base, Typed
<1>2. \A e : AllHashed(e) <=> \A x \in Held(e) : files[x] \in Hashed
  BY RelativeIs
<1> QED
  BY <1>1, <1>2

\* A summary is sure when every file below has its hash, and only then.
LEMMA SureIs ==
    ASSUME Settled PROVE \A d \in attached : Summaries[d].sure <=> AllHashed(d)
<1> DEFINE S == { d \in Dirs : d \in attached => (Summaries[d].sure <=> AllHashed(d)) }
<1>1. ASSUME NEW d \in Dirs, \A e \in Dirs \ {Root} : Parent[e] = d => e \in S
      PROVE  d \in S
  <2> SUFFICES ASSUME d \in attached PROVE Summaries[d].sure <=> AllHashed(d)
    OBVIOUS
  <2>1. \A c \in Children(d) : Summaries[c].sure <=> AllHashed(c)
    BY <1>1, ChildrenAre DEF Settled, Base, Typed
  <2>2. AllHashed(d) <=> /\ \A c \in Children(d) : AllHashed(c)
                         /\ files[d] \in Hashed \cup {Absent}
    BY HashedIs
  <2>3. CASE Held(d) = {}
    <3>1. Summaries[d].sure <=> \A c \in Children(d) : Summaries[c].sure
      BY <2>3, SummaryIs
    <3>2. files[d] = Absent
      BY <2>3, HeldIs DEF Settled, Base, Typed
    <3> QED
      BY <2>1, <2>2, <3>1, <3>2
  <2>4. CASE Held(d) # {}
    <3>1. Summaries[d].sure <=> /\ \A c \in Children(d) : Summaries[c].sure
                                /\ files[d] \in Hashed \cup {Absent}
      BY <2>4, SummaryIs
    <3> QED
      BY <2>1, <2>2, <3>1
  <2> QED
    BY <2>3, <2>4
<1>2. S \in SUBSET Dirs
  OBVIOUS
<1>3. S = Dirs
  <2> HIDE DEF S
  <2> QED
    BY <1>1, <1>2, FromTheLeaves
<1> QED
  BY <1>3 DEF Settled, Base, Typed, Hanging

\* The token of a folder's own file tells its content.
LEMMA TokensTell ==
    ASSUME Settled, NEW a \in attached, NEW b \in attached,
           files[a] \in Hashed \cup {Absent}, files[b] \in Hashed \cup {Absent}
    PROVE  OwnToken(a) = OwnToken(b) <=> Own(a) = Own(b)
<1>1. CASE files[a] = Absent \/ files[b] = Absent
  BY <1>1, VersionsAssumption DEF OwnToken, Own, VersionsAssumption
<1>2. CASE files[a] # Absent /\ files[b] # Absent
  <2>1. OwnToken(a) = OwnToken(b) <=> Content[files[a]] = Content[files[b]]
    BY <1>2, VersionsAssumption DEF OwnToken, VersionsAssumption
  <2>2. Own(a) = Own(b) <=> Content[files[a]] = Content[files[b]]
    <3>1. \A x, y : { <<<<>>, x>> } = { <<<<>>, y>> } => x = y
      <4> TAKE x, y
      <4>1. HAVE { <<<<>>, x>> } = { <<<<>>, y>> }
      <4>2. <<<<>>, x>> \in { <<<<>>, y>> }
        BY <4>1
      <4>3. <<<<>>, x>> = <<<<>>, y>>
        BY <4>2
      <4>4. <<<<>>, x>>[2] = x /\ <<<<>>, y>>[2] = y
        OBVIOUS
      <4> QED
        BY <4>3, <4>4
    <3>2. /\ Own(a) = { <<<<>>, Content[files[a]]>> }
          /\ Own(b) = { <<<<>>, Content[files[b]]>> }
      BY <1>2 DEF Own
    <3> QED
      BY <3>1, <3>2
  <2> QED
    BY <2>1, <2>2
<1> QED
  BY <1>1, <1>2

\* When the children of a folder are told by their hashes, so is the folder.
LEMMA HashesTellOne ==
    ASSUME Settled, NEW a \in attached, AllHashed(a),
           \A c \in Children(a) : \A e \in attached :
                AllHashed(e) => (Summaries[c].hash = Summaries[e].hash <=> Holds(c) = Holds(e)),
           NEW b \in attached, AllHashed(b)
    PROVE  Summaries[a].hash = Summaries[b].hash <=> Holds(a) = Holds(b)
<1>0. Hanging
  BY DEF Settled, Base, Typed
<1>1. CASE Held(a) = {} \/ Held(b) = {}
  BY <1>1, HashIsEmpty
<1>2. CASE Held(a) # {} /\ Held(b) # {}
  <2>1. /\ Summaries[a].hash = <<OwnToken(a), Kids(a)>>
        /\ Summaries[b].hash = <<OwnToken(b), Kids(b)>>
    BY <1>2, SummaryIs
  <2>2. Summaries[a].hash = Summaries[b].hash <=> OwnToken(a) = OwnToken(b) /\ Kids(a) = Kids(b)
    BY <2>1
  <2>3. OwnToken(a) = OwnToken(b) <=> Own(a) = Own(b)
    BY HashedIs, TokensTell
  <2>4. /\ \A c \in Children(a) : c \in attached /\ AllHashed(c)
        /\ \A c \in Children(b) : c \in attached /\ AllHashed(c)
    BY <1>0, HashedIs, ChildrenAre
  <2>5. ASSUME Holds(a) = Holds(b) PROVE Own(a) = Own(b) /\ Kids(a) = Kids(b)
    <3>1. Own(a) = Own(b)
      <4>1. Own(a) \subseteq Own(b)
        BY <1>0, <2>5, OwnMatch
      <4>2. Own(b) \subseteq Own(a)
        BY <1>0, <2>5, OwnMatch
      <4> QED
        BY <4>1, <4>2
    <3>2. ASSUME NEW c \in Full(a) PROVE <<Name[c], Summaries[c].hash>> \in Kids(b)
      <4>1. c \in Children(a) /\ Summaries[c].hash # <<>>
        BY DEF Full
      <4>2. Holds(c) # {}
        BY <2>4, <4>1, HashIsEmpty
      <4>3. PICK e \in Children(b) : Name[e] = Name[c] /\ Holds(e) = Holds(c)
        BY <1>0, <2>5, <4>1, <4>2, ChildrenMatch
      <4>4. Summaries[e].hash = Summaries[c].hash
        BY <2>4, <4>1, <4>3
      <4>5. e \in Full(b)
        BY <4>1, <4>4 DEF Full
      <4> QED
        BY <4>3, <4>4, <4>5 DEF Kids
    <3>3. ASSUME NEW e \in Full(b) PROVE <<Name[e], Summaries[e].hash>> \in Kids(a)
      <4>1. e \in Children(b) /\ Summaries[e].hash # <<>>
        BY DEF Full
      <4>2. Holds(e) # {}
        BY <2>4, <4>1, HashIsEmpty
      <4>3. PICK c \in Children(a) : Name[c] = Name[e] /\ Holds(c) = Holds(e)
        BY <1>0, <2>5, <4>1, <4>2, ChildrenMatch
      <4>4. Summaries[c].hash = Summaries[e].hash
        BY <2>4, <4>1, <4>3
      <4>5. c \in Full(a)
        BY <4>1, <4>4 DEF Full
      <4> QED
        BY <4>3, <4>4, <4>5 DEF Kids
    <3> QED
      BY <3>1, <3>2, <3>3 DEF Kids
  <2>6. ASSUME Own(a) = Own(b), Kids(a) = Kids(b) PROVE Holds(a) = Holds(b)
    <3>1. ASSUME NEW c \in Children(a), NEW x \in Holds(c) PROVE Within(c, x) \in Holds(b)
      <4>1. c \in Full(a)
        BY <2>4, <3>1, HashIsEmpty DEF Full
      <4>2. <<Name[c], Summaries[c].hash>> \in Kids(b)
        BY <2>6, <4>1 DEF Kids
      <4>3. PICK e \in Full(b) : Name[e] = Name[c] /\ Summaries[e].hash = Summaries[c].hash
        BY <4>2 DEF Kids
      <4>4. e \in Children(b)
        BY DEF Full
      <4>5. Holds(c) = Holds(e)
        BY <2>4, <4>3, <4>4
      <4>6. Within(e, x) \in Holds(b)
        BY <1>0, <4>4, <4>5, HoldsIs
      <4> QED
        BY <4>3, <4>6 DEF Within
    <3>2. ASSUME NEW e \in Children(b), NEW x \in Holds(e) PROVE Within(e, x) \in Holds(a)
      <4>1. e \in Full(b)
        BY <2>4, <3>2, HashIsEmpty DEF Full
      <4>2. <<Name[e], Summaries[e].hash>> \in Kids(a)
        BY <2>6, <4>1 DEF Kids
      <4>3. PICK c \in Full(a) : Name[e] = Name[c] /\ Summaries[e].hash = Summaries[c].hash
        BY <4>2 DEF Kids
      <4>4. c \in Children(a)
        BY DEF Full
      <4>5. Holds(c) = Holds(e)
        BY <2>4, <4>3, <4>4
      <4>6. Within(c, x) \in Holds(a)
        BY <1>0, <4>4, <4>5, HoldsIs
      <4> QED
        BY <4>3, <4>6 DEF Within
    <3>3. Own(a) \subseteq Holds(b) /\ Own(b) \subseteq Holds(a)
      BY <1>0, <2>6, HoldsIs
    <3>4. Holds(a) \subseteq Holds(b)
      <4>1. \A x \in Holds(a) : x \in Own(a) \/ \E c \in Children(a) : \E y \in Holds(c) : x = Within(c, y)
        BY <1>0, HoldsIs
      <4> QED
        BY <3>1, <3>3, <4>1
    <3>5. Holds(b) \subseteq Holds(a)
      <4>1. \A x \in Holds(b) : x \in Own(b) \/ \E c \in Children(b) : \E y \in Holds(c) : x = Within(c, y)
        BY <1>0, HoldsIs
      <4> QED
        BY <3>2, <3>3, <4>1
    <3> QED
      BY <3>4, <3>5
  <2> QED
    BY <2>2, <2>3, <2>5, <2>6
<1> QED
  BY <1>1, <1>2

\* With every hash known, one hash means one content, and the other way round.
LEMMA HashesTell ==
    ASSUME Settled
    PROVE  \A a, b \in attached :
              AllHashed(a) /\ AllHashed(b) =>
                 (Summaries[a].hash = Summaries[b].hash <=> Holds(a) = Holds(b))
<1> DEFINE P(a) == \A b \in attached : AllHashed(b) =>
                      (Summaries[a].hash = Summaries[b].hash <=> Holds(a) = Holds(b))
           S == { a \in Dirs : a \in attached /\ AllHashed(a) => P(a) }
<1>1. ASSUME NEW a \in Dirs, \A c \in Dirs \ {Root} : Parent[c] = a => c \in S
      PROVE  a \in S
  <2> SUFFICES ASSUME a \in attached, AllHashed(a) PROVE P(a)
    OBVIOUS
  <2>1. \A c \in Children(a) : c \in attached /\ c \in Dirs \ {Root} /\ Parent[c] = a /\ AllHashed(c)
    BY ChildrenAre, HashedIs DEF Settled, Base, Typed
  <2>2. \A c \in Children(a) : P(c)
    BY <1>1, <2>1
  <2> QED
    BY <2>2, HashesTellOne
<1>2. S \in SUBSET Dirs
  OBVIOUS
<1>3. S = Dirs
  <2> HIDE DEF S
  <2> QED
    BY <1>1, <1>2, FromTheLeaves
<1> QED
  BY <1>3 DEF Settled, Base, Typed, Hanging

\* Folders that hold the same have one size.
LEMMA SizesFollow ==
    ASSUME Settled, NEW a \in attached, NEW b \in attached, Holds(a) = Holds(b)
    PROVE  total[a].size = total[b].size
<1> DEFINE f == Weight("size")
           key(d) == [e \in Held(d) |-> <<Path[d][e], Content[files[e]]>>]
           g == [x \in Holds(a) |-> CHOOSE n : \E v \in Versions : Content[v] = x[2] /\ n = Size[v]]
<1>1. ASSUME NEW d \in attached, Holds(d) = Holds(a)
      PROVE  total[d].size = SumFunctionOnSet(g, Holds(a))
  <2> DEFINE H == Held(d)
             R == (Below[d] \cap attached) \ H
             k == key(d)
  <2>1. d \in Dirs /\ files \in [Dirs -> Versions \cup {Absent}] /\ total[d] = Sum(d)
    BY DEF Settled, Base, Typed, Hanging
  <2>2. /\ IsFiniteSet(H) /\ IsFiniteSet(R) /\ H \cap R = {} /\ H \cup R = Below[d] \cap attached
        /\ H \subseteq Dirs /\ R \subseteq Dirs /\ H \subseteq Below[d]
    BY <2>1, UnderFinite, FS_Subset DEF Held
  <2>3. \A e \in H \cup R : f[e] = SizeOf(files[e]) /\ f[e] \in Int
    BY <2>1, <2>2, WeightsTyped DEF Weight
  <2>4. \A e \in R : f[e] = 0
    BY <2>2, <2>3 DEF Held, SizeOf
  <2>5. total[d].size = SumFunctionOnSet(f, H \cup R)
    BY <2>1, <2>2, SumIs DEF Measures, Sum
  <2>6. SumFunctionOnSet(f, H \cup R) = SumFunctionOnSet(f, H)
    <3> HIDE DEF f, H, R
    <3>1. SumFunctionOnSet(f, H \cup R) = SumFunctionOnSet(f, H) + SumFunctionOnSet(f, R)
      BY <2>2, <2>3, SumOfTwo
    <3>2. SumFunctionOnSet(f, R) = 0 /\ SumFunctionOnSet(f, H) \in Int
      BY <2>2, <2>3, <2>4, SumOfZeros, SumIsInt
    <3> QED
      BY <3>1, <3>2
  <2>7. \A e \in H : f[e] = g[k[e]] /\ g[k[e]] \in Int
    <3> TAKE e \in H
    <3>1. files[e] \in Versions /\ f[e] = Size[files[e]] /\ f[e] \in Int
      BY <2>1, <2>2, <2>3 DEF Held, SizeOf
    <3>2. k[e] = <<Path[d][e], Content[files[e]]>> /\ k[e] \in Holds(a)
      BY <1>1, RelativeIs
    <3>3. k[e][2] = Content[files[e]]
      BY <3>2
    <3>4. g[k[e]] = CHOOSE n : \E v \in Versions : Content[v] = Content[files[e]] /\ n = Size[v]
      <4> HIDE DEF k
      <4> QED
        BY <3>2, <3>3
    <3>5. \A n : (\E v \in Versions : Content[v] = Content[files[e]] /\ n = Size[v]) <=> n = Size[files[e]]
      BY <3>1, VersionsAssumption DEF VersionsAssumption
    <3>6. (CHOOSE n : \E v \in Versions : Content[v] = Content[files[e]] /\ n = Size[v]) = Size[files[e]]
      BY <3>5
    <3> HIDE DEF g, k, f
    <3> QED
      BY <3>1, <3>4, <3>6
  <2>8. \A x, y \in H : k[x] = k[y] => x = y
    <3> TAKE x, y \in H
    <3>1. HAVE k[x] = k[y]
    <3>2. Path[d][x] = Path[d][y]
      BY <3>1
    <3> QED
      BY <2>1, <2>2, <3>2, PathsDiffer
  <2>9. { k[e] : e \in H } = Holds(a)
    BY <1>1, RelativeIs
  <2>10. SumFunctionOnSet(f, H) = SumFunctionOnSet(g, { k[e] : e \in H })
    <3> HIDE DEF f, g, k, H
    <3> QED
      BY <2>2, <2>7, <2>8, SumsMatch
  <2> HIDE DEF f, g, k, H, R
  <2> QED
    BY <2>5, <2>6, <2>9, <2>10
<1> HIDE DEF g
<1> QED
  BY <1>1

\* The groups of the index, when it is that of the tree.
LEMMA GroupsAre ==
    ASSUME Settled
    PROVE  \A G \in Groups(Summaries) : \A a, b \in G :
              /\ a \in attached /\ b \in attached
              /\ Summaries[a].hash = Summaries[b].hash
<1> SUFFICES ASSUME NEW G \in Groups(Summaries), NEW a \in G, NEW b \in G
             PROVE  /\ a \in attached /\ b \in attached
                    /\ Summaries[a].hash = Summaries[b].hash
  OBVIOUS
<1>1. PICK d \in Listed(Summaries) : G = Alike(Summaries, d)
  BY DEF Groups
<1>2. /\ a \in Listed(Summaries) /\ b \in Listed(Summaries)
      /\ Summaries[a].hash = Summaries[d].hash /\ Summaries[b].hash = Summaries[d].hash
  BY <1>1 DEF Alike
<1>3. \A e \in Listed(Summaries) : e \in attached
  <2> SUFFICES ASSUME NEW e \in Listed(Summaries), e \notin attached PROVE FALSE
    OBVIOUS
  <2>1. e \in Dirs /\ Summaries[e].hash # <<>>
    BY DEF Listed
  <2>2. Summaries[e] = NoEntry
    BY <2>1, SummariesAre DEF Digest, Settled, Base, Typed, Hanging
  <2> QED
    BY <2>1, <2>2 DEF NoEntry
<1> QED
  BY <1>2, <1>3

LEMMA ClonesHoldTheSame ==
    ASSUME Settled, NEW G \in Groups(Summaries), Confident(Summaries, G),
           NEW a \in G, NEW b \in G
    PROVE  Same(a, b)
<1>1. a \in attached /\ b \in attached /\ Summaries[a].hash = Summaries[b].hash
  BY GroupsAre
<1>2. AllHashed(a) /\ AllHashed(b)
  BY <1>1, SureIs DEF Confident
<1> QED
  BY <1>1, <1>2, HashesTell DEF Same, Holds

LEMMA TheSameAreClones ==
    ASSUME Settled, NEW a \in attached, NEW b \in attached, a # b,
           Same(a, b), Relative(a) # {}, AllHashed(a), AllHashed(b)
    PROVE  \E G \in Groups(Summaries) : {a, b} \subseteq G
<1>1. a \in Dirs /\ b \in Dirs /\ Holds(a) = Holds(b)
  BY DEF Settled, Base, Typed, Hanging, Same, Holds
<1>2. Held(a) # {} /\ Held(b) # {}
  <2>1. Held(a) # {}
    BY RelativeIs
  <2> QED
    BY <1>1, <2>1, HashIsEmpty
<1>3. Summaries[a].hash = Summaries[b].hash /\ Summaries[a].hash # <<>>
  BY <1>1, <1>2, HashesTell, HashIsEmpty
<1>4. Summaries[a].size = Summaries[b].size
  BY <1>1, <1>2, SummaryIs, SizesFollow
<1>5. Summaries[a].count # 0 /\ Summaries[b].count # 0
  BY <1>2, SummaryIs, CountsSay
<1> DEFINE G == Alike(Summaries, a)
<1>6. a \in G /\ b \in G /\ a \in Listed(Summaries)
  BY <1>1, <1>3, <1>4, <1>5 DEF Alike, Listed
<1>7. Cardinality(G) > 1
  <2>1. IsFiniteSet(G)
    BY FS_Subset, TreeAssumption DEF Alike, Listed, TreeAssumption
  <2> HIDE DEF G
  <2>2. IsFiniteSet({a, b}) /\ Cardinality({a, b}) = 2
    <3>1. IsFiniteSet({a}) /\ Cardinality({a}) = 1 /\ b \notin {a} /\ {a, b} = {a} \cup {b}
      BY FS_Singleton
    <3> QED
      BY <3>1, FS_AddElement
  <2>3. Cardinality({a, b}) <= Cardinality(G)
    BY <1>6, <2>1, FS_Subset
  <2>4. Cardinality(G) \in Nat
    BY <2>1, FS_CardinalityType
  <2> QED
    BY <2>2, <2>3, <2>4
<1>8. G \in Groups(Summaries)
  BY <1>6, <1>7 DEF Groups
<1> QED
  BY <1>6, <1>8

LEMMA TopmostShareNothing ==
    \A s : LET shown == Query(s, 0, TRUE) IN
        \A G, H \in shown : G # H => \A d \in G : H \cap Above[d] = {}
  BY DEF Query, IsTopLevel

\* Folders shown as clones on the strength of hashes hold the same contents under the
\* same names, folders that do, with every hash known, are shown, and the topmost
\* clones lie in no other (computeAndCollectFolderMerkle, rebuild, Query): whatever
\* the shape of the tree, an empty folder in one of them makes no difference.
THEOREM ClonesAreExactCorrect == Spec => []ClonesAreExact
<1>1. Base /\ Balanced => ClonesAreExact
  <2> SUFFICES ASSUME Base, Balanced PROVE ClonesAreExact
    OBVIOUS
  <2>1. ASSUME Fresh, Quiet, ~drifted
        PROVE  /\ \A G \in Groups(indexed) : Confident(indexed, G) => \A a, b \in G : Same(a, b)
               /\ \A a, b \in attached :
                     a # b /\ Same(a, b) /\ Relative(a) # {} /\ AllHashed(a) /\ AllHashed(b)
                         => \E G \in Groups(indexed) : {a, b} \subseteq G
    <3>1. Settled /\ indexed = Summaries
      BY <2>1, TotalsAreSums DEF Settled, Fresh
    <3> QED
      BY <3>1, ClonesHoldTheSame, TheSameAreClones
  <2> QED
    BY <2>1, TopmostShareNothing DEF ClonesAreExact
<1> QED
  BY <1>1, BalanceHolds, PTL

\* The files of two folders that hold the same, all hashed, match one by one.
LEMMA FilesMatch ==
    ASSUME Settled, NEW a \in attached, NEW b \in attached, Same(a, b), AllHashed(a), AllHashed(b)
    PROVE  Modified(Relative(a), Relative(b)) = {} /\ OnlyIn(Relative(a), Relative(b)) = {}
<1>1. \A f \in Relative(a) : \E g \in Relative(b) : g[1] = f[1] /\ Content[g[2]] = Content[f[2]]
  <2> TAKE f \in Relative(a)
  <2>1. <<f[1], Content[f[2]]>> \in { <<g[1], Content[g[2]]>> : g \in Relative(b) }
    BY DEF Same
  <2> QED
    BY <2>1
<1>2. \A g, h \in Relative(b) : g[1] = h[1] => g = h
  <2> SUFFICES ASSUME NEW g \in Relative(b), NEW h \in Relative(b), g[1] = h[1] PROVE g = h
    OBVIOUS
  <2>1. PICK x \in Held(b) : g = <<Path[b][x], files[x]>>
    BY RelativeIs
  <2>2. PICK y \in Held(b) : h = <<Path[b][y], files[y]>>
    BY RelativeIs
  <2>3. Path[b][x] = Path[b][y]
    BY <2>1, <2>2
  <2>4. x = y
    BY <2>3, PathsDiffer DEF Held, Settled, Base, Typed, Hanging
  <2> QED
    BY <2>1, <2>2, <2>4
<1>3. \A f \in Relative(a), g \in Relative(b) : f[1] = g[1] => Identical(f, g)
  <2> SUFFICES ASSUME NEW f \in Relative(a), NEW g \in Relative(b), f[1] = g[1]
               PROVE  Identical(f, g)
    OBVIOUS
  <2>1. Content[g[2]] = Content[f[2]]
    BY <1>1, <1>2
  <2>2. f[2] \in Hashed /\ g[2] \in Hashed
    BY DEF AllHashed
  <2> QED
    BY <2>1, <2>2, VersionsAssumption DEF Identical, VersionsAssumption
<1> QED
  BY <1>1, <1>3 DEF Modified, OnlyIn

\* A comparison claims a full match exactly when both folders are hashed to the last
\* file and hold the same contents: the walk over the files and the one over the
\* hashes agree (CompareFolders).
THEOREM MatchIsExactCorrect == Spec => []MatchIsExact
<1>1. Base /\ Balanced => MatchIsExact
  <2> SUFFICES ASSUME Base, Balanced, Quiet, ~drifted, NEW a \in attached, NEW b \in attached
               PROVE  Is100PercentMatch(Summaries, a, b) <=> Same(a, b) /\ AllHashed(a) /\ AllHashed(b)
    BY DEF MatchIsExact
  <2>1. Settled
    BY TotalsAreSums DEF Settled
  <2>2. ASSUME Is100PercentMatch(Summaries, a, b) PROVE Same(a, b) /\ AllHashed(a) /\ AllHashed(b)
    <3>1. AllHashed(a) /\ AllHashed(b) /\ Summaries[a].hash = Summaries[b].hash
      BY <2>2 DEF Is100PercentMatch, AllHashed
    <3> QED
      BY <2>1, <3>1, HashesTell DEF Same, Holds
  <2>3. ASSUME Same(a, b), AllHashed(a), AllHashed(b) PROVE Is100PercentMatch(Summaries, a, b)
    <3>1. Summaries[a].hash = Summaries[b].hash
      BY <2>1, <2>3, HashesTell DEF Same, Holds
    <3>2. Modified(Relative(a), Relative(b)) = {} /\ OnlyIn(Relative(a), Relative(b)) = {}
      BY <2>1, <2>3, FilesMatch
    <3>3. OnlyIn(Relative(b), Relative(a)) = {}
      <4>1. Same(b, a)
        BY <2>3 DEF Same
      <4> QED
        BY <2>1, <2>3, <4>1, FilesMatch
    <3>4. \A f \in Relative(a) \cup Relative(b) : f[2] \in Hashed
      BY <2>3 DEF AllHashed
    <3> QED
      BY <3>1, <3>2, <3>3, <3>4 DEF Is100PercentMatch
  <2> QED
    BY <2>2, <2>3
<1> QED
  BY <1>1, BalanceHolds, PTL
=============================================================================
