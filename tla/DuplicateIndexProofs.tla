------------------------ MODULE DuplicateIndexProofs ------------------------
(***************************************************************************)
(* The three maps of the duplicate index tell one story, after any         *)
(* sequence of operations, for any paths, hashes and ways of folding them  *)
(* into keys.  The inductive invariant says it of four values, so that the *)
(* lemmas can say it of the maps in the middle of an operation too: after  *)
(* the old version of a path is detached, and before the new one is filed. *)
(*                                                                         *)
(* The maps implement the promise of Duplicates (KeepsPromise), and what a *)
(* query sums over its groups is what the files say (AnswersAddUp).  A sum *)
(* over a set is a recursive function of its subsets: that there is one,   *)
(* and what it adds up to, is shown by looking at a smallest subset of     *)
(* which it would not hold (Smallest).                                     *)
(***************************************************************************)
EXTENDS DuplicateIndex, TLAPS, FiniteSetTheorems

-----------------------------------------------------------------------------
\* Sums.  MapThenSumSet is a function of the subsets of a set, defined by what is
\* left when one element is taken out; the total of f over S, with f a function.
Some(s) == CHOOSE x \in s : TRUE
AddOne(f, g, s) == IF s = {} THEN 0 ELSE f[Some(s)] + g[s \ {Some(s)}]
Sums(f, g, S)   == g = [s \in SUBSET S |-> AddOne(f, g, s)]
Total(f, S)     == MapThenSumSet(LAMBDA x : f[x], S)

\* Of some subsets of a finite set, one has none of the others in it.
LEMMA Smallest ==
    ASSUME NEW S, IsFiniteSet(S), NEW T \in SUBSET (SUBSET S), T # {}
    PROVE  \E s \in T : \A t \in T : t \subseteq s => t = s
<1>1. IsWellFoundedOn(StrictSubsetOrdering(S), SUBSET S)
  BY FS_StrictSubsetOrderingWellFounded, FS_FiniteSubsetsOfFinite
<1>2. PICK s \in T : \A t \in T : ~(<<t, s>> \in StrictSubsetOrdering(S))
  BY <1>1, WFMin
<1> QED
  BY <1>2 DEF StrictSubsetOrdering

LEMMA SomeIsIn == \A s : s # {} => Some(s) \in s
  BY DEF Some

\* The sums of f over the subsets of two sets agree on what is in both.
LEMMA SumsAgree ==
    ASSUME NEW S, IsFiniteSet(S), NEW R, NEW f, NEW g, NEW h, Sums(f, g, S), Sums(f, h, R),
           NEW s \in SUBSET (S \cap R)
    PROVE  g[s] = h[s]
<1> DEFINE apart == { t \in SUBSET (S \cap R) : g[t] # h[t] }
<1> SUFFICES ASSUME apart # {} PROVE FALSE
  OBVIOUS
<1>1. PICK t \in apart : \A u \in apart : u \subseteq t => u = t
  <2>1. apart \in SUBSET (SUBSET S) /\ apart # {}
    OBVIOUS
  <2> HIDE DEF apart
  <2> QED
    BY <2>1, Smallest
<1>2. g[t] = AddOne(f, g, t) /\ h[t] = AddOne(f, h, t)
  BY DEF Sums
<1>3. CASE t = {}
  BY <1>2, <1>3 DEF AddOne
<1>4. CASE t # {}
  <2>1. Some(t) \in t
    BY <1>4, SomeIsIn
  <2>2. g[t \ {Some(t)}] = h[t \ {Some(t)}]
    BY <1>1, <2>1
  <2> QED
    BY <1>2, <1>4, <2>2 DEF AddOne
<1> QED
  BY <1>3, <1>4

\* There are such sums.
LEMMA SumsExist ==
    ASSUME NEW S, IsFiniteSet(S), NEW f
    PROVE  \E g : Sums(f, g, S)
<1> DEFINE none == { s \in SUBSET S : ~ \E g : Sums(f, g, s) }
<1> SUFFICES ASSUME none # {} PROVE FALSE
  OBVIOUS
<1>1. PICK s \in none : \A u \in none : u \subseteq s => u = s
  <2>1. none \in SUBSET (SUBSET S) /\ none # {}
    OBVIOUS
  <2> HIDE DEF none
  <2> QED
    BY <2>1, Smallest
<1> DEFINE Of(u) == CHOOSE g : Sums(f, g, u)
           below == [u \in SUBSET s |-> Of(u)[u]]
           all   == [t \in SUBSET s |-> AddOne(f, below, t)]
<1>2. \A u \in SUBSET s : u # s => Sums(f, Of(u), u)
  BY <1>1
<1>3. \A u \in SUBSET s : IsFiniteSet(u)
  BY FS_Subset
<1> HIDE DEF Of
<1>4. ASSUME NEW t \in SUBSET s, t # s
      PROVE  all[t] = below[t]
  <2>1. Sums(f, Of(t), t) /\ Of(t)[t] = AddOne(f, Of(t), t)
    BY <1>2, <1>4 DEF Sums
  <2>2. CASE t = {}
    BY <2>1, <2>2 DEF AddOne
  <2>3. CASE t # {}
    <3> DEFINE u == t \ {Some(t)}
    <3>1. Some(t) \in t /\ u \in SUBSET s /\ u # s /\ u \in SUBSET t
      BY <2>3, SomeIsIn
    <3>2. Sums(f, Of(u), u)
      BY <1>2, <3>1
    <3>3. Of(t)[u] = Of(u)[u]
      BY <1>3, <2>1, <3>1, <3>2, SumsAgree
    <3> QED
      BY <2>1, <2>3, <3>1, <3>3 DEF AddOne
  <2> QED
    BY <2>2, <2>3
<1>5. \A t \in SUBSET s : AddOne(f, below, t) = AddOne(f, all, t)
  <2> SUFFICES ASSUME NEW t \in SUBSET s, t # {}
               PROVE  below[t \ {Some(t)}] = all[t \ {Some(t)}]
    BY DEF AddOne
  <2>1. Some(t) \in t
    BY SomeIsIn
  <2> QED
    BY <1>4, <2>1
<1>6. Sums(f, all, s)
  <2> HIDE DEF below
  <2> QED
    BY <1>5 DEF Sums
<1> QED
  BY <1>1, <1>6

LEMMA TotalIsSum ==
    ASSUME NEW S, IsFiniteSet(S), NEW f
    PROVE  \E g : Sums(f, g, S) /\ Total(f, S) = g[S]
<1>1. Total(f, S) = (CHOOSE g : Sums(f, g, S))[S]
  BY DEF Total, MapThenSumSet, MapThenFoldSet, Sums, AddOne, Some
<1> QED
  BY <1>1, SumsExist

\* The total of nothing, and of a set without the element that is taken out.
LEMMA TotalUnfolds ==
    ASSUME NEW S, IsFiniteSet(S), NEW f
    PROVE  Total(f, S) = IF S = {} THEN 0 ELSE f[Some(S)] + Total(f, S \ {Some(S)})
<1>1. PICK g : Sums(f, g, S) /\ Total(f, S) = g[S]
  BY TotalIsSum
<1>2. Total(f, S) = AddOne(f, g, S)
  BY <1>1 DEF Sums
<1>3. CASE S = {}
  BY <1>2, <1>3 DEF AddOne
<1>4. CASE S # {}
  <2> DEFINE R == S \ {Some(S)}
  <2>1. PICK h : Sums(f, h, R) /\ Total(f, R) = h[R]
    BY TotalIsSum, FS_Subset
  <2>2. g[R] = h[R]
    BY <1>1, <2>1, SumsAgree
  <2> QED
    BY <1>2, <1>4, <2>1, <2>2 DEF AddOne
<1> QED
  BY <1>3, <1>4

LEMMA TotalIsInt ==
    ASSUME NEW S, IsFiniteSet(S), NEW f, \A x \in S : f[x] \in Int
    PROVE  Total(f, S) \in Int
<1> DEFINE not == { s \in SUBSET S : Total(f, s) \notin Int }
<1> SUFFICES ASSUME not # {} PROVE FALSE
  OBVIOUS
<1>1. PICK s \in not : \A u \in not : u \subseteq s => u = s
  <2>1. not \in SUBSET (SUBSET S) /\ not # {}
    OBVIOUS
  <2> HIDE DEF not
  <2> QED
    BY <2>1, Smallest
<1>2. Total(f, s) = IF s = {} THEN 0 ELSE f[Some(s)] + Total(f, s \ {Some(s)})
  BY FS_Subset, TotalUnfolds
<1>3. CASE s # {}
  <2>1. Some(s) \in s
    BY <1>3, SomeIsIn
  <2>2. Total(f, s \ {Some(s)}) \in Int
    BY <1>1, <2>1
  <2> QED
    BY <1>2, <1>3, <2>1, <2>2
<1> QED
  BY <1>2, <1>3

\* It does not matter which element is taken out.
LEMMA TotalOfAny ==
    ASSUME NEW S, IsFiniteSet(S), NEW f, \A x \in S : f[x] \in Int, NEW e \in S
    PROVE  Total(f, S) = f[e] + Total(f, S \ {e})
<1> DEFINE wrong == { s \in SUBSET S : \E x \in s : Total(f, s) # f[x] + Total(f, s \ {x}) }
<1> SUFFICES ASSUME wrong # {} PROVE FALSE
  OBVIOUS
<1>1. PICK s \in wrong : \A u \in wrong : u \subseteq s => u = s
  <2>1. wrong \in SUBSET (SUBSET S) /\ wrong # {}
    OBVIOUS
  <2> HIDE DEF wrong
  <2> QED
    BY <2>1, Smallest
<1>2. PICK x \in s : Total(f, s) # f[x] + Total(f, s \ {x})
  BY <1>1
<1> DEFINE y == Some(s)
<1>3. y \in s /\ Total(f, s) = f[y] + Total(f, s \ {y})
  BY <1>2, SomeIsIn, TotalUnfolds, FS_Subset
<1> HIDE DEF y
<1> DEFINE rest == Total(f, (s \ {x}) \ {y})
<1>4. CASE x = y
  BY <1>2, <1>3, <1>4
<1>5. CASE x # y
  <2>1. (s \ {y}) \ {x} = (s \ {x}) \ {y}
    OBVIOUS
  <2>2. Total(f, s \ {y}) = f[x] + rest
    BY <1>1, <1>2, <1>3, <1>5, <2>1
  <2>3. Total(f, s \ {x}) = f[y] + rest
    BY <1>1, <1>2, <1>3, <1>5
  <2>4. rest \in Int
    BY FS_Subset, TotalIsInt
  <2>5. f[x] \in Int /\ f[y] \in Int
    BY <1>2, <1>3
  <2> HIDE DEF rest
  <2> QED
    BY <1>2, <1>3, <2>2, <2>3, <2>4, <2>5
<1> QED
  BY <1>4, <1>5

\* Numbers that go one to one have one total.
LEMMA TotalsMatch ==
    ASSUME NEW S, IsFiniteSet(S), NEW f, NEW g, NEW b,
           \A x \in S : f[x] = g[b[x]] /\ g[b[x]] \in Int,
           \A x, y \in S : b[x] = b[y] => x = y
    PROVE  Total(f, S) = Total(g, { b[x] : x \in S })
<1> DEFINE image(s) == { b[x] : x \in s }
           apart == { s \in SUBSET S : Total(f, s) # Total(g, image(s)) }
<1> SUFFICES ASSUME apart # {} PROVE FALSE
  OBVIOUS
<1>1. PICK s \in apart : \A u \in apart : u \subseteq s => u = s
  <2>1. apart \in SUBSET (SUBSET S) /\ apart # {}
    OBVIOUS
  <2> HIDE DEF apart
  <2> QED
    BY <2>1, Smallest
<1>2. IsFiniteSet(s) /\ IsFiniteSet(image(s))
  <2>1. IsFiniteSet(s)
    BY FS_Subset
  <2> DEFINE h == [x \in s |-> b[x]]
  <2>2. h \in Surjection(s, image(s))
    BY DEF Surjection
  <2> QED
    BY <2>1, <2>2, FS_Surjection
<1>3. CASE s = {}
  <2>1. Total(f, s) = 0 /\ image(s) = {}
    BY <1>2, <1>3, TotalUnfolds
  <2>2. Total(g, {}) = 0
    BY TotalUnfolds, FS_EmptySet
  <2> QED
    BY <1>1, <2>1, <2>2
<1>4. CASE s # {}
  <2>1. PICK e \in s : TRUE
    BY <1>4
  <2>2. Total(f, s) = f[e] + Total(f, s \ {e})
    BY <1>2, TotalOfAny
  <2>3. image(s \ {e}) = image(s) \ {b[e]} /\ b[e] \in image(s)
    BY <2>1
  <2>4. Total(g, image(s)) = g[b[e]] + Total(g, image(s) \ {b[e]})
    <3>1. \A z \in image(s) : g[z] \in Int
      OBVIOUS
    <3> HIDE DEF image
    <3> QED
      BY <1>2, <2>3, <3>1, TotalOfAny
  <2>5. Total(f, s \ {e}) = Total(g, image(s \ {e}))
    BY <1>1, <2>1
  <2> QED
    BY <1>1, <2>1, <2>2, <2>3, <2>4, <2>5
<1> QED
  BY <1>3, <1>4

-----------------------------------------------------------------------------
USE DuplicateIndexAssumption DEF DuplicateIndexAssumption

Typed(t, fs, ld, sg) ==
    /\ t \subseteq Nodes
    /\ fs \in [Keys -> SUBSET Nodes]
    /\ ld \in [Keys -> Hashes \cup {NoHash}]
    /\ sg \in [Keys -> SUBSET Nodes]

\* What a map holds is tracked and under its key, and what is tracked is held.
Held(t, fs, sg) ==
    /\ \A k \in Keys : \A f \in fs[k] \cup sg[k] : f \in t /\ Key[f.hash] = k
    /\ \A f \in t : f \in fs[Key[f.hash]] \cup sg[Key[f.hash]]

Shaped(fs, ld, sg) ==
    \A k \in Keys :
        /\ fs[k] # {} => Several(fs[k]) /\ sg[k] = {}
        /\ ~Several(sg[k])
        /\ \A f \in fs[k] : f.hash = ld[k]
        /\ IsFiniteSet(fs[k])

Single(t) == \A f, g \in t : f.path = g.path => f = g

Sound(t, fs, ld, sg) ==
    Typed(t, fs, ld, sg) /\ Held(t, fs, sg) /\ Shaped(fs, ld, sg) /\ Single(t)

IInv == Sound(tracked, files, lead, single) /\ wasted \in [Keys -> Int]

\* A node has its three parts, and its key is one of the keys.
LEMMA NodeParts ==
    \A f \in Nodes : f.path \in Paths /\ f.hash \in Hashes /\ Key[f.hash] \in Keys
  BY DEF Nodes

LEMMA WasteIsInt ==
    ASSUME NEW S, IsFiniteSet(S), NEW h \in Hashes
    PROVE  Waste(S, h) \in Int
  BY FS_CardinalityType DEF Waste

-----------------------------------------------------------------------------
\* Detaching tracked nodes leaves sound maps (untrackLocked, detachLocked).
LEMMA DetachSound ==
    ASSUME IInv, NEW R \in SUBSET tracked
    PROVE  Sound(tracked \ R, FilesLess(R), LeadLess(R), SingleLess(R))
<1> DEFINE fs == FilesLess(R)
           sg == SingleLess(R)
<1>1. \A k \in Keys : Left(R, k) \in SUBSET files[k] /\ IsFiniteSet(Left(R, k))
  BY FS_Subset DEF IInv, Sound, Shaped, Left
<1>2. \A k \in Keys : /\ files[k] # {} => single[k] = {}
                      /\ ~Several(single[k])
  BY DEF IInv, Sound, Shaped
<1>3. ASSUME NEW k \in Keys
      PROVE  \/ files[k] = {} /\ fs[k] = {} /\ sg[k] = single[k] \ Own(R, k)
             \/ files[k] # {} /\ Several(Left(R, k)) /\ fs[k] = Left(R, k) /\ sg[k] = {}
             \/ files[k] # {} /\ ~Several(Left(R, k)) /\ fs[k] = {} /\ sg[k] = Left(R, k)
  <2>1. CASE files[k] = {}
    BY <2>1 DEF FilesLess, SingleLess, Left, Several
  <2>2. CASE files[k] # {}
    BY <2>2, <1>2 DEF FilesLess, SingleLess
  <2> QED
    BY <2>1, <2>2
<1>4. fs \in [Keys -> SUBSET Nodes] /\ sg \in [Keys -> SUBSET Nodes]
  <2>1. \A k \in Keys : fs[k] \in SUBSET Nodes /\ sg[k] \in SUBSET Nodes
    BY <1>1, <1>3 DEF IInv, Sound, Typed
  <2> QED
    BY <2>1 DEF FilesLess, SingleLess
<1>5. LeadLess(R) \in [Keys -> Hashes \cup {NoHash}]
  BY DEF LeadLess, IInv, Sound, Typed
<1>6. \A k \in Keys : Several(Left(R, k)) => LeadLess(R)[k] = lead[k]
  BY DEF LeadLess
<1> HIDE DEF fs, sg
<1>7. ASSUME NEW k \in Keys
      PROVE  fs[k] \cup sg[k] = (files[k] \cup single[k]) \ Own(R, k)
  <2>1. Left(R, k) = files[k] \ Own(R, k)
    BY DEF Left
  <2> QED
    BY <1>2, <1>3, <2>1
<1>8. Held(tracked \ R, fs, sg)
  <2>1. ASSUME NEW k \in Keys, NEW f \in fs[k] \cup sg[k]
        PROVE  f \in tracked \ R /\ Key[f.hash] = k
    BY <1>7, <2>1 DEF IInv, Sound, Held, Own
  <2>2. ASSUME NEW f \in tracked \ R
        PROVE  f \in fs[Key[f.hash]] \cup sg[Key[f.hash]]
    <3>1. Key[f.hash] \in Keys
      BY NodeParts DEF IInv, Sound, Typed
    <3>2. f \in files[Key[f.hash]] \cup single[Key[f.hash]] /\ f \notin Own(R, Key[f.hash])
      BY <2>2 DEF IInv, Sound, Held, Own
    <3> QED
      BY <3>1, <3>2, <1>7
  <2> QED
    BY <2>1, <2>2 DEF Held
<1>9. Shaped(fs, LeadLess(R), sg)
  <2> SUFFICES ASSUME NEW k \in Keys
               PROVE  /\ fs[k] # {} => Several(fs[k]) /\ sg[k] = {}
                      /\ ~Several(sg[k])
                      /\ \A f \in fs[k] : f.hash = LeadLess(R)[k]
                      /\ IsFiniteSet(fs[k])
    BY DEF Shaped
  <2>1. fs[k] # {} => Several(fs[k]) /\ sg[k] = {}
    BY <1>3
  <2>2. ~Several(sg[k])
    BY <1>2, <1>3 DEF Several
  <2>3. \A f \in fs[k] : f.hash = LeadLess(R)[k]
    BY <1>1, <1>3, <1>6 DEF IInv, Sound, Shaped
  <2>4. IsFiniteSet(fs[k])
    BY <1>1, <1>3, FS_EmptySet
  <2> QED
    BY <2>1, <2>2, <2>3, <2>4
<1>10. Single(tracked \ R)
  BY DEF IInv, Sound, Single
<1>11. tracked \ R \subseteq Nodes
  BY DEF IInv, Sound, Typed
<1>12. Sound(tracked \ R, fs, LeadLess(R), sg)
  BY <1>4, <1>5, <1>8, <1>9, <1>10, <1>11 DEF Sound, Typed
<1> QED
  BY <1>12 DEF fs, sg

LEMMA DetachWasted ==
    ASSUME IInv, NEW R \in SUBSET tracked
    PROVE  WastedLess(R) \in [Keys -> Int]
<1> SUFFICES ASSUME NEW k \in Keys
             PROVE  (CASE ~Several(Left(R, k))  -> 0
                       [] Left(R, k) = files[k] -> wasted[k]
                       [] OTHER                 -> Waste(Left(R, k), lead[k])) \in Int
  BY DEF WastedLess
<1>1. CASE Several(Left(R, k)) /\ Left(R, k) # files[k]
  <2>1. IsFiniteSet(Left(R, k))
    BY FS_Subset DEF IInv, Sound, Shaped, Left
  <2>2. lead[k] \in Hashes
    <3>1. PICK f \in files[k] : TRUE
      BY <1>1 DEF Several, Left
    <3> QED
      BY <3>1, NodeParts DEF IInv, Sound, Shaped, Typed
  <2> QED
    BY <1>1, <2>1, <2>2, WasteIsInt
<1>2. CASE ~(Several(Left(R, k)) /\ Left(R, k) # files[k])
  BY <1>2 DEF IInv
<1> QED
  BY <1>1, <1>2

-----------------------------------------------------------------------------
\* A node of a path that has none joins sound maps: a group, the file that was
\* alone, or nobody (fileLocked).
New(t, f) == f \in Nodes /\ \A g \in t : g.path # f.path

\* What holds of all keys but that of f, and of f's own, is all of Held.
LEMMA HeldMore ==
    ASSUME NEW t, NEW fs, NEW ld, NEW sg, Sound(t, fs, ld, sg),
           NEW f, New(t, f), NEW fs2, NEW sg2,
           fs2[Key[f.hash]] \cup sg2[Key[f.hash]] = fs[Key[f.hash]] \cup sg[Key[f.hash]] \cup {f},
           \A k \in Keys \ {Key[f.hash]} : fs2[k] = fs[k] /\ sg2[k] = sg[k]
    PROVE  Held(t \cup {f}, fs2, sg2) /\ Single(t \cup {f}) /\ t \cup {f} \subseteq Nodes
<1>1. t \cup {f} \subseteq Nodes
  BY DEF New, Sound, Typed
<1>2. Single(t \cup {f})
  BY DEF New, Sound, Single
<1>3. ASSUME NEW k \in Keys, NEW g \in fs2[k] \cup sg2[k]
      PROVE  g \in t \cup {f} /\ Key[g.hash] = k
  <2>1. CASE k = Key[f.hash]
    BY <1>3, <2>1 DEF Sound, Held
  <2>2. CASE k # Key[f.hash]
    BY <1>3, <2>2 DEF Sound, Held
  <2> QED
    BY <2>1, <2>2
<1>4. ASSUME NEW g \in t \cup {f}
      PROVE  g \in fs2[Key[g.hash]] \cup sg2[Key[g.hash]]
  <2>1. CASE g = f
    BY <2>1
  <2>2. CASE g \in t
    <3>1. Key[g.hash] \in Keys /\ g \in fs[Key[g.hash]] \cup sg[Key[g.hash]]
      BY <2>2, NodeParts DEF Sound, Typed, Held
    <3> QED
      BY <3>1
  <2> QED
    BY <1>4, <2>1, <2>2
<1> QED
  BY <1>1, <1>2, <1>3, <1>4 DEF Held

LEMMA JoinsGroup ==
    ASSUME NEW t, NEW fs, NEW ld, NEW sg, Sound(t, fs, ld, sg), NEW f, New(t, f),
           fs[Key[f.hash]] # {}, ld[Key[f.hash]] = f.hash
    PROVE  Sound(t \cup {f}, [fs EXCEPT ![Key[f.hash]] = fs[Key[f.hash]] \cup {f}], ld, sg)
<1> DEFINE fs2 == [fs EXCEPT ![Key[f.hash]] = fs[Key[f.hash]] \cup {f}]
<1>1. Key[f.hash] \in Keys /\ f \in Nodes
  BY NodeParts DEF New
<1>2. fs2 \in [Keys -> SUBSET Nodes]
  BY <1>1 DEF Sound, Typed
<1>3. fs2[Key[f.hash]] = fs[Key[f.hash]] \cup {f} /\ \A k \in Keys \ {Key[f.hash]} : fs2[k] = fs[k]
  BY <1>1 DEF Sound, Typed
<1> HIDE DEF fs2
<1>4. Held(t \cup {f}, fs2, sg) /\ Single(t \cup {f}) /\ t \cup {f} \subseteq Nodes
  BY <1>3, HeldMore
<1>5. Shaped(fs2, ld, sg)
  <2> SUFFICES ASSUME NEW k \in Keys
               PROVE  /\ fs2[k] # {} => Several(fs2[k]) /\ sg[k] = {}
                      /\ ~Several(sg[k])
                      /\ \A g \in fs2[k] : g.hash = ld[k]
                      /\ IsFiniteSet(fs2[k])
    BY DEF Shaped
  <2>1. CASE k # Key[f.hash]
    BY <1>3, <2>1 DEF Sound, Shaped
  <2>2. CASE k = Key[f.hash]
    <3>1. Several(fs[k]) /\ sg[k] = {} /\ IsFiniteSet(fs[k]) /\ \A g \in fs[k] : g.hash = ld[k]
      BY <2>2 DEF Sound, Shaped
    <3>2. Several(fs2[k]) /\ ~Several(sg[k])
      BY <1>3, <2>2, <3>1 DEF Several
    <3>3. IsFiniteSet(fs2[k])
      BY <1>3, <2>2, <3>1, FS_AddElement
    <3> QED
      BY <1>3, <2>2, <3>1, <3>2, <3>3
  <2> QED
    BY <2>1, <2>2
<1>6. Sound(t \cup {f}, fs2, ld, sg)
  BY <1>2, <1>4, <1>5 DEF Sound, Typed
<1> QED
  BY <1>6 DEF fs2

LEMMA MakesPair ==
    ASSUME NEW t, NEW fs, NEW ld, NEW sg, Sound(t, fs, ld, sg), NEW f, New(t, f),
           fs[Key[f.hash]] = {}, NEW other \in sg[Key[f.hash]], other.hash = f.hash
    PROVE  Sound(t \cup {f}, [fs EXCEPT ![Key[f.hash]] = sg[Key[f.hash]] \cup {f}],
                 [ld EXCEPT ![Key[f.hash]] = f.hash], [sg EXCEPT ![Key[f.hash]] = {}])
<1> DEFINE k0 == Key[f.hash]
           fs2 == [fs EXCEPT ![k0] = sg[k0] \cup {f}]
           ld2 == [ld EXCEPT ![k0] = f.hash]
           sg2 == [sg EXCEPT ![k0] = {}]
<1>1. k0 \in Keys /\ f \in Nodes /\ f.hash \in Hashes
  BY NodeParts DEF New
<1>2. sg[k0] = {other} /\ other # f
  <2>1. other \in t
    BY <1>1 DEF Sound, Held
  <2> QED
    BY <1>1, <2>1 DEF Sound, Shaped, Several, New
<1>3. fs2 \in [Keys -> SUBSET Nodes] /\ ld2 \in [Keys -> Hashes \cup {NoHash}] /\ sg2 \in [Keys -> SUBSET Nodes]
  BY <1>1 DEF Sound, Typed
<1>4. /\ fs2[k0] = {other, f} /\ ld2[k0] = f.hash /\ sg2[k0] = {}
      /\ \A k \in Keys \ {k0} : fs2[k] = fs[k] /\ ld2[k] = ld[k] /\ sg2[k] = sg[k]
  BY <1>1, <1>2 DEF Sound, Typed
<1> HIDE DEF fs2, ld2, sg2
<1>5. Held(t \cup {f}, fs2, sg2) /\ Single(t \cup {f}) /\ t \cup {f} \subseteq Nodes
  <2>1. fs2[Key[f.hash]] \cup sg2[Key[f.hash]] = fs[Key[f.hash]] \cup sg[Key[f.hash]] \cup {f}
    BY <1>2, <1>4
  <2>2. \A k \in Keys \ {Key[f.hash]} : fs2[k] = fs[k] /\ sg2[k] = sg[k]
    BY <1>4
  <2> QED
    BY ONLY <2>1, <2>2, HeldMore, Sound(t, fs, ld, sg), New(t, f)
<1>6. Shaped(fs2, ld2, sg2)
  <2> SUFFICES ASSUME NEW k \in Keys
               PROVE  /\ fs2[k] # {} => Several(fs2[k]) /\ sg2[k] = {}
                      /\ ~Several(sg2[k])
                      /\ \A g \in fs2[k] : g.hash = ld2[k]
                      /\ IsFiniteSet(fs2[k])
    BY DEF Shaped
  <2>1. CASE k # k0
    BY <1>4, <2>1 DEF Sound, Shaped
  <2>2. CASE k = k0
    <3>1. IsFiniteSet({other} \cup {f})
      BY FS_Singleton, FS_AddElement
    <3>2. {other} \cup {f} = {other, f}
      OBVIOUS
    <3> QED
      BY <1>2, <1>4, <2>2, <3>1, <3>2 DEF Several
  <2> QED
    BY <2>1, <2>2
<1>7. Sound(t \cup {f}, fs2, ld2, sg2)
  BY <1>3, <1>5, <1>6 DEF Sound, Typed
<1> QED
  BY <1>7 DEF fs2, ld2, sg2

LEMMA StaysAlone ==
    ASSUME NEW t, NEW fs, NEW ld, NEW sg, Sound(t, fs, ld, sg), NEW f, New(t, f),
           fs[Key[f.hash]] = {}, sg[Key[f.hash]] = {}
    PROVE  Sound(t \cup {f}, fs, ld, [sg EXCEPT ![Key[f.hash]] = {f}])
<1> DEFINE k0 == Key[f.hash]
           sg2 == [sg EXCEPT ![k0] = {f}]
<1>1. k0 \in Keys /\ f \in Nodes
  BY NodeParts DEF New
<1>2. sg2 \in [Keys -> SUBSET Nodes]
  BY <1>1 DEF Sound, Typed
<1>3. sg2[k0] = {f} /\ \A k \in Keys \ {k0} : sg2[k] = sg[k]
  BY <1>1 DEF Sound, Typed
<1> HIDE DEF sg2
<1>4. Held(t \cup {f}, fs, sg2) /\ Single(t \cup {f}) /\ t \cup {f} \subseteq Nodes
  <2>1. fs[Key[f.hash]] \cup sg2[Key[f.hash]] = fs[Key[f.hash]] \cup sg[Key[f.hash]] \cup {f}
    BY <1>3
  <2>2. \A k \in Keys \ {Key[f.hash]} : fs[k] = fs[k] /\ sg2[k] = sg[k]
    BY <1>3
  <2> QED
    BY ONLY <2>1, <2>2, HeldMore, Sound(t, fs, ld, sg), New(t, f)
<1>5. Shaped(fs, ld, sg2)
  BY <1>3 DEF Sound, Shaped, Several
<1>6. Sound(t \cup {f}, fs, ld, sg2)
  BY <1>2, <1>4, <1>5 DEF Sound, Typed
<1> QED
  BY <1>6 DEF sg2

-----------------------------------------------------------------------------
LEMMA IInvInit == Init => IInv
<1> SUFFICES ASSUME Init PROVE IInv
  OBVIOUS
<1>1. Typed(tracked, files, lead, single) /\ wasted \in [Keys -> Int]
  BY DEF Init, Typed
<1>2. Held(tracked, files, single) /\ Single(tracked)
  BY DEF Init, Held, Single
<1>3. Shaped(files, lead, single)
  BY FS_EmptySet DEF Init, Shaped, Several
<1> QED
  BY <1>1, <1>2, <1>3 DEF IInv, Sound

\* Removing a file or a folder, and a file whose hash is not known.
LEMMA DetachStep ==
    ASSUME IInv, NEW R \in SUBSET tracked, Detach(R)
    PROVE  IInv'
  BY DetachSound, DetachWasted DEF Detach, IInv

\* What a path had leaves room for its next version.
LEMMA RoomFor ==
    ASSUME IInv, NEW f \in Nodes
    PROVE  /\ Sound(tracked \ At(f.path), FilesLess(At(f.path)), LeadLess(At(f.path)), SingleLess(At(f.path)))
           /\ WastedLess(At(f.path)) \in [Keys -> Int]
           /\ New(tracked \ At(f.path), f)
<1>1. At(f.path) \in SUBSET tracked
  BY DEF At
<1>2. New(tracked \ At(f.path), f)
  BY DEF At, New
<1> QED
  BY <1>1, <1>2, DetachSound, DetachWasted

LEMMA UpsertStep ==
    ASSUME IInv, NEW f \in Nodes, UpsertFile(f)
    PROVE  IInv'
<1> DEFINE R == At(f.path)
           k == Key[f.hash]
<1>1. /\ Sound(tracked \ R, FilesLess(R), LeadLess(R), SingleLess(R))
      /\ WastedLess(R) \in [Keys -> Int]
      /\ New(tracked \ R, f)
  BY RoomFor
<1>2. k \in Keys /\ f.hash \in Hashes
  BY NodeParts
<1>3. CASE UpsertLeftOut(f)
  BY <1>3, <1>1, DetachStep DEF UpsertLeftOut, At
<1>4. CASE UpsertInGroup(f)
  <2>1. Sound(tracked', files', lead', single')
    BY <1>4, <1>1, JoinsGroup DEF UpsertInGroup
  <2>2. IsFiniteSet(FilesLess(R)[k] \cup {f})
    BY <1>1, <1>2, FS_AddElement DEF Sound, Shaped
  <2>3. Waste(FilesLess(R)[k] \cup {f}, f.hash) \in Int
    BY <1>2, <2>2, WasteIsInt
  <2>4. wasted' \in [Keys -> Int]
    BY <1>4, <1>1, <1>2, <2>3 DEF UpsertInGroup
  <2> QED
    BY <2>1, <2>4 DEF IInv
<1>5. CASE UpsertPair(f)
  <2>1. PICK other \in SingleLess(R)[k] : other.hash = f.hash
    BY <1>5 DEF UpsertPair
  <2>2. Sound(tracked', files', lead', single')
    BY <1>5, <1>1, <2>1, MakesPair DEF UpsertPair
  <2>3. FilesLess(R) \in [Keys -> SUBSET Nodes]
    BY <1>1 DEF Sound, Typed
  <2>4. files'[k] = SingleLess(R)[k] \cup {f}
    BY <1>5, <1>2, <2>3 DEF UpsertPair
  <2>5. IsFiniteSet(SingleLess(R)[k] \cup {f})
    BY <1>2, <2>2, <2>4 DEF Sound, Shaped
  <2>6. Waste(SingleLess(R)[k] \cup {f}, f.hash) \in Int
    BY <1>2, <2>5, WasteIsInt
  <2>7. wasted' \in [Keys -> Int]
    BY <1>5, <1>1, <1>2, <2>6 DEF UpsertPair
  <2> QED
    BY <2>2, <2>7 DEF IInv
<1>6. CASE UpsertAlone(f)
  BY <1>6, <1>1, StaysAlone DEF UpsertAlone, IInv
<1> QED
  BY <1>3, <1>4, <1>5, <1>6 DEF UpsertFile

-----------------------------------------------------------------------------
\* The nodes of a rebuild: one for each path with the leading hash of its key.
LEMMA GatheredFinite ==
    ASSUME NEW h, NEW first, NEW k \in Keys
    PROVE  IsFiniteSet(Gathered(h, first, k))
<1> DEFINE S == { q \in Paths : h[q] \in Hashes /\ Key[h[q]] = k /\ h[q] = first[k] }
           node == [q \in S |-> [path |-> q, hash |-> h[q], version |-> Anew]]
<1>1. IsFiniteSet(S)
  BY FS_Subset
<1>2. node \in Surjection(S, Gathered(h, first, k))
  BY DEF Surjection, Gathered
<1> QED
  BY <1>1, <1>2, FS_Surjection

LEMMA RebuildStep ==
    ASSUME NEW h \in [Paths -> Hashes \cup {NoHash}], NEW first \in [Keys -> Hashes \cup {NoHash}],
           RebuildIndex(h, first)
    PROVE  IInv'
<1> DEFINE G(k) == Gathered(h, first, k)
<1>1. \A k \in Keys : /\ G(k) \in SUBSET Nodes /\ IsFiniteSet(G(k))
                      /\ \A f \in G(k) : Key[f.hash] = k /\ f.hash = first[k] /\ f.hash = h[f.path]
  <2>1. Anew \in Versions
    BY DEF Anew
  <2> QED
    BY <2>1, GatheredFinite DEF Gathered, Nodes
<1>2. ASSUME NEW k \in Keys, NEW j \in Keys, NEW f \in G(k), NEW g \in G(j), f.path = g.path
      PROVE  f = g
  <2>1. j = k
    BY <1>1, <1>2
  <2> QED
    BY <1>2, <2>1 DEF Gathered
<1>3. tracked' = UNION { G(k) : k \in Keys }
  BY DEF RebuildIndex
<1>4. \A k \in Keys : /\ files'[k] = IF Several(G(k)) THEN G(k) ELSE {}
                      /\ single'[k] = IF Several(G(k)) THEN {} ELSE G(k)
                      /\ Several(G(k)) => lead'[k] = first[k]
  BY DEF RebuildIndex
<1>5. files' \in [Keys -> SUBSET Nodes] /\ single' \in [Keys -> SUBSET Nodes]
  <2>1. \A k \in Keys : files'[k] \in SUBSET Nodes /\ single'[k] \in SUBSET Nodes
    BY <1>1, <1>4
  <2> QED
    BY <2>1 DEF RebuildIndex
<1>6. lead' \in [Keys -> Hashes \cup {NoHash}]
  BY DEF RebuildIndex
<1>7. wasted' \in [Keys -> Int]
  <2>1. ASSUME NEW k \in Keys, Several(G(k))
        PROVE  Waste(G(k), first[k]) \in Int
    <3>1. PICK f \in G(k) : TRUE
      BY <2>1 DEF Several
    <3>2. first[k] \in Hashes
      BY <1>1, <3>1, NodeParts
    <3> QED
      BY <1>1, <3>2, WasteIsInt
  <2> QED
    BY <2>1 DEF RebuildIndex
<1> HIDE DEF G
<1>8. Typed(tracked', files', lead', single') /\ Single(tracked')
  BY <1>1, <1>2, <1>3, <1>5, <1>6 DEF Typed, Single
<1>9. Held(tracked', files', single')
  BY <1>1, <1>3, <1>4 DEF Held
<1>10. Shaped(files', lead', single')
  BY <1>1, <1>4, FS_EmptySet DEF Shaped, Several
<1> QED
  BY <1>7, <1>8, <1>9, <1>10 DEF IInv, Sound

-----------------------------------------------------------------------------
LEMMA IInvStep == IInv /\ [Next]_vars => IInv'
<1> SUFFICES ASSUME IInv, [Next]_vars PROVE IInv'
  OBVIOUS
<1>1. ASSUME NEW f \in Nodes, UpsertFile(f) PROVE IInv'
  BY <1>1, UpsertStep
<1>2. ASSUME NEW p \in Paths, UpsertUnhashed(p) \/ RemoveFile(p) PROVE IInv'
  BY <1>2, DetachStep DEF UpsertUnhashed, RemoveFile, At
<1>3. ASSUME NEW folder \in Folders, RemoveDir(folder) PROVE IInv'
  BY <1>3, DetachStep DEF RemoveDir, Under
<1>4. ASSUME NEW h \in [Paths -> Hashes \cup {NoHash}], NEW first \in [Keys -> Hashes \cup {NoHash}],
             RebuildIndex(h, first)
      PROVE  IInv'
  BY <1>4, RebuildStep
<1>5. ASSUME NEW min, NEW want, Query(min, want) PROVE IInv'
  BY <1>5 DEF Query, index, IInv
<1>6. CASE UNCHANGED vars
  BY <1>6 DEF vars, index, IInv
<1> QED
  BY <1>1, <1>2, <1>3, <1>4, <1>5, <1>6 DEF Next

LEMMA IInvInvariant == Spec => []IInv
  BY IInvInit, IInvStep, PTL DEF Spec

\* The maps of the index hold nodes and hashes, whatever is done to it.
THEOREM TypeCorrect == Spec => []TypeOK
<1>1. IInv => TypeOK
  BY DEF IInv, Sound, Typed, TypeOK
<1> QED
  BY <1>1, IInvInvariant, PTL

\* A tracked file is in exactly one of the two maps, under its own key.
THEOREM HeldOnceCorrect == Spec => []HeldOnce
<1>1. IInv => HeldOnce
  <2> SUFFICES ASSUME IInv PROVE HeldOnce
    OBVIOUS
  <2>1. ASSUME NEW f \in tracked
        PROVE  f \in files[Key[f.hash]] <=> f \notin single[Key[f.hash]]
    <3>1. Key[f.hash] \in Keys
      BY NodeParts DEF IInv, Sound, Typed
    <3> QED
      BY <3>1 DEF IInv, Sound, Held, Shaped
  <2> QED
    BY <2>1 DEF IInv, Sound, Held, HeldOnce
<1> QED
  BY <1>1, IInvInvariant, PTL

\* A group has two files at least, and the file that is alone is alone.
THEOREM GroupsAreSeveralCorrect == Spec => []GroupsAreSeveral
<1>1. IInv => GroupsAreSeveral
  BY DEF IInv, Sound, Shaped, GroupsAreSeveral
<1> QED
  BY <1>1, IInvInvariant, PTL

\* However hashes fold into keys, files of two hashes are never in one group.
THEOREM NoFalseDuplicateCorrect == Spec => []NoFalseDuplicate
<1>1. IInv => NoFalseDuplicate
  BY DEF IInv, Sound, Shaped, NoFalseDuplicate
<1> QED
  BY <1>1, IInvInvariant, PTL

\* A path has one version in the index.
THEOREM OneVersionCorrect == Spec => []OneVersion
<1>1. IInv => OneVersion
  BY DEF IInv, Sound, Single, OneVersion
<1> QED
  BY <1>1, IInvInvariant, PTL

-----------------------------------------------------------------------------
\* The index implements its promise.  The hash a set t of nodes files path p
\* under, as HashAt says it of the tracked ones.
HashIn(t, p) ==
    IF { f \in t : f.path = p } = {} THEN NoHash ELSE (CHOOSE f \in { g \in t : g.path = p } : TRUE).hash

FiledIn(t) == [p \in Paths |-> HashIn(t, p)]

ShownIn(fs) == { PathsOf(fs[k]) : k \in { j \in Keys : fs[j] # {} } }

\* With one version of each path, a path is filed under the hash of its node.
LEMMA FiledAsNode ==
    ASSUME NEW t, t \subseteq Nodes, Single(t)
    PROVE  /\ \A f \in t : FiledIn(t)[f.path] = f.hash
           /\ \A p \in Paths : \/ FiledIn(t)[p] = NoHash /\ \A f \in t : f.path # p
                               \/ \E f \in t : f.path = p /\ f.hash = FiledIn(t)[p]
<1>1. ASSUME NEW f \in t
      PROVE  FiledIn(t)[f.path] = f.hash
  <2>1. { g \in t : g.path = f.path } = {f}
    BY DEF Single
  <2>2. f.path \in Paths
    BY NodeParts
  <2> QED
    BY <2>1, <2>2 DEF FiledIn, HashIn
<1>2. ASSUME NEW p \in Paths, \A f \in t : f.path # p
      PROVE  FiledIn(t)[p] = NoHash
  BY <1>2 DEF FiledIn, HashIn
<1> QED
  BY <1>1, <1>2

\* A node that leaves or joins changes how its own path is filed and no other.
LEMMA FiledElsewhere ==
    ASSUME NEW t, NEW u, t \subseteq Nodes, u \subseteq Nodes, NEW p \in Paths,
           { f \in t : f.path = p } = { f \in u : f.path = p }
    PROVE  FiledIn(t)[p] = FiledIn(u)[p]
<1> DEFINE hash(S) == IF S = {} THEN NoHash ELSE (CHOOSE f \in S : TRUE).hash
<1>1. /\ FiledIn(t)[p] = hash({ f \in t : f.path = p })
      /\ FiledIn(u)[p] = hash({ f \in u : f.path = p })
  BY DEF FiledIn, HashIn
<1> HIDE DEF hash
<1> QED
  BY <1>1

\* In sound maps the groups are the sets of two or more paths filed alike.
LEMMA ShownAreGroups ==
    ASSUME NEW t, NEW fs, NEW ld, NEW sg, Sound(t, fs, ld, sg)
    PROVE  ShownIn(fs) = Promise!Groups(FiledIn(t))
<1> DEFINE alike(h) == { p \in Paths : FiledIn(t)[p] = h }
<1>a. t \subseteq Nodes /\ Single(t)
  BY DEF Sound, Typed
<1>1. ASSUME NEW k \in Keys, fs[k] # {}
      PROVE  PathsOf(fs[k]) = alike(ld[k]) /\ Several(alike(ld[k])) /\ ld[k] \in Hashes
  <2>1. /\ Several(fs[k]) /\ sg[k] = {}
        /\ \A f \in fs[k] : f \in t /\ f.hash = ld[k] /\ Key[f.hash] = k
    BY <1>1 DEF Sound, Held, Shaped
  <2>2. PICK e \in fs[k] : TRUE
    BY <1>1
  <2>3. ld[k] \in Hashes /\ Key[ld[k]] = k
    BY <2>1, <2>2, <1>a, NodeParts
  <2>4. ASSUME NEW f \in fs[k]
        PROVE  f.path \in alike(ld[k])
    BY <2>1, <1>a, FiledAsNode, NodeParts
  <2>5. ASSUME NEW p \in alike(ld[k])
        PROVE  \E f \in fs[k] : f.path = p
    <3>1. PICK f \in t : f.path = p /\ f.hash = ld[k]
      BY <1>a, <2>3, FiledAsNode
    <3>2. f \in fs[k] \cup sg[k]
      BY <2>3, <3>1 DEF Sound, Held
    <3> QED
      BY <2>1, <3>1, <3>2
  <2>6. PathsOf(fs[k]) = alike(ld[k])
    BY <2>4, <2>5 DEF PathsOf
  <2>7. Several(alike(ld[k]))
    <3>1. PICK f, g \in fs[k] : f # g
      BY <2>1 DEF Several
    <3>2. f.path # g.path
      BY <1>a, <2>1, <3>1 DEF Single
    <3> QED
      BY <2>4, <3>2 DEF Several
  <2> QED
    BY <2>3, <2>6, <2>7
<1>2. ASSUME NEW h \in Hashes, Several(alike(h))
      PROVE  Key[h] \in Keys /\ fs[Key[h]] # {} /\ ld[Key[h]] = h
  <2>1. PICK p, q \in alike(h) : p # q
    BY <1>2 DEF Several
  <2>2. PICK f \in t, g \in t : f.path = p /\ g.path = q /\ f.hash = h /\ g.hash = h
    BY <1>a, <2>1, FiledAsNode
  <2>3. Key[h] \in Keys /\ f \in fs[Key[h]] \cup sg[Key[h]] /\ g \in fs[Key[h]] \cup sg[Key[h]]
    BY <2>2, <1>a, NodeParts DEF Sound, Held
  <2>4. ~Several(sg[Key[h]]) /\ f # g
    BY <2>1, <2>2, <2>3 DEF Sound, Shaped
  <2>5. fs[Key[h]] # {} /\ sg[Key[h]] = {}
    BY <2>3, <2>4 DEF Several, Sound, Shaped
  <2> QED
    BY <2>2, <2>3, <2>5 DEF Sound, Shaped
<1>3. Promise!Groups(FiledIn(t)) = { S \in { alike(h) : h \in Hashes } : Several(S) }
  BY DEF Promise!Groups, Promise!Alike, Promise!Several, Several
<1> HIDE DEF alike
<1>4. ShownIn(fs) \subseteq { S \in { alike(h) : h \in Hashes } : Several(S) }
  BY <1>1 DEF ShownIn
<1>5. { S \in { alike(h) : h \in Hashes } : Several(S) } \subseteq ShownIn(fs)
  <2> SUFFICES ASSUME NEW h \in Hashes, Several(alike(h))
               PROVE  alike(h) \in ShownIn(fs)
    OBVIOUS
  <2>1. PathsOf(fs[Key[h]]) = alike(h) /\ Key[h] \in Keys /\ fs[Key[h]] # {}
    BY <1>1, <1>2
  <2> QED
    BY <2>1 DEF ShownIn
<1> QED
  BY <1>3, <1>4, <1>5

\* What remains to be shown of a step: that it files the paths of S as told,
\* and the others as before.
LEMMA TellsPaths ==
    ASSUME IInv', NEW S \in SUBSET Paths,
           \A p \in S : \/ FiledIn(tracked')[p] = told'[p]
                        \/ /\ FiledIn(tracked')[p] = NoHash
                           /\ told'[p] \in Hashes
                           /\ \E g \in tracked' : g.hash # told'[p] /\ Key[g.hash] = Key[told'[p]],
           \A p \in Paths \ S : told'[p] = told[p] /\ FiledIn(tracked')[p] = FiledIn(tracked)[p]
    PROVE  Promise!Next
<1> DEFINE filed == [p \in Paths |-> HashAt(p)]
<1>1. filed = FiledIn(tracked)
  BY DEF HashAt, At, FiledIn, HashIn
<1>2. filed' = FiledIn(tracked')
  BY DEF HashAt, At, FiledIn, HashIn
<1>3. { PathsOf(files[k]) : k \in { j \in Keys : files[j] # {} } }' = Promise!Groups(FiledIn(tracked'))
  <2>1. Sound(tracked', files', lead', single')
    BY DEF IInv
  <2> QED
    BY <2>1, ShownAreGroups DEF ShownIn, PathsOf
<1>4. ASSUME NEW g \in tracked', NEW p \in S,
             told'[p] \in Hashes, g.hash # told'[p], Key[g.hash] = Key[told'[p]]
      PROVE  Promise!Blocked(FiledIn(tracked'), told'[p])
  <2>1. tracked' \subseteq Nodes /\ Single(tracked')
    BY DEF IInv, Sound, Typed
  <2>2. g.path \in Paths /\ g.hash \in Hashes /\ FiledIn(tracked')[g.path] = g.hash
    BY <2>1, FiledAsNode, NodeParts
  <2> QED
    BY <1>4, <2>2 DEF Promise!Blocked
<1> HIDE DEF filed
<1>5. Promise!Tell(S)
  BY <1>1, <1>2, <1>3, <1>4 DEF Promise!Tell, filed
<1> QED
  BY <1>5 DEF Promise!Next

\* A removal empties the paths it is about and leaves the others as they were.
LEMMA DetachTells ==
    ASSUME IInv, IInv', NEW S \in SUBSET Paths, tracked' = tracked \ { f \in tracked : f.path \in S },
           \A p \in S : told'[p] = NoHash, \A p \in Paths \ S : told'[p] = told[p]
    PROVE  Promise!Next
<1>1. tracked \subseteq Nodes /\ tracked' \subseteq Nodes /\ Single(tracked')
  BY DEF IInv, Sound, Typed
<1>2. ASSUME NEW p \in S
      PROVE  FiledIn(tracked')[p] = told'[p]
  BY <1>1, FiledAsNode
<1>3. ASSUME NEW p \in Paths \ S
      PROVE  FiledIn(tracked')[p] = FiledIn(tracked)[p]
  <2>1. { f \in tracked : f.path = p } = { f \in tracked' : f.path = p }
    OBVIOUS
  <2> QED
    BY <1>1, <2>1, FiledElsewhere
<1> QED
  BY <1>2, <1>3, TellsPaths

\* An upsert files one path, unless another content has its key.
LEMMA UpsertTells ==
    ASSUME IInv, IInv', told \in [Paths -> Hashes \cup {NoHash}], NEW f \in Nodes, UpsertFile(f)
    PROVE  Promise!Next
<1> DEFINE R == At(f.path)
           k == Key[f.hash]
           only == {f.path}
<1>1. tracked \subseteq Nodes /\ tracked' \subseteq Nodes /\ Single(tracked')
  BY DEF IInv, Sound, Typed
<1>2. f.path \in Paths /\ f.hash \in Hashes /\ k \in Keys
  BY NodeParts
<1>3. told'[f.path] = f.hash /\ \A p \in Paths \ {f.path} : told'[p] = told[p]
  BY <1>2 DEF UpsertFile
<1>4. tracked' = tracked \ R \/ tracked' = (tracked \ R) \cup {f}
  BY DEF UpsertFile, UpsertLeftOut, UpsertInGroup, UpsertPair, UpsertAlone, Detach
<1>5. ASSUME NEW p \in Paths \ {f.path}
      PROVE  FiledIn(tracked')[p] = FiledIn(tracked)[p]
  <2>1. { g \in tracked : g.path = p } = { g \in tracked' : g.path = p }
    BY <1>4 DEF At
  <2> QED
    BY <1>1, <2>1, FiledElsewhere
<1>6. /\ only \in SUBSET Paths
      /\ \A p \in Paths \ only : told'[p] = told[p] /\ FiledIn(tracked')[p] = FiledIn(tracked)[p]
  BY <1>2, <1>3, <1>5
<1>7. CASE UpsertLeftOut(f)
  <2>1. tracked' = tracked \ R /\ files' = FilesLess(R) /\ lead' = LeadLess(R) /\ single' = SingleLess(R)
    BY <1>7 DEF UpsertLeftOut, Detach
  <2>2. FiledIn(tracked')[f.path] = NoHash
    BY <1>1, <1>2, <2>1, FiledAsNode DEF At
  <2>3. \E g \in tracked' : g.hash # f.hash /\ Key[g.hash] = k
    <3>1. PICK g \in files'[k] \cup single'[k] : g.hash # f.hash
      <4>1. CASE FilesLess(R)[k] # {} /\ LeadLess(R)[k] # f.hash
        BY <1>2, <2>1, <4>1 DEF IInv, Sound, Shaped
      <4>2. CASE \E other \in SingleLess(R)[k] : other.hash # f.hash
        BY <2>1, <4>2
      <4> QED
        BY <1>7, <4>1, <4>2 DEF UpsertLeftOut
    <3>2. g \in tracked' /\ Key[g.hash] = k
      BY <1>2, <3>1 DEF IInv, Sound, Held
    <3> QED
      BY <3>1, <3>2
  <2>4. \A p \in only : /\ FiledIn(tracked')[p] = NoHash /\ told'[p] \in Hashes
                        /\ \E g \in tracked' : g.hash # told'[p] /\ Key[g.hash] = Key[told'[p]]
    BY <1>2, <1>3, <2>2, <2>3
  <2> HIDE DEF only
  <2> QED
    BY <1>6, <2>4, TellsPaths
<1>8. CASE ~UpsertLeftOut(f)
  <2>1. f \in tracked'
    BY <1>8 DEF UpsertFile, UpsertInGroup, UpsertPair, UpsertAlone
  <2>2. FiledIn(tracked')[f.path] = f.hash
    BY <1>1, <2>1, FiledAsNode
  <2>3. \A p \in only : FiledIn(tracked')[p] = told'[p]
    BY <1>3, <2>2
  <2> HIDE DEF only
  <2> QED
    BY <1>6, <2>3, TellsPaths
<1> QED
  BY <1>7, <1>8

\* A rebuild files every path anew; of two hashes with one key, one is left out.
LEMMA RebuildTells ==
    ASSUME IInv', NEW h \in [Paths -> Hashes \cup {NoHash}],
           NEW first \in [Keys -> Hashes \cup {NoHash}], RebuildIndex(h, first)
    PROVE  Promise!Next
<1>1. tracked' \subseteq Nodes /\ Single(tracked')
  BY DEF IInv, Sound, Typed
<1>2. told' = h /\ tracked' = UNION { Gathered(h, first, k) : k \in Keys }
  BY DEF RebuildIndex
<1>3. \A g \in tracked' : g.path \in Paths /\ g.hash = h[g.path] /\ g.hash = first[Key[g.hash]]
  BY <1>2 DEF Gathered
<1>4. ASSUME NEW q \in Paths, h[q] \in Hashes, first[Key[h[q]]] = h[q]
      PROVE  \E g \in tracked' : g.path = q /\ g.hash = h[q]
  <2>1. [path |-> q, hash |-> h[q], version |-> Anew] \in Gathered(h, first, Key[h[q]])
    BY <1>4 DEF Gathered
  <2> QED
    BY <1>2, <1>4, <2>1
<1>5. ASSUME NEW p \in Paths
      PROVE  \/ FiledIn(tracked')[p] = told'[p]
             \/ /\ FiledIn(tracked')[p] = NoHash
                /\ told'[p] \in Hashes
                /\ \E g \in tracked' : g.hash # told'[p] /\ Key[g.hash] = Key[told'[p]]
  <2>1. CASE h[p] = NoHash
    <3>1. \A g \in tracked' : g.path # p
      BY <1>1, <1>3, <2>1, NodeParts
    <3> QED
      BY <1>1, <1>2, <2>1, <3>1, FiledAsNode
  <2>2. CASE h[p] \in Hashes /\ first[Key[h[p]]] = h[p]
    BY <1>1, <1>2, <1>4, <2>2, FiledAsNode
  <2>3. CASE h[p] \in Hashes /\ first[Key[h[p]]] # h[p]
    <3>1. \A g \in tracked' : g.path # p
      BY <1>3, <2>3
    <3>2. FiledIn(tracked')[p] = NoHash
      BY <1>1, <3>1, FiledAsNode
    <3>3. Key[h[p]] \in Keys
      BY <2>3
    <3>4. PICK q \in Paths : h[q] = first[Key[h[p]]] /\ h[q] \in Hashes /\ Key[h[q]] = Key[h[p]]
      BY <2>3, <3>3 DEF RebuildIndex, Leads
    <3>5. PICK g \in tracked' : g.path = q /\ g.hash = h[q]
      BY <1>4, <3>4
    <3> QED
      BY <1>2, <2>3, <3>2, <3>4, <3>5
  <2> QED
    BY <2>1, <2>2, <2>3
<1> QED
  BY <1>5, TellsPaths

\* Every step of the index files paths as told, or shows nothing.
LEMMA StepKeepsPromise ==
    ASSUME IInv, IInv', told \in [Paths -> Hashes \cup {NoHash}], [Next]_vars
    PROVE  [Promise!Next]_<<told, [p \in Paths |-> HashAt(p)],
                            { PathsOf(files[k]) : k \in { j \in Keys : files[j] # {} } }>>
<1>1. ASSUME NEW f \in Nodes, UpsertFile(f)
      PROVE  Promise!Next
  BY <1>1, UpsertTells
<1>2. ASSUME NEW p \in Paths, UpsertUnhashed(p) \/ RemoveFile(p)
      PROVE  Promise!Next
  <2> DEFINE only == {p}
  <2>1. /\ only \in SUBSET Paths
        /\ tracked' = tracked \ { f \in tracked : f.path \in only }
        /\ \A q \in only : told'[q] = NoHash
        /\ \A q \in Paths \ only : told'[q] = told[q]
    BY <1>2 DEF UpsertUnhashed, RemoveFile, Detach, At
  <2> HIDE DEF only
  <2> QED
    BY <2>1, DetachTells
<1>3. ASSUME NEW folder \in Folders, RemoveDir(folder)
      PROVE  Promise!Next
  <2>1. /\ tracked' = tracked \ { f \in tracked : f.path \in folder }
        /\ \A p \in Paths : told'[p] = IF p \in folder THEN NoHash ELSE told[p]
    BY <1>3 DEF RemoveDir, Detach, Under
  <2>2. folder \in SUBSET Paths
    OBVIOUS
  <2> QED
    BY <2>1, <2>2, DetachTells
<1>4. ASSUME NEW h \in [Paths -> Hashes \cup {NoHash}], NEW first \in [Keys -> Hashes \cup {NoHash}],
             RebuildIndex(h, first)
      PROVE  Promise!Next
  BY <1>4, RebuildTells
<1>5. ASSUME NEW min, NEW want, Query(min, want)
      PROVE  UNCHANGED <<told, tracked, files>>
  BY <1>5 DEF Query, index
<1>6. ASSUME UNCHANGED vars
      PROVE  UNCHANGED <<told, tracked, files>>
  BY <1>6 DEF vars, index
<1>7. ASSUME UNCHANGED <<told, tracked, files>>
      PROVE  UNCHANGED <<told, [p \in Paths |-> HashAt(p)],
                         { PathsOf(files[k]) : k \in { j \in Keys : files[j] # {} } }>>
  BY <1>7 DEF HashAt, At, PathsOf
<1> QED
  BY <1>1, <1>2, <1>3, <1>4, <1>5, <1>6, <1>7 DEF Next

\* What a path was last given with is a hash or nothing.
LEMMA ToldTyped == Spec => [](told \in [Paths -> Hashes \cup {NoHash}])
<1> DEFINE T == told \in [Paths -> Hashes \cup {NoHash}]
<1>1. Init => T
  BY DEF Init
<1>2. T /\ [Next]_vars => T'
  <2> SUFFICES ASSUME T, [Next]_vars PROVE T'
    OBVIOUS
  <2> QED
    BY NodeParts DEF Next, vars, index, UpsertFile, UpsertUnhashed, RemoveFile, RemoveDir,
       RebuildIndex, Query
<1> QED
  BY <1>1, <1>2, PTL DEF Spec

\* Three maps kept up one file at a time implement the plain promise: after any
\* operations, on any paths and with any folding of hashes into keys, what is
\* shown is the sets of paths whose last told content is the same, and a path is
\* only left out when its key is taken.
THEOREM KeepsPromiseCorrect == Spec => KeepsPromise
<1>1. Init => Promise!Init
  BY DEF Init, Promise!Init, HashAt, At
<1>2. Spec => [](IInv /\ told \in [Paths -> Hashes \cup {NoHash}])
  BY IInvInvariant, ToldTyped, PTL
<1>3. IInv /\ told \in [Paths -> Hashes \cup {NoHash}] /\ [Next]_vars
         => [Promise!Next]_<<told, [p \in Paths |-> HashAt(p)],
                             { PathsOf(files[k]) : k \in { j \in Keys : files[j] # {} } }>>
  BY IInvStep, StepKeepsPromise
<1> QED
  BY <1>1, <1>2, <1>3, PTL DEF Spec, KeepsPromise, Promise!Spec

-----------------------------------------------------------------------------
\* What the groups waste is counted right whenever they change.
WasteKept == \A k \in Keys : files[k] # {} => wasted[k] = Waste(files[k], lead[k])

\* A group that keeps its files keeps its bytes; one that loses some is counted.
LEMMA DetachCounts ==
    ASSUME IInv, WasteKept, NEW R \in SUBSET tracked, NEW k \in Keys, FilesLess(R)[k] # {}
    PROVE  WastedLess(R)[k] = Waste(FilesLess(R)[k], LeadLess(R)[k])
<1>1. /\ Several(Left(R, k)) /\ FilesLess(R)[k] = Left(R, k) /\ LeadLess(R)[k] = lead[k]
  BY DEF FilesLess, LeadLess
<1>2. CASE Left(R, k) = files[k]
  <2>1. files[k] # {}
    BY <1>1, <1>2
  <2> QED
    BY <1>1, <1>2, <2>1 DEF WastedLess, WasteKept
<1>3. CASE Left(R, k) # files[k]
  BY <1>1, <1>3 DEF WastedLess
<1> QED
  BY <1>2, <1>3

LEMMA UpsertCounts ==
    ASSUME IInv, WasteKept, NEW f \in Nodes, UpsertFile(f)
    PROVE  WasteKept'
<1> DEFINE R == At(f.path)
           c == Key[f.hash]
<1>1. R \in SUBSET tracked /\ c \in Keys
  BY NodeParts DEF At
<1>2. \A k \in Keys : FilesLess(R)[k] # {} => WastedLess(R)[k] = Waste(FilesLess(R)[k], LeadLess(R)[k])
  BY <1>1, DetachCounts
<1>3. /\ DOMAIN FilesLess(R) = Keys /\ DOMAIN LeadLess(R) = Keys /\ DOMAIN WastedLess(R) = Keys
  BY DEF FilesLess, LeadLess, WastedLess
<1>4. CASE UpsertLeftOut(f) \/ UpsertAlone(f)
  <2>1. files' = FilesLess(R) /\ lead' = LeadLess(R) /\ wasted' = WastedLess(R)
    BY <1>4 DEF UpsertLeftOut, UpsertAlone, Detach
  <2> HIDE DEF R, c
  <2> QED
    BY <1>2, <2>1 DEF WasteKept
<1>5. CASE UpsertInGroup(f)
  <2> DEFINE more == FilesLess(R)[c] \cup {f}
  <2>1. /\ files' = [FilesLess(R) EXCEPT ![c] = more] /\ lead' = LeadLess(R)
        /\ wasted' = [WastedLess(R) EXCEPT ![c] = Waste(more, f.hash)]
        /\ LeadLess(R)[c] = f.hash
    BY <1>5 DEF UpsertInGroup
  <2> HIDE DEF R, c, more
  <2>2. ASSUME NEW k \in Keys, files'[k] # {}
        PROVE  wasted'[k] = Waste(files'[k], lead'[k])
    <3>1. CASE k = c
      BY <1>1, <1>3, <2>1, <3>1
    <3>2. CASE k # c
      BY <1>1, <1>2, <1>3, <2>1, <2>2, <3>2
    <3> QED
      BY <3>1, <3>2
  <2> QED
    BY <2>2 DEF WasteKept, Waste
<1>6. CASE UpsertPair(f)
  <2> DEFINE both == SingleLess(R)[c] \cup {f}
  <2>1. /\ files' = [FilesLess(R) EXCEPT ![c] = both]
        /\ lead' = [LeadLess(R) EXCEPT ![c] = f.hash]
        /\ wasted' = [WastedLess(R) EXCEPT ![c] = Waste(both, f.hash)]
    BY <1>6 DEF UpsertPair
  <2> HIDE DEF R, c, both
  <2>2. ASSUME NEW k \in Keys, files'[k] # {}
        PROVE  wasted'[k] = Waste(files'[k], lead'[k])
    <3>1. CASE k = c
      BY <1>1, <1>3, <2>1, <3>1
    <3>2. CASE k # c
      BY <1>1, <1>2, <1>3, <2>1, <2>2, <3>2
    <3> QED
      BY <3>1, <3>2
  <2> QED
    BY <2>2 DEF WasteKept, Waste
<1> QED
  BY <1>4, <1>5, <1>6 DEF UpsertFile

LEMMA WasteStep == IInv /\ WasteKept /\ [Next]_vars => WasteKept'
<1> SUFFICES ASSUME IInv, WasteKept, [Next]_vars PROVE WasteKept'
  OBVIOUS
<1>1. ASSUME NEW f \in Nodes, UpsertFile(f) PROVE WasteKept'
  BY <1>1, UpsertCounts
<1>2. ASSUME NEW R \in SUBSET tracked, Detach(R) PROVE WasteKept'
  BY <1>2, DetachCounts DEF Detach, WasteKept, Waste
<1>3. ASSUME NEW h, NEW first, RebuildIndex(h, first) PROVE WasteKept'
  BY <1>3 DEF RebuildIndex, WasteKept, Waste
<1>4. ASSUME UNCHANGED <<files, lead, wasted>> PROVE WasteKept'
  BY <1>4 DEF WasteKept, Waste
<1> QED
  BY <1>1, <1>2, <1>3, <1>4
     DEF Next, UpsertUnhashed, RemoveFile, RemoveDir, At, Under, Query, vars, index

-----------------------------------------------------------------------------
\* In the index the groups are the hashes of several files, one to one.
LEMMA GroupIsCopies ==
    ASSUME IInv, NEW k \in Keys, files[k] # {}
    PROVE  /\ lead[k] \in Hashes /\ Key[lead[k]] = k
           /\ Copies(lead[k]) = files[k] /\ Several(files[k]) /\ IsFiniteSet(files[k])
<1>1. PICK f \in files[k] : TRUE
  OBVIOUS
<1>2. f \in Nodes /\ f.hash = lead[k] /\ Key[f.hash] = k
  BY <1>1 DEF IInv, Sound, Typed, Held, Shaped
<1>3. lead[k] \in Hashes /\ Key[lead[k]] = k
  BY <1>2, NodeParts
<1>4. files[k] \subseteq Copies(lead[k])
  BY DEF IInv, Sound, Held, Shaped, Copies
<1>5. ASSUME NEW g \in Copies(lead[k])
      PROVE  g \in files[k]
  <2>1. g \in tracked /\ Key[g.hash] = k
    BY <1>3, <1>5 DEF Copies
  <2>2. single[k] = {}
    BY DEF IInv, Sound, Shaped
  <2> QED
    BY <2>1, <2>2 DEF IInv, Sound, Held
<1> QED
  BY <1>3, <1>4, <1>5 DEF IInv, Sound, Shaped

LEMMA CopiesAreGroup ==
    ASSUME IInv, NEW h \in Hashes, Several(Copies(h))
    PROVE  Key[h] \in Keys /\ files[Key[h]] # {} /\ lead[Key[h]] = h
<1>1. Key[h] \in Keys
  OBVIOUS
<1>2. PICK f \in Copies(h), g \in Copies(h) : f # g
  BY DEF Several
<1>3. \A n \in Copies(h) : n \in files[Key[h]] \cup single[Key[h]]
  BY DEF IInv, Sound, Held, Copies
<1>4. PICK n \in Copies(h) : n \in files[Key[h]]
  BY <1>1, <1>2, <1>3 DEF IInv, Sound, Shaped, Several
<1> QED
  BY <1>1, <1>4 DEF IInv, Sound, Shaped, Copies

\* The sums of a query and of its meaning are totals of functions: of the files of
\* the groups counted,
LEMMA SumOfFiles ==
    ASSUME NEW S, IsFiniteSet(S)
    PROVE  MapThenSumSet(LAMBDA k : Cardinality(files[k]), S) = Total([k \in S |-> Cardinality(files[k])], S)
<1> DEFINE c == [k \in S |-> Cardinality(files[k])]
           Same(g) == g = [s \in SUBSET S |-> IF s = {} THEN 0
                                ELSE Cardinality(files[Some(s)]) + g[s \ {Some(s)}]]
<1>1. ASSUME NEW g
      PROVE  Same(g) <=> Sums(c, g, S)
  <2>1. \A s \in SUBSET S : s # {} => c[Some(s)] = Cardinality(files[Some(s)])
    BY SomeIsIn
  <2> HIDE DEF c
  <2> QED
    BY <2>1 DEF Sums, AddOne
<1>2. MapThenSumSet(LAMBDA k : Cardinality(files[k]), S) = (CHOOSE g : Same(g))[S]
  BY DEF MapThenSumSet, MapThenFoldSet, Some
<1> HIDE DEF Same, c
<1>3. PICK g : Sums(c, g, S) /\ Total(c, S) = g[S]
  BY TotalIsSum
<1>4. Sums(c, CHOOSE h : Same(h), S)
  BY <1>1, <1>3
<1>5. (CHOOSE h : Same(h))[S] = g[S]
  BY <1>3, <1>4, SumsAgree
<1> QED
  BY <1>2, <1>3, <1>5 DEF c

\* of the files of the hashes,
LEMMA SumOfCopies ==
    ASSUME NEW S, IsFiniteSet(S)
    PROVE  MapThenSumSet(LAMBDA k : Cardinality(Copies(k)), S) = Total([k \in S |-> Cardinality(Copies(k))], S)
<1> DEFINE c == [k \in S |-> Cardinality(Copies(k))]
           Same(g) == g = [s \in SUBSET S |-> IF s = {} THEN 0
                                ELSE Cardinality(Copies(Some(s))) + g[s \ {Some(s)}]]
<1>1. ASSUME NEW g
      PROVE  Same(g) <=> Sums(c, g, S)
  <2>1. \A s \in SUBSET S : s # {} => c[Some(s)] = Cardinality(Copies(Some(s)))
    BY SomeIsIn
  <2> HIDE DEF c
  <2> QED
    BY <2>1 DEF Sums, AddOne
<1>2. MapThenSumSet(LAMBDA k : Cardinality(Copies(k)), S) = (CHOOSE g : Same(g))[S]
  BY DEF MapThenSumSet, MapThenFoldSet, Some
<1> HIDE DEF Same, c
<1>3. PICK g : Sums(c, g, S) /\ Total(c, S) = g[S]
  BY TotalIsSum
<1>4. Sums(c, CHOOSE h : Same(h), S)
  BY <1>1, <1>3
<1>5. (CHOOSE h : Same(h))[S] = g[S]
  BY <1>3, <1>4, SumsAgree
<1> QED
  BY <1>2, <1>3, <1>5 DEF c

\* and of the bytes of all copies but one.
LEMMA SumOfWaste ==
    ASSUME NEW S, IsFiniteSet(S)
    PROVE  MapThenSumSet(LAMBDA k : (Cardinality(Copies(k)) - 1) * Size[k], S) = Total([k \in S |-> (Cardinality(Copies(k)) - 1) * Size[k]], S)
<1> DEFINE c == [k \in S |-> (Cardinality(Copies(k)) - 1) * Size[k]]
           Same(g) == g = [s \in SUBSET S |-> IF s = {} THEN 0
                                ELSE (Cardinality(Copies(Some(s))) - 1) * Size[Some(s)] + g[s \ {Some(s)}]]
<1>1. ASSUME NEW g
      PROVE  Same(g) <=> Sums(c, g, S)
  <2>1. \A s \in SUBSET S : s # {} => c[Some(s)] = (Cardinality(Copies(Some(s))) - 1) * Size[Some(s)]
    BY SomeIsIn
  <2> HIDE DEF c
  <2> QED
    BY <2>1 DEF Sums, AddOne
<1>2. MapThenSumSet(LAMBDA k : (Cardinality(Copies(k)) - 1) * Size[k], S) = (CHOOSE g : Same(g))[S]
  BY DEF MapThenSumSet, MapThenFoldSet, Some
<1> HIDE DEF Same, c
<1>3. PICK g : Sums(c, g, S) /\ Total(c, S) = g[S]
  BY TotalIsSum
<1>4. Sums(c, CHOOSE h : Same(h), S)
  BY <1>1, <1>3
<1>5. (CHOOSE h : Same(h))[S] = g[S]
  BY <1>3, <1>4, SumsAgree
<1> QED
  BY <1>2, <1>3, <1>5 DEF c

\* The hashes that a query should count.
Wanted(min, want) ==
    { h \in Hashes : /\ Several(Copies(h)) /\ Size[h] >= min
                     /\ \E f \in Copies(h) : f.path \in want }

LEMMA MatchingIsWanted ==
    ASSUME IInv, NEW min, NEW want
    PROVE  /\ Wanted(min, want) = { lead[k] : k \in Matching(min, want) }
           /\ \A j, k \in Matching(min, want) : lead[j] = lead[k] => j = k
           /\ IsFiniteSet(Wanted(min, want)) /\ IsFiniteSet(Matching(min, want))
           /\ Cardinality(Matching(min, want)) = Cardinality(Wanted(min, want))
<1> DEFINE M == Matching(min, want)
           W == Wanted(min, want)
<1>1. ASSUME NEW k \in M
      PROVE  lead[k] \in W /\ Key[lead[k]] = k
  BY <1>1, GroupIsCopies DEF Matching, Wanted
<1>2. ASSUME NEW h \in W
      PROVE  Key[h] \in M /\ lead[Key[h]] = h
  <2>1. Key[h] \in Keys /\ files[Key[h]] # {} /\ lead[Key[h]] = h
    BY <1>2, CopiesAreGroup DEF Wanted
  <2>2. Copies(h) = files[Key[h]]
    BY <2>1, GroupIsCopies
  <2> QED
    BY <1>2, <2>1, <2>2 DEF Wanted, Matching
<1>3. IsFiniteSet(W)
  BY FS_Subset DEF Wanted
<1> HIDE DEF M, W
<1>4. W = { lead[k] : k \in M }
  BY <1>1, <1>2
<1>5. \A j, k \in M : lead[j] = lead[k] => j = k
  BY <1>1
<1> DEFINE back == [h \in W |-> Key[h]]
<1>6. back \in Bijection(W, M)
  <2>1. back \in [W -> M] /\ \A g, h \in W : back[g] = back[h] => g = h
    BY <1>2
  <2>2. \A k \in M : \E h \in W : back[h] = k
    BY <1>1
  <2> QED
    BY <2>1, <2>2 DEF Bijection, Injection, Surjection, IsInjective
<1>7. IsFiniteSet(M) /\ Cardinality(M) = Cardinality(W)
  BY <1>3, <1>6, FS_Bijection DEF ExistsBijection
<1> QED
  BY <1>3, <1>4, <1>5, <1>7 DEF M, W

\* What a query counts is so.
LEMMA QueryIsTrue ==
    ASSUME IInv, WasteKept, NEW min, NEW want, Query(min, want)
    PROVE  TrueAnswer(answer')
<1> DEFINE M == Matching(min, want)
           W == Wanted(min, want)
           fc == [k \in M |-> Cardinality(files[k])]
           gc == [h \in W |-> Cardinality(Copies(h))]
           gw == [h \in W |-> (Cardinality(Copies(h)) - 1) * Size[h]]
<1>1. /\ answer'.min = min /\ answer'.want = want /\ answer'.groups = Cardinality(M)
      /\ answer'.files = MapThenSumSet(LAMBDA k : Cardinality(files[k]), M)
      /\ answer'.wasted = MapThenSumSet(LAMBDA k : wasted[k], M)
  BY DEF Query
<1>2. /\ W = { lead[k] : k \in M }
      /\ \A j, k \in M : lead[j] = lead[k] => j = k
      /\ IsFiniteSet(M) /\ IsFiniteSet(W) /\ Cardinality(M) = Cardinality(W)
  BY MatchingIsWanted
<1>3. MapThenSumSet(LAMBDA k : Cardinality(files[k]), M) = Total(fc, M)
  BY <1>2, SumOfFiles
<1>4. MapThenSumSet(LAMBDA k : wasted[k], M) = Total(wasted, M)
  BY DEF Total
<1>5. MapThenSumSet(LAMBDA h : Cardinality(Copies(h)), W) = Total(gc, W)
  BY <1>2, SumOfCopies
<1>6. MapThenSumSet(LAMBDA h : (Cardinality(Copies(h)) - 1) * Size[h], W) = Total(gw, W)
  BY <1>2, SumOfWaste
<1>7. ASSUME NEW k \in M
      PROVE  /\ fc[k] = gc[lead[k]] /\ gc[lead[k]] \in Int
             /\ wasted[k] = gw[lead[k]] /\ gw[lead[k]] \in Int
  <2>1. k \in Keys /\ files[k] # {}
    BY DEF Matching
  <2>2. /\ lead[k] \in Hashes /\ lead[k] \in W /\ Copies(lead[k]) = files[k]
        /\ IsFiniteSet(files[k])
    BY <1>2, <2>1, GroupIsCopies
  <2>3. Cardinality(files[k]) \in Nat /\ Size[lead[k]] \in Nat
    BY <2>2, FS_CardinalityType
  <2>4. wasted[k] = (Cardinality(files[k]) - 1) * Size[lead[k]]
    BY <2>1 DEF WasteKept, Waste
  <2>5. (Cardinality(files[k]) - 1) * Size[lead[k]] \in Int
    BY <2>3
  <2> QED
    BY <2>2, <2>3, <2>4, <2>5
<1> HIDE DEF M, W, fc, gc, gw
<1>8. Total(fc, M) = Total(gc, W)
  <2>1. Total(fc, M) = Total(gc, { lead[k] : k \in M })
    <3>1. \A k \in M : fc[k] = gc[lead[k]] /\ gc[lead[k]] \in Int
      BY <1>7
    <3>2. IsFiniteSet(M) /\ \A j, k \in M : lead[j] = lead[k] => j = k
      BY <1>2
    <3> QED
      BY ONLY <3>1, <3>2, TotalsMatch
  <2> QED
    BY <1>2, <2>1
<1>9. Total(wasted, M) = Total(gw, W)
  <2>1. Total(wasted, M) = Total(gw, { lead[k] : k \in M })
    <3>1. \A k \in M : wasted[k] = gw[lead[k]] /\ gw[lead[k]] \in Int
      BY <1>7
    <3>2. IsFiniteSet(M) /\ \A j, k \in M : lead[j] = lead[k] => j = k
      BY <1>2
    <3> QED
      BY ONLY <3>1, <3>2, TotalsMatch
  <2> QED
    BY <1>2, <2>1
<1>10. TrueAnswer(answer') <=>
         /\ answer'.groups = Cardinality(W)
         /\ answer'.files = MapThenSumSet(LAMBDA h : Cardinality(Copies(h)), W)
         /\ answer'.wasted = MapThenSumSet(LAMBDA h : (Cardinality(Copies(h)) - 1) * Size[h], W)
  BY <1>1 DEF TrueAnswer, W, Wanted
<1> QED
  BY <1>1, <1>2, <1>3, <1>4, <1>5, <1>6, <1>8, <1>9, <1>10

LEMMA NothingIsTrue == answer' = NoAnswer => TrueAnswer(answer')
<1> SUFFICES ASSUME answer' = NoAnswer PROVE TrueAnswer(answer')
  OBVIOUS
<1>1. answer'.want = {} /\ answer'.groups = 0 /\ answer'.files = 0 /\ answer'.wasted = 0
  BY DEF NoAnswer
<1>2. Wanted(answer'.min, answer'.want) = {}
  BY <1>1 DEF Wanted
<1>3. IsFiniteSet({}) /\ Cardinality({}) = 0
  BY FS_EmptySet
<1>4. /\ MapThenSumSet(LAMBDA h : Cardinality(Copies(h)), {}) = 0
      /\ MapThenSumSet(LAMBDA h : (Cardinality(Copies(h)) - 1) * Size[h], {}) = 0
  BY <1>3, SumOfCopies, SumOfWaste, TotalUnfolds
<1> QED
  BY <1>1, <1>2, <1>3, <1>4 DEF TrueAnswer, Wanted

\* Whatever was indexed, removed or rebuilt before, and however hashes fold, a
\* query counts the groups, the files and the wasted bytes that the files
\* themselves say, for any number of groups.
THEOREM AnswersAddUpCorrect == Spec => AnswersAddUp
<1>1. Init => WasteKept
  BY DEF Init, WasteKept
<1>2. Spec => [](IInv /\ WasteKept)
  BY <1>1, IInvInit, IInvStep, WasteStep, PTL DEF Spec
<1>3. IInv /\ WasteKept /\ [Next]_vars => [answer' = answer \/ TrueAnswer(answer')]_vars
  <2> SUFFICES ASSUME IInv, WasteKept, [Next]_vars
               PROVE  answer' = answer \/ TrueAnswer(answer')
    OBVIOUS
  <2>1. ASSUME NEW min, NEW want, Query(min, want)
        PROVE  TrueAnswer(answer')
    BY <2>1, QueryIsTrue
  <2>2. CASE UNCHANGED vars
    BY <2>2 DEF vars
  <2>3. ASSUME Next, ~\E min, want : Query(min, want)
        PROVE  answer' = NoAnswer
    BY <2>3 DEF Next, UpsertFile, UpsertUnhashed, UpsertLeftOut, UpsertInGroup, UpsertPair,
       UpsertAlone, RemoveFile, RemoveDir, Detach, RebuildIndex
  <2> QED
    BY <2>1, <2>2, <2>3, NothingIsTrue
<1> QED
  BY <1>2, <1>3, PTL DEF Spec, AnswersAddUp
=============================================================================
