---------------------------- MODULE SumTheorems ----------------------------
(***************************************************************************)
(* Facts about sums over finite sets: the totals that the ledgers, the     *)
(* custody bags, the payslips and the wallets of this system are made of.  *)
(*                                                                         *)
(* SumFunctionOnSet of the community modules takes the elements out of the *)
(* set one by one, in the order of a CHOOSE.  The first part shows that    *)
(* the recursion has a solution and that it does not matter where it       *)
(* starts; the second that any element may be taken out first; the rest    *)
(* is what the proofs of the components cite.                              *)
(*                                                                         *)
(* Induction goes over sets of good sets (or numbers) instead of over      *)
(* predicates, so every lemma here is first-order.                         *)
(***************************************************************************)
EXTENDS Integers, FiniteSets, Functions, FiniteSetTheorems, TLAPS

\* A non-empty set of naturals has a least element.
LEMMA LeastNat ==
    ASSUME NEW S \in SUBSET Nat, S # {}
    PROVE  \E n \in S : \A m \in S : n <= m
<1>1. PICK x \in S : \A y \in S : ~(<<y, x>> \in OpToRel(<, Nat))
  BY WFMin, NatLessThanWellFounded
<1>2. ASSUME NEW y \in S PROVE x <= y
  <2>1. x \in Nat /\ y \in Nat /\ <<y, x>> \in Nat \X Nat
    OBVIOUS
  <2>2. ~(y < x)
    BY <1>1, <2>1 DEF OpToRel
  <2> QED BY <2>1, <2>2
<1> QED BY <1>2

\* Mathematical induction.
LEMMA NatGood ==
    ASSUME NEW Good, 0 \in Good, \A n \in Nat : n \in Good => n + 1 \in Good
    PROVE  Nat \subseteq Good
<1> DEFINE Bad == Nat \ Good
<1> SUFFICES ASSUME Bad # {} PROVE FALSE
  OBVIOUS
<1>1. PICK k \in Bad : \A m \in Bad : k <= m
  BY LeastNat
<1>2. k # 0 /\ k - 1 \in Nat /\ k - 1 \notin Bad
  BY <1>1
<1>3. (k - 1) + 1 \in Good
  BY <1>2
<1> QED BY <1>1, <1>2, <1>3

\* One element less.
LEMMA OneLess ==
    ASSUME NEW S, IsFiniteSet(S), NEW x \in S
    PROVE  /\ IsFiniteSet(S \ {x})
           /\ Cardinality(S \ {x}) = Cardinality(S) - 1
           /\ Cardinality(S) \in Nat /\ Cardinality(S) - 1 \in Nat
<1>1. IsFiniteSet(S \ {x}) /\ Cardinality(S \ {x}) = Cardinality(S) - 1
  BY FS_RemoveElement
<1>2. Cardinality(S \ {x}) \in Nat /\ Cardinality(S) \in Nat
  BY <1>1, FS_CardinalityType
<1> QED BY <1>1, <1>2

\* A set is good if every set with fewer of its elements being good makes it good.
LEMMA SubsetGood ==
    ASSUME NEW S, IsFiniteSet(S), NEW Good,
           \A r \in SUBSET S : (\A x \in r : r \ {x} \in Good) => r \in Good
    PROVE  SUBSET S \subseteq Good
<1> DEFINE Bad == {k \in Nat : \E r \in SUBSET S : Cardinality(r) = k /\ r \notin Good}
<1>0. \A r \in SUBSET S : IsFiniteSet(r) /\ Cardinality(r) \in Nat
  BY FS_Subset, FS_CardinalityType
<1> SUFFICES ASSUME Bad # {} PROVE FALSE
  BY <1>0
<1>1. PICK k \in Bad : \A m \in Bad : k <= m
  BY LeastNat
<1>2. PICK r \in SUBSET S : Cardinality(r) = k /\ r \notin Good
  BY <1>1
<1>3. ASSUME NEW x \in r PROVE r \ {x} \in Good
  <2>1. Cardinality(r \ {x}) = k - 1 /\ k \in Nat /\ k - 1 \in Nat
    BY <1>0, <1>2, OneLess
  <2>2. r \ {x} \in SUBSET S /\ k - 1 \notin Bad
    BY <1>1, <2>1
  <2> QED BY <2>1, <2>2
<1> QED BY <1>2, <1>3

-----------------------------------------------------------------------------
(* The recursion *)

Picked(s) == CHOOSE x \in s : TRUE

\* One step of the recursion, given the sums of the smaller sets.
SumStep(g, f, s) == IF s = {} THEN 0 ELSE f[Picked(s)] + g[s \ {Picked(s)}]

\* g tabulates the sums of f over the sets of D.
IsSumTable(g, f, D) == g = [s \in D |-> SumStep(g, f, s)]

UpTo(S, n) == {s \in SUBSET S : Cardinality(s) <= n}

\* The picked element is one of the set.
LEMMA PickedIn == ASSUME NEW s, s # {} PROVE Picked(s) \in s
BY DEF Picked

\* The definition of the community modules, unfolded.
LEMMA SumIsTable ==
    ASSUME NEW f, NEW S
    PROVE  SumFunctionOnSet(f, S) = (CHOOSE g : IsSumTable(g, f, SUBSET S))[S]
BY DEF SumFunctionOnSet, FoldFunctionOnSet, MapThenFoldSet, IsSumTable, SumStep, Picked

\* There is a table for the sets of at most n elements.
LEMMA TableUpTo ==
    ASSUME NEW f, NEW S, IsFiniteSet(S), NEW n \in Nat
    PROVE  \E g : IsSumTable(g, f, UpTo(S, n))
<1> DEFINE Good == {k \in Nat : \E g : IsSumTable(g, f, UpTo(S, k))}
<1>1. 0 \in Good
  <2>1. UpTo(S, 0) = {{}}
    BY FS_EmptySet, FS_Subset, FS_CardinalityType DEF UpTo
  <2>2. IsSumTable([s \in {{}} |-> 0], f, {{}})
    BY DEF IsSumTable, SumStep
  <2> QED BY <2>1, <2>2
<1>2. ASSUME NEW k \in Nat, k \in Good PROVE k + 1 \in Good
  <2>1. PICK g : IsSumTable(g, f, UpTo(S, k))
    BY <1>2
  <2> DEFINE h == [s \in UpTo(S, k + 1) |-> SumStep(g, f, s)]
  <2>2. ASSUME NEW s \in UpTo(S, k + 1), s # {}
        PROVE  h[s \ {Picked(s)}] = g[s \ {Picked(s)}]
    <3> DEFINE r == s \ {Picked(s)}
    <3>1. IsFiniteSet(s) /\ Picked(s) \in s /\ Cardinality(s) <= k + 1
      BY <2>2, PickedIn, FS_Subset DEF UpTo
    <3>2. Cardinality(r) = Cardinality(s) - 1 /\ Cardinality(s) \in Nat
      BY <3>1, OneLess
    <3>3. r \in UpTo(S, k) /\ r \in UpTo(S, k + 1)
      BY <3>1, <3>2 DEF UpTo
    <3>4. h[r] = SumStep(g, f, r)
      BY <3>3
    <3>5. g[r] = SumStep(g, f, r)
      BY <2>1, <3>3 DEF IsSumTable
    <3> QED BY <3>4, <3>5
  <2>3. ASSUME NEW s \in UpTo(S, k + 1) PROVE SumStep(h, f, s) = SumStep(g, f, s)
    <3>1. s # {} => h[s \ {Picked(s)}] = g[s \ {Picked(s)}]
      BY <2>2
    <3> HIDE DEF h
    <3> QED BY <3>1 DEF SumStep
  <2>4. IsSumTable(h, f, UpTo(S, k + 1))
    BY <2>3 DEF IsSumTable
  <2> QED BY <2>4
<1> HIDE DEF Good
<1>3. Nat \subseteq Good
  BY <1>1, <1>2, NatGood
<1> QED BY <1>3 DEF Good

\* There is a table for all subsets of a finite set.
LEMMA TableExists ==
    ASSUME NEW f, NEW S, IsFiniteSet(S)
    PROVE  \E g : IsSumTable(g, f, SUBSET S)
<1>1. Cardinality(S) \in Nat
  BY FS_CardinalityType
<1>2. UpTo(S, Cardinality(S)) = SUBSET S
  BY FS_Subset DEF UpTo
<1>3. \E g : IsSumTable(g, f, UpTo(S, Cardinality(S)))
  BY <1>1, TableUpTo
<1> QED BY <1>2, <1>3

\* The tables of a set and of one of its subsets agree.
LEMMA TablesAgree ==
    ASSUME NEW f, NEW S, IsFiniteSet(S), NEW T \in SUBSET S, NEW g, NEW h,
           IsSumTable(g, f, SUBSET S), IsSumTable(h, f, SUBSET T)
    PROVE  \A s \in SUBSET T : g[s] = h[s]
<1> DEFINE Good == {r \in SUBSET T : g[r] = h[r]}
<1>1. ASSUME NEW r \in SUBSET T, \A x \in r : r \ {x} \in Good PROVE r \in Good
  <2>1. g[r] = SumStep(g, f, r) /\ h[r] = SumStep(h, f, r)
    BY DEF IsSumTable
  <2>2. r # {} => g[r \ {Picked(r)}] = h[r \ {Picked(r)}]
    BY <1>1, PickedIn
  <2> QED BY <2>1, <2>2 DEF SumStep
<1>2. IsFiniteSet(T)
  BY FS_Subset
<1> HIDE DEF Good
<1>3. SUBSET T \subseteq Good
  BY <1>1, <1>2, SubsetGood
<1> QED BY <1>3 DEF Good

\* The recursion the definition promises.
LEMMA SumUnfold ==
    ASSUME NEW f, NEW S, IsFiniteSet(S)
    PROVE  SumFunctionOnSet(f, S) =
             IF S = {} THEN 0
             ELSE f[Picked(S)] + SumFunctionOnSet(f, S \ {Picked(S)})
<1> DEFINE T == S \ {Picked(S)}
           g == CHOOSE u : IsSumTable(u, f, SUBSET S)
           h == CHOOSE u : IsSumTable(u, f, SUBSET T)
<1>1. IsFiniteSet(T) /\ T \in SUBSET S
  BY FS_RemoveElement
<1>2. IsSumTable(g, f, SUBSET S) /\ IsSumTable(h, f, SUBSET T)
  BY <1>1, TableExists
<1>3. SumFunctionOnSet(f, S) = g[S] /\ SumFunctionOnSet(f, T) = h[T]
  BY SumIsTable
<1> HIDE DEF g, h
<1>4. g[T] = h[T]
  <2> HIDE DEF T
  <2>1. T \in SUBSET T
    OBVIOUS
  <2> QED BY <1>1, <1>2, <2>1, TablesAgree, SMTT(30)
<1>5. g[S] = SumStep(g, f, S)
  BY <1>2 DEF IsSumTable
<1> QED BY <1>3, <1>4, <1>5 DEF SumStep

-----------------------------------------------------------------------------
(* What the components use *)

\* Nothing to add up.
LEMMA SumEmpty == ASSUME NEW f PROVE SumFunctionOnSet(f, {}) = 0
BY SumUnfold, FS_EmptySet

\* A sum of integers is an integer.
LEMMA SumInt ==
    ASSUME NEW S, IsFiniteSet(S), NEW f, \A x \in S : f[x] \in Int
    PROVE  SumFunctionOnSet(f, S) \in Int
<1> DEFINE Good == {r \in SUBSET S : SumFunctionOnSet(f, r) \in Int}
<1>1. ASSUME NEW r \in SUBSET S, \A x \in r : r \ {x} \in Good PROVE r \in Good
  <2>1. CASE r = {}
    BY <2>1, SumEmpty
  <2>2. CASE r # {}
    <3>1. Picked(r) \in r /\ IsFiniteSet(r)
      BY <2>2, PickedIn, FS_Subset
    <3>2. SumFunctionOnSet(f, r) = f[Picked(r)] + SumFunctionOnSet(f, r \ {Picked(r)})
      BY <2>2, <3>1, SumUnfold
    <3>3. SumFunctionOnSet(f, r \ {Picked(r)}) \in Int
      BY <1>1, <3>1
    <3> QED BY <3>1, <3>2, <3>3
  <2> QED BY <2>1, <2>2
<1> HIDE DEF Good
<1>2. SUBSET S \subseteq Good
  BY <1>1, SubsetGood
<1> QED BY <1>2 DEF Good

\* Any element may be taken out first.
LEMMA SumRemove ==
    ASSUME NEW S, IsFiniteSet(S), NEW f, \A x \in S : f[x] \in Int, NEW e \in S
    PROVE  SumFunctionOnSet(f, S) = f[e] + SumFunctionOnSet(f, S \ {e})
<1> DEFINE Good == {r \in SUBSET S : \A x \in r :
                       SumFunctionOnSet(f, r) = f[x] + SumFunctionOnSet(f, r \ {x})}
<1>1. ASSUME NEW r \in SUBSET S, \A x \in r : r \ {x} \in Good, NEW x \in r
      PROVE  SumFunctionOnSet(f, r) = f[x] + SumFunctionOnSet(f, r \ {x})
  <2> DEFINE c == Picked(r)
             q == r \ {c}
             p == r \ {x}
  <2>1. c \in r /\ SumFunctionOnSet(f, r) = f[c] + SumFunctionOnSet(f, q)
    BY PickedIn, SumUnfold, FS_Subset
  <2> HIDE DEF c
  <2>2. CASE c = x
    BY <2>1, <2>2
  <2>3. CASE c # x
    <3>1. x \in q /\ c \in p /\ q \in Good /\ p \in Good
      BY <1>1, <2>1, <2>3
    <3>2. /\ SumFunctionOnSet(f, q) = f[x] + SumFunctionOnSet(f, q \ {x})
          /\ SumFunctionOnSet(f, p) = f[c] + SumFunctionOnSet(f, p \ {c})
      BY <3>1
    <3>3. q \ {x} = p \ {c} /\ q \ {x} \in SUBSET S
      BY <1>1
    <3>4. f[x] \in Int /\ f[c] \in Int /\ SumFunctionOnSet(f, q \ {x}) \in Int
      BY <2>1, <3>3, FS_Subset, SumInt
    <3> DEFINE rest == SumFunctionOnSet(f, q \ {x})
    <3>5. SumFunctionOnSet(f, p) = f[c] + rest
      BY <3>2, <3>3
    <3>6. SumFunctionOnSet(f, r) = f[c] + (f[x] + rest)
      BY <2>1, <3>2
    <3> HIDE DEF rest, q
    <3> QED BY <3>4, <3>5, <3>6 DEF rest
  <2> QED BY <2>2, <2>3
<1>2. \A r \in SUBSET S : (\A x \in r : r \ {x} \in Good) => r \in Good
  BY <1>1
<1> HIDE DEF Good
<1>3. SUBSET S \subseteq Good
  BY <1>2, SubsetGood
<1> QED BY <1>3 DEF Good

\* One more element.
LEMMA SumAddElement ==
    ASSUME NEW S, IsFiniteSet(S), NEW f, NEW e, e \notin S,
           \A x \in S \cup {e} : f[x] \in Int
    PROVE  SumFunctionOnSet(f, S \cup {e}) = f[e] + SumFunctionOnSet(f, S)
<1>1. IsFiniteSet(S \cup {e}) /\ (S \cup {e}) \ {e} = S /\ e \in S \cup {e}
  BY FS_AddElement
<1> QED BY <1>1, SumRemove

\* The sum of sums, element by element.
LEMMA SumPlus ==
    ASSUME NEW S, IsFiniteSet(S), NEW f, NEW g, NEW h,
           \A x \in S : f[x] \in Int /\ g[x] \in Int /\ h[x] = f[x] + g[x]
    PROVE  SumFunctionOnSet(h, S) = SumFunctionOnSet(f, S) + SumFunctionOnSet(g, S)
<1> DEFINE Good == {r \in SUBSET S :
              SumFunctionOnSet(h, r) = SumFunctionOnSet(f, r) + SumFunctionOnSet(g, r)}
<1>1. ASSUME NEW r \in SUBSET S, \A x \in r : r \ {x} \in Good PROVE r \in Good
  <2>1. CASE r = {}
    BY <2>1, SumEmpty
  <2>2. CASE r # {}
    <3>1. PICK e \in r : TRUE
      BY <2>2
    <3>2. IsFiniteSet(r) /\ IsFiniteSet(r \ {e})
      BY FS_Subset
    <3>3. /\ SumFunctionOnSet(h, r) = h[e] + SumFunctionOnSet(h, r \ {e})
          /\ SumFunctionOnSet(f, r) = f[e] + SumFunctionOnSet(f, r \ {e})
          /\ SumFunctionOnSet(g, r) = g[e] + SumFunctionOnSet(g, r \ {e})
      BY <3>2, SumRemove
    <3>4. SumFunctionOnSet(f, r \ {e}) \in Int /\ SumFunctionOnSet(g, r \ {e}) \in Int
      BY <3>2, SumInt
    <3>5. SumFunctionOnSet(h, r \ {e})
            = SumFunctionOnSet(f, r \ {e}) + SumFunctionOnSet(g, r \ {e})
      BY <1>1
    <3> QED BY <3>3, <3>4, <3>5
  <2> QED BY <2>1, <2>2
<1> HIDE DEF Good
<1>2. SUBSET S \subseteq Good
  BY <1>1, SubsetGood
<1> QED BY <1>2 DEF Good

\* The same for differences.
LEMMA SumMinus ==
    ASSUME NEW S, IsFiniteSet(S), NEW f, NEW g, NEW h,
           \A x \in S : f[x] \in Int /\ g[x] \in Int /\ h[x] = f[x] - g[x]
    PROVE  SumFunctionOnSet(h, S) = SumFunctionOnSet(f, S) - SumFunctionOnSet(g, S)
<1>1. SumFunctionOnSet(f, S) = SumFunctionOnSet(h, S) + SumFunctionOnSet(g, S)
  BY SumPlus
<1>2. SumFunctionOnSet(h, S) \in Int /\ SumFunctionOnSet(g, S) \in Int
  BY SumInt
<1> QED BY <1>1, <1>2

\* The sum of zeros.
LEMMA SumZero ==
    ASSUME NEW S, IsFiniteSet(S), NEW f, \A x \in S : f[x] = 0
    PROVE  SumFunctionOnSet(f, S) = 0
<1>1. SumFunctionOnSet(f, S) = SumFunctionOnSet(f, S) + SumFunctionOnSet(f, S)
  BY SumPlus
<1> QED BY <1>1, SumInt

\* Only the values count.
LEMMA SumEqual ==
    ASSUME NEW S, IsFiniteSet(S), NEW f, NEW g,
           \A x \in S : f[x] \in Int /\ g[x] = f[x]
    PROVE  SumFunctionOnSet(g, S) = SumFunctionOnSet(f, S)
<1> DEFINE z == [x \in S |-> 0]
<1>1. SumFunctionOnSet(z, S) = 0
  BY SumZero
<1>2. SumFunctionOnSet(g, S) = SumFunctionOnSet(f, S) + SumFunctionOnSet(z, S)
  BY SumPlus
<1> QED BY <1>1, <1>2, SumInt

\* One value changes.
LEMMA SumChange ==
    ASSUME NEW S, IsFiniteSet(S), NEW f, NEW g, NEW e \in S,
           \A x \in S : f[x] \in Int /\ g[x] \in Int,
           \A x \in S \ {e} : g[x] = f[x]
    PROVE  SumFunctionOnSet(g, S) = SumFunctionOnSet(f, S) + (g[e] - f[e])
<1>1. IsFiniteSet(S \ {e})
  BY FS_RemoveElement
<1>2. /\ SumFunctionOnSet(f, S) = f[e] + SumFunctionOnSet(f, S \ {e})
      /\ SumFunctionOnSet(g, S) = g[e] + SumFunctionOnSet(g, S \ {e})
  BY SumRemove
<1>3. SumFunctionOnSet(g, S \ {e}) = SumFunctionOnSet(f, S \ {e})
  BY <1>1, SumEqual
<1>4. SumFunctionOnSet(f, S \ {e}) \in Int
  BY <1>1, SumInt
<1> QED BY <1>2, <1>3, <1>4

\* Nothing outside of T counts.
LEMMA SumWithin ==
    ASSUME NEW S, IsFiniteSet(S), NEW T \in SUBSET S, NEW f,
           \A x \in S : f[x] \in Int, \A x \in S \ T : f[x] = 0
    PROVE  SumFunctionOnSet(f, S) = SumFunctionOnSet(f, T)
<1> DEFINE Good == {r \in SUBSET S : SumFunctionOnSet(f, r) = SumFunctionOnSet(f, r \cap T)}
<1>1. ASSUME NEW r \in SUBSET S, \A x \in r : r \ {x} \in Good PROVE r \in Good
  <2>0. IsFiniteSet(r) /\ IsFiniteSet(r \cap T)
    BY FS_Subset
  <2>1. CASE r \subseteq T
    <3>1. r \cap T = r
      BY <2>1
    <3> QED BY <3>1
  <2>2. CASE ~(r \subseteq T)
    <3>1. PICK e \in r : e \notin T
      BY <2>2
    <3>2. SumFunctionOnSet(f, r) = f[e] + SumFunctionOnSet(f, r \ {e})
      BY <2>0, SumRemove
    <3>3. f[e] = 0 /\ (r \ {e}) \cap T = r \cap T
      BY <3>1
    <3>4. SumFunctionOnSet(f, r \ {e}) = SumFunctionOnSet(f, r \cap T)
      BY <1>1, <3>3
    <3>5. SumFunctionOnSet(f, r \cap T) \in Int
      BY <2>0, SumInt
    <3> QED BY <3>2, <3>3, <3>4, <3>5
  <2> QED BY <2>1, <2>2
<1> HIDE DEF Good
<1>2. SUBSET S \subseteq Good
  BY <1>1, SubsetGood
<1>3. S \cap T = T
  OBVIOUS
<1> QED BY <1>2, <1>3 DEF Good

\* Smaller values, smaller sum.
LEMMA SumAtMost ==
    ASSUME NEW S, IsFiniteSet(S), NEW f, NEW g,
           \A x \in S : f[x] \in Int /\ g[x] \in Int /\ f[x] <= g[x]
    PROVE  SumFunctionOnSet(f, S) <= SumFunctionOnSet(g, S)
<1> DEFINE Good == {r \in SUBSET S : SumFunctionOnSet(f, r) <= SumFunctionOnSet(g, r)}
<1>1. ASSUME NEW r \in SUBSET S, \A x \in r : r \ {x} \in Good PROVE r \in Good
  <2>1. CASE r = {}
    BY <2>1, SumEmpty
  <2>2. CASE r # {}
    <3>1. PICK e \in r : TRUE
      BY <2>2
    <3>2. IsFiniteSet(r) /\ IsFiniteSet(r \ {e})
      BY FS_Subset
    <3>3. /\ SumFunctionOnSet(f, r) = f[e] + SumFunctionOnSet(f, r \ {e})
          /\ SumFunctionOnSet(g, r) = g[e] + SumFunctionOnSet(g, r \ {e})
      BY <3>2, SumRemove
    <3>4. SumFunctionOnSet(f, r \ {e}) \in Int /\ SumFunctionOnSet(g, r \ {e}) \in Int
      BY <3>2, SumInt
    <3>5. SumFunctionOnSet(f, r \ {e}) <= SumFunctionOnSet(g, r \ {e})
      BY <1>1
    <3> QED BY <3>3, <3>4, <3>5
  <2> QED BY <2>1, <2>2
<1> HIDE DEF Good
<1>2. SUBSET S \subseteq Good
  BY <1>1, SubsetGood
<1> QED BY <1>2 DEF Good

\* A sum of naturals is a natural.
LEMMA SumNat ==
    ASSUME NEW S, IsFiniteSet(S), NEW f, \A x \in S : f[x] \in Nat
    PROVE  SumFunctionOnSet(f, S) \in Nat
<1> DEFINE z == [x \in S |-> 0]
<1>1. SumFunctionOnSet(z, S) = 0
  BY SumZero
<1>2. SumFunctionOnSet(z, S) <= SumFunctionOnSet(f, S)
  BY SumAtMost
<1>3. SumFunctionOnSet(f, S) \in Int
  BY SumInt
<1> QED BY <1>1, <1>2, <1>3

\* The sum over a subset is no larger.
LEMMA SumSubset ==
    ASSUME NEW S, IsFiniteSet(S), NEW T \in SUBSET S, NEW f, \A x \in S : f[x] \in Nat
    PROVE  SumFunctionOnSet(f, T) <= SumFunctionOnSet(f, S)
<1> DEFINE g == [x \in S |-> IF x \in T THEN f[x] ELSE 0]
<1>0. IsFiniteSet(T)
  BY FS_Subset
<1>1. \A x \in S : g[x] \in Int /\ f[x] \in Int /\ g[x] <= f[x]
  OBVIOUS
<1>2. (\A x \in S \ T : g[x] = 0) /\ \A x \in T : f[x] \in Int /\ g[x] = f[x]
  OBVIOUS
<1> HIDE DEF g
<1>3. SumFunctionOnSet(g, S) <= SumFunctionOnSet(f, S)
  BY <1>1, SumAtMost
<1>4. SumFunctionOnSet(g, S) = SumFunctionOnSet(g, T)
  BY <1>1, <1>2, SumWithin
<1>5. SumFunctionOnSet(g, T) = SumFunctionOnSet(f, T)
  BY <1>0, <1>2, SumEqual
<1> QED BY <1>3, <1>4, <1>5
=============================================================================
