------------------------------ MODULE SumLemmas ------------------------------
(***************************************************************************)
(* Facts about the community modules' SumFunctionOnSet over finite sets,   *)
(* for the totals of the models: what a sum unfolds to, how it moves when  *)
(* an element or a value changes, and its type.  SumFunctionOnSet is a     *)
(* CHOOSE of a recursive function, so the first half shows that such a     *)
(* function exists; the theorems after it never look inside again.         *)
(* SetMove says the same of a set that gains or loses one element.         *)
(***************************************************************************)
EXTENDS Integers, FiniteSets, Functions, FiniteSetTheorems, WellFoundedInduction,
        TLAPS

\* The element the community modules' fold takes first.
Pick(s) == CHOOSE x \in s : TRUE

\* What a table of partial sums satisfies: over the subsets in D, the sum of a
\* set is its picked element's value plus the sum of the rest.
SumBody(f, D, g) ==
  [s \in D |-> IF s = {} THEN 0 ELSE f[Pick(s)] + g[s \ {Pick(s)}]]

\* The table SumFunctionOnSet(f, S) is read from.
SumTable(f, S) == CHOOSE g : g = SumBody(f, SUBSET S, g)

\* The subsets of S with at most n elements.
UpTo(S, n) == {s \in SUBSET S : Cardinality(s) <= n}

\* SumFunctionOnSet is an entry of its table.
LEMMA SumFromTable ==
  ASSUME NEW f, NEW S
  PROVE  SumFunctionOnSet(f, S) = SumTable(f, S)[S]
BY DEF SumFunctionOnSet, FoldFunctionOnSet, MapThenFoldSet, SumTable, SumBody, Pick

\* Picking from a finite nonempty set leaves a finite set with one less.
LEMMA PickRemoved ==
  ASSUME NEW s, IsFiniteSet(s), s # {}
  PROVE  /\ Pick(s) \in s
         /\ IsFiniteSet(s \ {Pick(s)})
         /\ Cardinality(s) \in Nat
         /\ Cardinality(s \ {Pick(s)}) = Cardinality(s) - 1
<1>1. Pick(s) \in s BY DEF Pick
<1> QED BY <1>1, FS_RemoveElement, FS_CardinalityType

\* A nonempty set of naturals has a least element.
LEMMA LeastElement ==
  ASSUME NEW T \in SUBSET Nat, T # {}
  PROVE  \E n \in T : \A k \in T : n <= k
<1>1. PICK n \in T : \A k \in T : <<k, n>> \notin OpToRel(<, Nat)
  BY NatLessThanWellFounded, WFMin
<1>2. \A k \in T : ~(k < n) BY <1>1 DEF OpToRel
<1> QED BY <1>2

\* A table of sums exists for the subsets of at most n elements: by the least n
\* for which it would not.
LEMMA TableUpTo ==
  ASSUME NEW f, NEW S, IsFiniteSet(S), NEW n \in Nat
  PROVE  \E g : g = SumBody(f, UpTo(S, n), g)
<1> DEFINE Bad == {m \in Nat : ~ \E g : g = SumBody(f, UpTo(S, m), g)}
<1> SUFFICES ASSUME n \in Bad PROVE FALSE OBVIOUS
<1>1. PICK m \in Bad : \A k \in Bad : m <= k
  <2> Bad \in SUBSET Nat /\ Bad # {} OBVIOUS
  <2> HIDE DEF Bad
  <2> QED BY LeastElement
<1> HIDE DEF Bad
<1>2. m \in Nat /\ ~ \E g : g = SumBody(f, UpTo(S, m), g) BY DEF Bad
<1>fin. \A s \in SUBSET S : IsFiniteSet(s) BY FS_Subset
<1>3. CASE m = 0
  <2> DEFINE g == [s \in UpTo(S, 0) |-> 0]
  <2>1. \A s \in UpTo(S, 0) : s = {}
    <3> SUFFICES ASSUME NEW s \in SUBSET S, Cardinality(s) <= 0 PROVE s = {} BY DEF UpTo
    <3> QED BY <1>fin, FS_CardinalityType, FS_EmptySet
  <2>2. g = SumBody(f, UpTo(S, 0), g) BY <2>1 DEF SumBody
  <2> QED BY <1>2, <1>3, <2>2
<1>4. CASE m # 0
  <2>1. m - 1 \in Nat /\ m - 1 \notin Bad BY <1>1, <1>2, <1>4
  <2>2. PICK h : h = SumBody(f, UpTo(S, m - 1), h) BY <2>1 DEF Bad
  <2> DEFINE g == [s \in UpTo(S, m) |-> IF s = {} THEN 0
                                        ELSE f[Pick(s)] + h[s \ {Pick(s)}]]
  <2>3. ASSUME NEW s \in UpTo(S, m), s # {}
        PROVE  g[s \ {Pick(s)}] = h[s \ {Pick(s)}]
    <3> DEFINE t == s \ {Pick(s)}
    <3>1. s \in SUBSET S /\ IsFiniteSet(s) /\ Cardinality(s) <= m BY <2>3, <1>fin DEF UpTo
    <3>a. t \in SUBSET S /\ Cardinality(t) = Cardinality(s) - 1 /\ Cardinality(s) \in Nat
      BY <3>1, <2>3, PickRemoved
    <3>b. m \in Nat BY <1>2
    <3>2. t \in UpTo(S, m - 1) /\ t \in UpTo(S, m) BY <3>1, <3>a, <3>b DEF UpTo
    <3>3. g[t] = IF t = {} THEN 0 ELSE f[Pick(t)] + h[t \ {Pick(t)}] BY <3>2
    <3>4. h[t] = IF t = {} THEN 0 ELSE f[Pick(t)] + h[t \ {Pick(t)}] BY <2>2, <3>2 DEF SumBody
    <3> QED BY <3>3, <3>4
  <2>4. g = SumBody(f, UpTo(S, m), g) BY <2>3 DEF SumBody
  <2> HIDE DEF g
  <2> QED BY <1>2, <2>4
<1> QED BY <1>3, <1>4

\* A nonempty family of subsets of a finite set has a member with none below.
LEMMA SmallestSubset ==
  ASSUME NEW S, IsFiniteSet(S), NEW B \in SUBSET (SUBSET S), B # {}
  PROVE  \E t \in B : \A u \in B : u \subseteq t => u = t
<1>1. IsWellFoundedOn(StrictSubsetOrdering(S), SUBSET S)
  BY FS_StrictSubsetOrderingWellFounded, FS_FiniteSubsetsOfFinite
<1>2. PICK t \in B : \A u \in B : <<u, t>> \notin StrictSubsetOrdering(S)
  BY <1>1, WFMin
<1> QED BY <1>2 DEF StrictSubsetOrdering

\* The CHOOSE in SumTable picks a function that satisfies SumBody.
LEMMA TableExists ==
  ASSUME NEW f, NEW S, IsFiniteSet(S)
  PROVE  SumTable(f, S) = SumBody(f, SUBSET S, SumTable(f, S))
<1>1. Cardinality(S) \in Nat BY FS_CardinalityType
<1>2. UpTo(S, Cardinality(S)) = SUBSET S BY FS_Subset DEF UpTo
<1>3. \E g : g = SumBody(f, SUBSET S, g) BY <1>1, <1>2, TableUpTo, ZenonT(30)
<1> QED BY <1>3 DEF SumTable

\* The table's entries unfold by one element.
LEMMA TableAt ==
  ASSUME NEW f, NEW S, IsFiniteSet(S), NEW s \in SUBSET S
  PROVE  SumTable(f, S)[s] = IF s = {} THEN 0
                             ELSE f[Pick(s)] + SumTable(f, S)[s \ {Pick(s)}]
<1> DEFINE g == SumTable(f, S)
<1>1. g = SumBody(f, SUBSET S, g) BY TableExists
<1> HIDE DEF g
<1>2. g[s] = IF s = {} THEN 0 ELSE f[Pick(s)] + g[s \ {Pick(s)}] BY <1>1 DEF SumBody
<1> QED BY <1>2 DEF g

\* Two tables agree on a set where their functions do, whatever the sets they
\* were built for: by a smallest set on which they differ.
LEMMA TablesAgree ==
  ASSUME NEW f, NEW g, NEW S, NEW U, IsFiniteSet(S), IsFiniteSet(U),
         NEW T \in (SUBSET S) \cap (SUBSET U), \A x \in T : f[x] = g[x]
  PROVE  SumTable(f, S)[T] = SumTable(g, U)[T]
<1> DEFINE Differ == {t \in SUBSET T : SumTable(f, S)[t] # SumTable(g, U)[t]}
<1> SUFFICES ASSUME Differ # {} PROVE FALSE OBVIOUS
<1>1. IsFiniteSet(T) /\ Differ \in SUBSET (SUBSET T) BY FS_Subset
<1>2. PICK t \in Differ : \A u \in Differ : u \subseteq t => u = t
  <2> HIDE DEF Differ
  <2> QED BY <1>1, SmallestSubset
<1>3. /\ t \in SUBSET S /\ t \in SUBSET U /\ t \in SUBSET T
      /\ SumTable(f, S)[t] # SumTable(g, U)[t]
  OBVIOUS
<1>a. SumTable(f, S)[{}] = 0 /\ SumTable(g, U)[{}] = 0
  <2>1. {} \in SUBSET S /\ {} \in SUBSET U OBVIOUS
  <2> QED BY <2>1, TableAt
<1>4. t # {}
  <2> HIDE DEF Differ
  <2> QED BY <1>3, <1>a
<1> DEFINE p == Pick(t)
           r == t \ {p}
<1>5. p \in t BY <1>4 DEF Pick
<1>6. r \notin Differ BY <1>2, <1>5
<1>7. SumTable(f, S)[r] = SumTable(g, U)[r] BY <1>3, <1>6
<1>8. /\ SumTable(f, S)[t] = f[p] + SumTable(f, S)[r]
      /\ SumTable(g, U)[t] = g[p] + SumTable(g, U)[r]
  BY <1>3, <1>4, TableAt
<1>9. f[p] = g[p] BY <1>3, <1>5
<1> QED BY <1>3, <1>7, <1>8, <1>9

\* The sum over a finite set depends only on the function's values there.
THEOREM SumCongruent ==
  ASSUME NEW f, NEW g, NEW S, IsFiniteSet(S), \A x \in S : f[x] = g[x]
  PROVE  SumFunctionOnSet(f, S) = SumFunctionOnSet(g, S)
BY SumFromTable, TablesAgree

\* The sum over nothing is 0.
THEOREM SumEmpty ==
  ASSUME NEW f
  PROVE  SumFunctionOnSet(f, {}) = 0
BY SumFromTable, TableAt, FS_EmptySet

\* A sum unfolds by the element the fold picks.
LEMMA SumPick ==
  ASSUME NEW f, NEW S, IsFiniteSet(S), S # {}
  PROVE  SumFunctionOnSet(f, S) = f[Pick(S)] + SumFunctionOnSet(f, S \ {Pick(S)})
<1> DEFINE T == S \ {Pick(S)}
<1>1. IsFiniteSet(T) /\ T \in SUBSET S BY FS_Subset
<1>2. SumTable(f, S)[T] = SumTable(f, T)[T] BY <1>1, TablesAgree
<1> QED BY <1>1, <1>2, TableAt, SumFromTable

\* A finite sum of integers is an integer.
THEOREM SumType ==
  ASSUME NEW f, NEW S, IsFiniteSet(S), \A x \in S : f[x] \in Int
  PROVE  SumFunctionOnSet(f, S) \in Int
<1> DEFINE Bad == {t \in SUBSET S : SumFunctionOnSet(f, t) \notin Int}
<1> SUFFICES ASSUME Bad # {} PROVE FALSE OBVIOUS
<1>1. PICK t \in Bad : \A u \in Bad : u \subseteq t => u = t
  <2> Bad \in SUBSET (SUBSET S) OBVIOUS
  <2> HIDE DEF Bad
  <2> QED BY SmallestSubset
<1>2. t \in SUBSET S /\ IsFiniteSet(t) /\ SumFunctionOnSet(f, t) \notin Int
  BY FS_Subset
<1>3. t # {} BY <1>2, SumEmpty
<1> DEFINE p == Pick(t)
           r == t \ {p}
<1>4. p \in t BY <1>3 DEF Pick
<1>5. r \notin Bad BY <1>1, <1>4
<1>6. SumFunctionOnSet(f, r) \in Int BY <1>2, <1>5
<1>7. SumFunctionOnSet(f, t) = f[p] + SumFunctionOnSet(f, r) BY <1>2, <1>3, SumPick
<1>8. f[p] \in Int BY <1>2, <1>4
<1> QED BY <1>2, <1>6, <1>7, <1>8

\* A finite sum of naturals is a natural.
THEOREM SumNat ==
  ASSUME NEW f, NEW S, IsFiniteSet(S), \A x \in S : f[x] \in Nat
  PROVE  SumFunctionOnSet(f, S) \in Nat
<1> DEFINE Bad == {t \in SUBSET S : SumFunctionOnSet(f, t) \notin Nat}
<1> SUFFICES ASSUME Bad # {} PROVE FALSE OBVIOUS
<1>1. PICK t \in Bad : \A u \in Bad : u \subseteq t => u = t
  <2> Bad \in SUBSET (SUBSET S) OBVIOUS
  <2> HIDE DEF Bad
  <2> QED BY SmallestSubset
<1>2. t \in SUBSET S /\ IsFiniteSet(t) /\ SumFunctionOnSet(f, t) \notin Nat
  BY FS_Subset
<1>3. t # {} BY <1>2, SumEmpty
<1> DEFINE p == Pick(t)
           r == t \ {p}
<1>4. p \in t BY <1>3 DEF Pick
<1>5. r \notin Bad BY <1>1, <1>4
<1>6. SumFunctionOnSet(f, r) \in Nat BY <1>2, <1>5
<1>7. SumFunctionOnSet(f, t) = f[p] + SumFunctionOnSet(f, r) BY <1>2, <1>3, SumPick
<1>8. f[p] \in Nat BY <1>2, <1>4
<1> QED BY <1>2, <1>6, <1>7, <1>8

\* A sum unfolds by any of its elements, not just the one the fold picks: by a
\* smallest set where it does not, from which two elements commute.
THEOREM SumRemove ==
  ASSUME NEW f, NEW S, IsFiniteSet(S), \A y \in S : f[y] \in Int, NEW x \in S
  PROVE  SumFunctionOnSet(f, S) = f[x] + SumFunctionOnSet(f, S \ {x})
<1> DEFINE Bad == {t \in SUBSET S : \E y \in t :
                     SumFunctionOnSet(f, t) # f[y] + SumFunctionOnSet(f, t \ {y})}
<1> SUFFICES ASSUME Bad # {} PROVE FALSE OBVIOUS
<1>1. PICK t \in Bad : \A u \in Bad : u \subseteq t => u = t
  <2> Bad \in SUBSET (SUBSET S) OBVIOUS
  <2> HIDE DEF Bad
  <2> QED BY SmallestSubset
<1>2. t \in SUBSET S /\ IsFiniteSet(t) BY FS_Subset
<1>3. PICK y \in t : SumFunctionOnSet(f, t) # f[y] + SumFunctionOnSet(f, t \ {y})
  OBVIOUS
<1> DEFINE p == Pick(t)
           pr == t \ {p}
           yr == t \ {y}
           rest == t \ {p, y}
<1>4. p \in t BY <1>3 DEF Pick
<1>5. SumFunctionOnSet(f, t) = f[p] + SumFunctionOnSet(f, pr) BY <1>2, <1>3, SumPick
<1>6. y # p BY <1>3, <1>5
<1>7. pr \notin Bad /\ yr \notin Bad BY <1>1, <1>3, <1>4
<1>8. SumFunctionOnSet(f, pr) = f[y] + SumFunctionOnSet(f, rest)
  <2>1. pr \in SUBSET S /\ y \in pr /\ pr \ {y} = rest BY <1>2, <1>3, <1>6
  <2> QED BY <2>1, <1>7
<1>9. SumFunctionOnSet(f, yr) = f[p] + SumFunctionOnSet(f, rest)
  <2>1. yr \in SUBSET S /\ p \in yr /\ yr \ {p} = rest BY <1>2, <1>4, <1>6
  <2> QED BY <2>1, <1>7
<1>10. f[y] \in Int /\ f[p] \in Int /\ SumFunctionOnSet(f, rest) \in Int
  <2>1. IsFiniteSet(rest) /\ rest \in SUBSET S BY <1>2, FS_Subset
  <2> QED BY <2>1, <1>2, <1>4, SumType
<1> HIDE DEF pr, yr, rest, p
<1>11. SumFunctionOnSet(f, yr) = SumFunctionOnSet(f, t \ {y}) BY DEF yr
<1> QED BY <1>3, <1>5, <1>8, <1>9, <1>10, <1>11

\* One more element adds its value to the sum.
THEOREM SumAdd ==
  ASSUME NEW f, NEW S, IsFiniteSet(S), NEW x, x \notin S,
         \A y \in S \cup {x} : f[y] \in Int
  PROVE  SumFunctionOnSet(f, S \cup {x}) = f[x] + SumFunctionOnSet(f, S)
<1>1. IsFiniteSet(S \cup {x}) BY FS_AddElement
<1>2. (S \cup {x}) \ {x} = S OBVIOUS
<1> QED BY <1>1, <1>2, SumRemove

\* Changing the function at one element moves the sum by the difference.
THEOREM SumUpdate ==
  ASSUME NEW f, NEW g, NEW S, IsFiniteSet(S), NEW x \in S,
         \A y \in S : f[y] \in Int /\ g[y] \in Int,
         \A y \in S \ {x} : g[y] = f[y]
  PROVE  SumFunctionOnSet(g, S) = SumFunctionOnSet(f, S) - f[x] + g[x]
<1> DEFINE T == S \ {x}
<1>1. IsFiniteSet(T) /\ T \subseteq S BY FS_Subset
<1>2. SumFunctionOnSet(f, T) = SumFunctionOnSet(g, T) BY <1>1, SumCongruent
<1>3. SumFunctionOnSet(f, T) \in Int BY <1>1, SumType
<1>4. /\ SumFunctionOnSet(f, S) = f[x] + SumFunctionOnSet(f, T)
      /\ SumFunctionOnSet(g, S) = g[x] + SumFunctionOnSet(g, T)
  BY SumRemove
<1> QED BY <1>2, <1>3, <1>4

\* A sum of zeros is 0.
THEOREM SumZero ==
  ASSUME NEW f, NEW S, IsFiniteSet(S), \A x \in S : f[x] = 0
  PROVE  SumFunctionOnSet(f, S) = 0
<1> DEFINE Bad == {t \in SUBSET S : SumFunctionOnSet(f, t) # 0}
<1> SUFFICES ASSUME Bad # {} PROVE FALSE OBVIOUS
<1>1. PICK t \in Bad : \A u \in Bad : u \subseteq t => u = t
  <2> Bad \in SUBSET (SUBSET S) OBVIOUS
  <2> HIDE DEF Bad
  <2> QED BY SmallestSubset
<1>2. t \in SUBSET S /\ IsFiniteSet(t) BY <1>1, FS_Subset
<1>3. t # {} BY <1>1, SumEmpty
<1>4. Pick(t) \in t /\ f[Pick(t)] = 0 BY <1>2, <1>3, PickRemoved
<1>5. SumFunctionOnSet(f, t \ {Pick(t)}) = 0 BY <1>1, <1>2, <1>4
<1>6. SumFunctionOnSet(f, t) = f[Pick(t)] + SumFunctionOnSet(f, t \ {Pick(t)})
  BY <1>2, <1>3, SumPick
<1> QED BY <1>1, <1>4, <1>5, <1>6

\* A sum of values that are at most 1 is at most the number of those above 0.
THEOREM SumAtMost ==
  ASSUME NEW f, NEW S, IsFiniteSet(S), \A x \in S : f[x] \in Int /\ f[x] <= 1
  PROVE  SumFunctionOnSet(f, S) <= Cardinality({x \in S : f[x] > 0})
<1> DEFINE Above(t) == {x \in t : f[x] > 0}
           Bad == {t \in SUBSET S : ~(SumFunctionOnSet(f, t) <= Cardinality(Above(t)))}
<1> SUFFICES ASSUME Bad # {} PROVE FALSE OBVIOUS
<1>1. PICK t \in Bad : \A u \in Bad : u \subseteq t => u = t
  <2> Bad \in SUBSET (SUBSET S) OBVIOUS
  <2> HIDE DEF Bad
  <2> QED BY SmallestSubset
<1>2. t \in SUBSET S /\ IsFiniteSet(t) BY <1>1, FS_Subset
<1>3. Above({}) = {} /\ Cardinality({}) = 0 BY FS_EmptySet
<1>4. t # {}
  <2>1. ~(SumFunctionOnSet(f, t) <= Cardinality(Above(t))) BY <1>1
  <2>2. SumFunctionOnSet(f, {}) = 0 /\ 0 <= 0 BY SumEmpty
  <2> HIDE DEF Above
  <2> QED BY <1>3, <2>1, <2>2
<1> DEFINE p == Pick(t)
           r == t \ {p}
<1>5. p \in t /\ IsFiniteSet(r) /\ r \in SUBSET S BY <1>2, <1>4, PickRemoved
<1>6. SumFunctionOnSet(f, r) <= Cardinality(Above(r)) BY <1>1, <1>2, <1>5
<1>7. SumFunctionOnSet(f, t) = f[p] + SumFunctionOnSet(f, r) BY <1>2, <1>4, SumPick
<1>8. SumFunctionOnSet(f, r) \in Int BY <1>5, SumType
<1>9. IsFiniteSet(Above(r)) /\ Cardinality(Above(r)) \in Nat
  BY <1>5, FS_Subset, FS_CardinalityType
<1>10. p \notin Above(r) /\ Above(t) = IF f[p] > 0 THEN Above(r) \cup {p} ELSE Above(r)
  BY <1>5
<1>11. Cardinality(Above(t)) = IF f[p] > 0 THEN Cardinality(Above(r)) + 1 ELSE Cardinality(Above(r))
  <2> HIDE DEF Above, r, p
  <2> QED BY <1>9, <1>10, FS_AddElement
<1>12. f[p] \in Int /\ f[p] <= 1 BY <1>2, <1>5
<1>13. SumFunctionOnSet(f, t) <= Cardinality(Above(t))
  <2> HIDE DEF Above, r, p
  <2> QED BY <1>6, <1>7, <1>8, <1>9, <1>11, <1>12
<1> QED BY <1>1, <1>13

-----------------------------------------------------------------------------
(* Cardinalities *)

\* One where a condition holds.
One(b) == IF b THEN 1 ELSE 0

\* Two finite sets that differ at most in x differ by one at most, as x says.
THEOREM SetMove ==
  ASSUME NEW S, IsFiniteSet(S), NEW T, IsFiniteSet(T), NEW x, S \ {x} = T \ {x}
  PROVE  /\ Cardinality(S) \in Nat
         /\ Cardinality(T) \in Nat
         /\ Cardinality(T) = Cardinality(S) - One(x \in S) + One(x \in T)
<1>1. Cardinality(S) \in Nat /\ Cardinality(T) \in Nat BY FS_CardinalityType
<1>2. Cardinality(S \ {x}) = Cardinality(S) - One(x \in S) BY <1>1, FS_RemoveElement DEF One
<1>3. Cardinality(T \ {x}) = Cardinality(T) - One(x \in T) BY <1>1, FS_RemoveElement DEF One
<1>4. Cardinality(S \ {x}) = Cardinality(T \ {x}) OBVIOUS
<1>5. One(x \in S) \in Int /\ One(x \in T) \in Int BY DEF One
<1> QED BY <1>1, <1>2, <1>3, <1>4, <1>5
=============================================================================
