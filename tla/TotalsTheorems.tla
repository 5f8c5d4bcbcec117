--------------------------- MODULE TotalsTheorems ---------------------------
(* Laws of SumOver.  They follow from those of cardinalities, without        *)
(* induction over the set that is summed.                                    *)
EXTENDS Totals, FiniteSetTheorems, WellFoundedInduction, TLAPS

Counted(n) == IF n > 0 THEN n ELSE 0

LEMMA UnitsElement ==
  ASSUME NEW S, NEW f, NEW p
  PROVE  p \in Units(S, f) <=> \E x \in S : \E k \in 1 .. f[x] : p = <<x, k>>
BY DEF Units

\* A finite set of counts has a finite total.
LEMMA SumIsNatural ==
  ASSUME NEW S, NEW f, IsFiniteSet(S), \A x \in S : f[x] \in Int
  PROVE  IsFiniteSet(Units(S, f)) /\ SumOver(S, f) \in Nat
<1> DEFINE part == [x \in S |-> {x} \X (1 .. f[x])]
           parts == {{x} \X (1 .. f[x]) : x \in S}
<1>1. IsFiniteSet(parts)
  <2>1. part \in Surjection(S, parts) BY DEF Surjection
  <2> QED BY <2>1, FS_Surjection
<1>2. \A p \in parts : IsFiniteSet(p)
  <2> SUFFICES ASSUME NEW x \in S PROVE IsFiniteSet({x} \X (1 .. f[x]))
    OBVIOUS
  <2>1. IsFiniteSet({x}) BY FS_Singleton
  <2>2. IsFiniteSet(1 .. f[x]) BY FS_Interval
  <2> QED BY <2>1, <2>2, FS_Product
<1>3. IsFiniteSet(UNION parts)
  <2> HIDE DEF parts
  <2> QED BY <1>1, <1>2, FS_UNION
<1>4. IsFiniteSet(Units(S, f)) BY <1>3 DEF Units
<1> QED BY <1>4, FS_CardinalityType DEF SumOver

\* Only the positive counts matter.
LEMMA SumSame ==
  ASSUME NEW S, NEW f, NEW g, \A x \in S : f[x] = g[x]
  PROVE  SumOver(S, f) = SumOver(S, g)
<1>1. Units(S, f) = Units(S, g) BY DEF Units
<1> QED BY <1>1 DEF SumOver

LEMMA SumEmpty == ASSUME NEW f PROVE SumOver({}, f) = 0
<1>1. Units({}, f) = {} BY DEF Units
<1> QED BY <1>1, FS_EmptySet DEF SumOver

LEMMA SumOne ==
  ASSUME NEW x, NEW f, f[x] \in Int
  PROVE  SumOver({x}, f) = Counted(f[x])
<1>1. Units({x}, f) = {x} \X (1 .. f[x]) BY DEF Units
<1>2. IsFiniteSet({x}) /\ Cardinality({x}) = 1 BY FS_Singleton
<1>3. /\ IsFiniteSet(1 .. f[x])
      /\ Cardinality(1 .. f[x]) = IF 1 > f[x] THEN 0 ELSE f[x] - 1 + 1
  BY FS_Interval
<1>4. Cardinality({x} \X (1 .. f[x])) = 1 * Cardinality(1 .. f[x])
  BY <1>2, <1>3, FS_Product
<1>5. Cardinality(1 .. f[x]) = Counted(f[x]) BY <1>3 DEF Counted
<1>6. Counted(f[x]) \in Nat BY DEF Counted
<1>7. SumOver({x}, f) = Cardinality({x} \X (1 .. f[x])) BY <1>1, Zenon DEF SumOver
<1> QED BY <1>4, <1>5, <1>6, <1>7

\* The totals of two sets that share no member add up.
LEMMA SumSplit ==
  ASSUME NEW S, NEW T, NEW f, IsFiniteSet(S), IsFiniteSet(T), S \cap T = {},
         \A x \in S \cup T : f[x] \in Int
  PROVE  SumOver(S \cup T, f) = SumOver(S, f) + SumOver(T, f)
<1>1. Units(S \cup T, f) = Units(S, f) \cup Units(T, f) BY DEF Units
<1>2. Units(S, f) \cap Units(T, f) = {}
  <2> SUFFICES ASSUME NEW p \in Units(S, f), p \in Units(T, f) PROVE FALSE
    OBVIOUS
  <2>1. PICK x \in S : \E k \in 1 .. f[x] : p = <<x, k>> BY UnitsElement
  <2>2. PICK y \in T : \E j \in 1 .. f[y] : p = <<y, j>> BY UnitsElement
  <2> QED BY <2>1, <2>2
<1>3. IsFiniteSet(Units(S, f)) /\ SumOver(S, f) \in Nat BY SumIsNatural
<1>4. IsFiniteSet(Units(T, f)) /\ SumOver(T, f) \in Nat BY SumIsNatural
<1>5. Cardinality(Units(S, f) \cup Units(T, f))
        = Cardinality(Units(S, f)) + Cardinality(Units(T, f)) - Cardinality({})
  BY <1>2, <1>3, <1>4, FS_Union
<1>6. Cardinality({}) = 0 BY FS_EmptySet
<1>7. SumOver(S \cup T, f) = Cardinality(Units(S, f) \cup Units(T, f))
  BY <1>1, Zenon DEF SumOver
<1>8. SumOver(S, f) = Cardinality(Units(S, f)) /\ SumOver(T, f) = Cardinality(Units(T, f))
  BY Zenon DEF SumOver
<1> QED BY <1>3, <1>4, <1>5, <1>6, <1>7, <1>8

\* A count that changes changes the total by as much.
LEMMA SumChange ==
  ASSUME NEW S, NEW f, NEW g, NEW x \in S, IsFiniteSet(S),
         \A y \in S : f[y] \in Int /\ g[y] \in Int,
         \A y \in S \ {x} : f[y] = g[y]
  PROVE  SumOver(S, g) + Counted(f[x]) = SumOver(S, f) + Counted(g[x])
<1> DEFINE rest == S \ {x}
<1>1. IsFiniteSet(rest) BY FS_RemoveElement
<1>2. IsFiniteSet({x}) BY FS_Singleton
<1>3. S = rest \cup {x} /\ rest \cap {x} = {} OBVIOUS
<1>4. SumOver(S, f) = SumOver(rest, f) + SumOver({x}, f)
  <2> HIDE DEF rest
  <2> QED BY <1>1, <1>2, <1>3, SumSplit
<1>5. SumOver(S, g) = SumOver(rest, g) + SumOver({x}, g)
  <2> HIDE DEF rest
  <2> QED BY <1>1, <1>2, <1>3, SumSplit
<1>6. SumOver(rest, f) = SumOver(rest, g) BY SumSame
<1>7. SumOver(rest, f) \in Nat BY <1>1, SumIsNatural
<1>8. SumOver({x}, f) = Counted(f[x]) /\ SumOver({x}, g) = Counted(g[x]) BY SumOne
<1> QED BY <1>4, <1>5, <1>6, <1>7, <1>8 DEF Counted

LEMMA SumChangeNat ==
  ASSUME NEW S, NEW f \in [S -> Nat], NEW g \in [S -> Nat], NEW x \in S,
         IsFiniteSet(S), \A y \in S \ {x} : f[y] = g[y]
  PROVE  SumOver(S, g) + f[x] = SumOver(S, f) + g[x]
<1>1. SumOver(S, g) + Counted(f[x]) = SumOver(S, f) + Counted(g[x]) BY SumChange
<1>2. Counted(f[x]) = f[x] /\ Counted(g[x]) = g[x] BY DEF Counted
<1> QED BY <1>1, <1>2

\* Counts entered for members that had none add their own total.
LEMMA SumEnter ==
  ASSUME NEW S, NEW N, NEW f, NEW g, NEW h, IsFiniteSet(S), N \subseteq S,
         \A x \in S : f[x] \in Int /\ g[x] \in Int,
         \A x \in N : h[x] = g[x] /\ f[x] <= 0,
         \A x \in S \ N : h[x] = f[x]
  PROVE  SumOver(S, h) = SumOver(S, f) + SumOver(N, g)
<1> DEFINE rest == S \ N
<1>1. IsFiniteSet(rest) /\ IsFiniteSet(N) BY FS_Subset
<1>2. S = rest \cup N /\ rest \cap N = {} OBVIOUS
<1>3. SumOver(S, h) = SumOver(rest, h) + SumOver(N, h)
  <2>1. \A x \in rest \cup N : h[x] \in Int OBVIOUS
  <2> HIDE DEF rest
  <2> QED BY <2>1, <1>1, <1>2, SumSplit
<1>4. SumOver(rest, h) = SumOver(rest, f) BY SumSame
<1>5. SumOver(N, h) = SumOver(N, g) BY SumSame
<1>6. Units(S, f) = Units(rest, f)
  <2>1. \A x \in N : 1 .. f[x] = {} OBVIOUS
  <2> QED BY <2>1 DEF Units
<1> QED BY <1>3, <1>4, <1>5, <1>6 DEF SumOver

\* No count is above the total, and none of them above m keeps it below the
\* number of members times m.
LEMMA SumMember ==
  ASSUME NEW S, NEW f, NEW x \in S, IsFiniteSet(S), \A y \in S : f[y] \in Int
  PROVE  f[x] <= SumOver(S, f)
<1> DEFINE rest == S \ {x}
<1>1. IsFiniteSet(rest) BY FS_RemoveElement
<1>2. IsFiniteSet({x}) BY FS_Singleton
<1>3. S = rest \cup {x} /\ rest \cap {x} = {} OBVIOUS
<1>4. SumOver(S, f) = SumOver(rest, f) + SumOver({x}, f)
  <2> HIDE DEF rest
  <2> QED BY <1>1, <1>2, <1>3, SumSplit
<1>5. SumOver(rest, f) \in Nat BY <1>1, SumIsNatural
<1>6. SumOver({x}, f) = Counted(f[x]) BY SumOne
<1> QED BY <1>4, <1>5, <1>6 DEF Counted

LEMMA SumBound ==
  ASSUME NEW S, NEW f, NEW m \in Nat, IsFiniteSet(S),
         \A x \in S : f[x] \in Int /\ f[x] <= m
  PROVE  SumOver(S, f) <= m * Cardinality(S)
<1>1. Units(S, f) \subseteq S \X (1 .. m)
  <2> SUFFICES ASSUME NEW p \in Units(S, f) PROVE p \in S \X (1 .. m)
    OBVIOUS
  <2>1. PICK x \in S : \E k \in 1 .. f[x] : p = <<x, k>> BY UnitsElement
  <2> QED BY <2>1
<1>2. IsFiniteSet(1 .. m) /\ Cardinality(1 .. m) = m BY FS_Interval
<1>3. /\ IsFiniteSet(S \X (1 .. m))
      /\ Cardinality(S \X (1 .. m)) = Cardinality(S) * Cardinality(1 .. m)
  BY <1>2, FS_Product
<1>4. Cardinality(Units(S, f)) <= Cardinality(S \X (1 .. m)) BY <1>1, <1>3, FS_Subset
<1>5. Cardinality(S) \in Nat BY FS_CardinalityType
<1>6. Cardinality(S) * m = m * Cardinality(S) BY <1>5
<1> QED BY <1>2, <1>3, <1>4, <1>6 DEF SumOver

\* The total of a part is not above that of the whole.
LEMMA SumPart ==
  ASSUME NEW S, NEW T, NEW f, IsFiniteSet(S), T \subseteq S,
         \A x \in S : f[x] \in Int
  PROVE  SumOver(T, f) <= SumOver(S, f)
<1>1. Units(T, f) \subseteq Units(S, f) BY DEF Units
<1>2. IsFiniteSet(Units(S, f)) BY SumIsNatural
<1> QED BY <1>1, <1>2, FS_Subset DEF SumOver

---------------------------------------------------------------------------
\* A set of natural numbers that is not empty has a least one.
LEMMA LeastExists ==
  ASSUME NEW T, T \subseteq Nat, T # {}
  PROVE  \E x \in T : \A y \in T : x <= y
<1> DEFINE below == {1 .. x : x \in T}
<1>1. below \subseteq FiniteSubsetsOf(Nat) /\ below # {}
  <2>1. \A x \in T : IsFiniteSet(1 .. x) BY FS_Interval
  <2>2. \A x \in T : 1 .. x \in SUBSET Nat OBVIOUS
  <2>3. \A x \in T : 1 .. x \in FiniteSubsetsOf(Nat)
    BY <2>1, <2>2 DEF FiniteSubsetsOf
  <2> QED BY <2>3
<1>2. \E u \in below : \A v \in below : ~ (<<v, u>> \in StrictSubsetOrdering(Nat))
  <2> HIDE DEF below
  <2> QED BY <1>1, FS_StrictSubsetOrderingWellFounded, WFMin
<1>3. PICK x \in T : \A y \in T : ~ (<<1 .. y, 1 .. x>> \in StrictSubsetOrdering(Nat))
  BY <1>2
<1>4. ASSUME NEW y \in T PROVE x <= y
  <2> SUFFICES ASSUME y < x PROVE FALSE OBVIOUS
  <2>1. 1 .. y \subseteq 1 .. x /\ x \in 1 .. x /\ x \notin 1 .. y OBVIOUS
  <2>2. 1 .. y \in SUBSET Nat /\ 1 .. x \in SUBSET Nat OBVIOUS
  <2>3. <<1 .. y, 1 .. x>> \in StrictSubsetOrdering(Nat)
    BY <2>1, <2>2 DEF StrictSubsetOrdering
  <2> QED BY <1>3, <2>3
<1> QED BY <1>4
=============================================================================
