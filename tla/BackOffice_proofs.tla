--------------------------- MODULE BackOffice_proofs ---------------------------
(***************************************************************************)
(* Proofs about BackOffice and Reports, for any orders, sales, variants    *)
(* and administrators, any prices, amounts and times.  What depends on the *)
(* rows an operation has loaded holds if one operation runs at a time.     *)
(***************************************************************************)
EXTENDS Reports, FiniteSetTheorems, NaturalsInduction, WellFoundedInduction, TLAPS

--------------------------------------------------------------------------------
(* Sums.                                                                   *)

LEMMA LeastElement ==
    ASSUME NEW S, S \subseteq Nat, S # {}
    PROVE  \E x \in S : \A y \in S : x =< y
<1>1. PICK R : R = {ss \in Nat \X Nat : ss[1] < ss[2]}
  OBVIOUS
<1>2. OpToRel(<, Nat) = R
  BY <1>1, Zenon DEF OpToRel
<1>3. IsWellFoundedOn(R, Nat)
  BY <1>2, NatLessThanWellFounded, Zenon
<1>4. PICK x \in S : \A y \in S : ~(<<y, x>> \in R)
  BY <1>3, WFMin, Zenon
<1>5. ASSUME NEW y \in S PROVE x =< y
  <2>1. x \in Nat /\ y \in Nat /\ <<y, x>> \notin R
    BY <1>4
  <2>2. ~(y < x)
    BY <1>1, <2>1
  <2> QED BY <2>1, <2>2
<1> QED BY <1>5

(* What holds of the empty set, and of a set with one more element if of   *)
(* the set, holds of every finite set: the smallest exception has an       *)
(* element without which it would be a smaller one.                        *)
LEMMA SetInduction ==
    ASSUME NEW S, IsFiniteSet(S), NEW G, {} \in G,
           \A T \in SUBSET S, x \in S : T \in G /\ x \notin T => T \cup {x} \in G
    PROVE  S \in G
<1> SUFFICES ASSUME S \notin G PROVE FALSE
  OBVIOUS
<1>1. PICK N : N = {n \in Nat : \E T \in SUBSET S : T \notin G /\ Cardinality(T) = n}
  OBVIOUS
<1>2. Cardinality(S) \in N
  BY <1>1, FS_CardinalityType
<1>3. N \subseteq Nat
  BY <1>1
<1>4. PICK n \in N : \A k \in N : n =< k
  BY <1>2, <1>3, LeastElement
<1>5. PICK T \in SUBSET S : T \notin G /\ Cardinality(T) = n
  BY <1>1, <1>4
<1>6. IsFiniteSet(T)
  BY <1>5, FS_Subset
<1>7. PICK x \in T : TRUE
  BY <1>5
<1>8. IsFiniteSet(T \ {x}) /\ Cardinality(T \ {x}) = n - 1
  BY <1>5, <1>6, <1>7, FS_RemoveElement
<1>9. T \ {x} \in SUBSET S /\ x \in S /\ x \notin T \ {x} /\ (T \ {x}) \cup {x} = T
  BY <1>7
<1>10. T \ {x} \notin G
  BY <1>5, <1>9
<1>11. n - 1 \in Nat
  BY <1>8, FS_CardinalityType
<1>12. n - 1 \in N
  BY <1>1, <1>8, <1>9, <1>10, <1>11
<1>13. n =< n - 1 /\ n \in Nat
  BY <1>3, <1>4, <1>12
<1> QED BY <1>13

Positive(n) == IF n > 0 THEN n ELSE 0

LEMMA UnitsOfOne ==
    ASSUME NEW x, NEW n \in Int
    PROVE  IsFiniteSet({x} \X (1..n)) /\ Cardinality({x} \X (1..n)) = Positive(n)
<1>1. IsFiniteSet({x}) /\ Cardinality({x}) = 1
  BY FS_Singleton
<1>2. IsFiniteSet(1..n) /\ Cardinality(1..n) = Positive(n)
  BY FS_Interval DEF Positive
<1>3. /\ IsFiniteSet({x} \X (1..n))
      /\ Cardinality({x} \X (1..n)) = Cardinality({x}) * Cardinality(1..n)
  BY <1>1, <1>2, FS_Product
<1>4. Positive(n) \in Int
  BY DEF Positive
<1> QED BY <1>1, <1>2, <1>3, <1>4

LEMMA UnitsFinite ==
    ASSUME NEW S, IsFiniteSet(S), NEW f, \A x \in S : f[x] \in Int
    PROVE  IsFiniteSet(Units(f, S)) /\ Cardinality(Units(f, S)) \in Nat
<1>1. PICK T : T = {{x} \X (1..f[x]) : x \in S}
  OBVIOUS
<1>2. PICK g : g = [x \in S |-> {x} \X (1..f[x])]
  OBVIOUS
<1>3. g \in Surjection(S, T)
  BY <1>1, <1>2 DEF Surjection
<1>4. IsFiniteSet(T)
  BY <1>3, FS_Surjection
<1>5. \A u \in T : IsFiniteSet(u)
  <2> SUFFICES ASSUME NEW x \in S PROVE IsFiniteSet({x} \X (1..f[x]))
    BY <1>1
  <2> QED BY UnitsOfOne
<1>6. Units(f, S) = UNION T
  BY <1>1 DEF Units
<1> QED BY <1>4, <1>5, <1>6, FS_UNION, FS_CardinalityType

LEMMA UnitsAdd ==
    ASSUME NEW S, IsFiniteSet(S), NEW x, x \notin S, NEW f, \A y \in S \cup {x} : f[y] \in Int
    PROVE  Cardinality(Units(f, S \cup {x})) = Cardinality(Units(f, S)) + Positive(f[x])
<1>1. f[x] \in Int /\ \A y \in S : f[y] \in Int
  OBVIOUS
<1>2. PICK R, U : R = Units(f, S) /\ U = {x} \X (1..f[x])
  OBVIOUS
<1>3. Units(f, S \cup {x}) = R \cup U /\ R \cap U = {}
  BY <1>2 DEF Units
<1>4. IsFiniteSet(R) /\ Cardinality(R) \in Nat
  BY <1>1, <1>2, UnitsFinite
<1>5. IsFiniteSet(U) /\ Cardinality(U) = Positive(f[x])
  BY <1>1, <1>2, UnitsOfOne
<1>6. Cardinality(R \cap U) = 0
  BY <1>3, FS_EmptySet
<1>7. Cardinality(R \cup U) = Cardinality(R) + Cardinality(U) - Cardinality(R \cap U)
  BY <1>4, <1>5, FS_Union
<1>8. Positive(f[x]) \in Int
  BY <1>1 DEF Positive
<1>9. Cardinality(R \cup U) = Cardinality(R) + Positive(f[x])
  BY <1>4, <1>5, <1>6, <1>7, <1>8
<1>10. Cardinality(Units(f, S \cup {x})) = Cardinality(R \cup U)
  BY <1>3
<1> QED BY <1>2, <1>9, <1>10

LEMMA SumIsInt ==
    ASSUME NEW D, NEW f \in [D -> Int], NEW S \in SUBSET D, IsFiniteSet(S)
    PROVE  SumOver(f, S) \in Int
<1>1. \A x \in S : f[x] \in Int /\ Negated(f)[x] \in Int
  BY DEF Negated
<1>2. Cardinality(Units(f, S)) \in Nat /\ Cardinality(Units(Negated(f), S)) \in Nat
  BY <1>1, UnitsFinite
<1> QED BY <1>2 DEF SumOver

LEMMA SumOfNothing == ASSUME NEW f PROVE SumOver(f, {}) = 0
<1>1. Units(f, {}) = {} /\ Units(Negated(f), {}) = {}
  BY DEF Units
<1> QED BY <1>1, FS_EmptySet DEF SumOver

LEMMA SumAdd ==
    ASSUME NEW D, NEW f \in [D -> Int], NEW S \in SUBSET D, IsFiniteSet(S), NEW x \in D \ S
    PROVE  SumOver(f, S \cup {x}) = SumOver(f, S) + f[x]
<1>1. PICK g : g = Negated(f)
  OBVIOUS
<1>2. /\ f[x] \in Int /\ g[x] = -f[x]
      /\ \A y \in S \cup {x} : f[y] \in Int /\ g[y] \in Int
  BY <1>1 DEF Negated
<1>3. /\ Cardinality(Units(f, S \cup {x})) = Cardinality(Units(f, S)) + Positive(f[x])
      /\ Cardinality(Units(g, S \cup {x})) = Cardinality(Units(g, S)) + Positive(g[x])
  BY <1>2, UnitsAdd
<1>4. Cardinality(Units(f, S)) \in Nat /\ Cardinality(Units(g, S)) \in Nat
  BY <1>2, UnitsFinite
<1>5. Positive(f[x]) - Positive(g[x]) = f[x] /\ Positive(f[x]) \in Int /\ Positive(g[x]) \in Int
  BY <1>2 DEF Positive
<1> QED BY <1>1, <1>3, <1>4, <1>5 DEF SumOver

LEMMA SumSame ==
    ASSUME NEW f, NEW g, NEW S, S \subseteq DOMAIN f, S \subseteq DOMAIN g, \A x \in S : f[x] = g[x]
    PROVE  SumOver(f, S) = SumOver(g, S)
<1>1. Units(f, S) = Units(g, S)
  BY DEF Units
<1>2. Units(Negated(f), S) = Units(Negated(g), S)
  <2>1. \A x \in S : Negated(f)[x] = Negated(g)[x]
    BY DEF Negated
  <2> QED BY <2>1 DEF Units
<1> QED BY <1>1, <1>2 DEF SumOver

(* h = f + c * g, element by element.                                      *)
Combines(h, f, c, g, S) == \A x \in S : h[x] = f[x] + c * g[x]

LEMMA SumLinear ==
    ASSUME NEW D, NEW f \in [D -> Int], NEW g \in [D -> Int], NEW h \in [D -> Int], NEW c \in Int,
           NEW S \in SUBSET D, IsFiniteSet(S), Combines(h, f, c, g, S)
    PROVE  SumOver(h, S) = SumOver(f, S) + c * SumOver(g, S)
<1>1. PICK G : G = {T \in SUBSET S : SumOver(h, T) = SumOver(f, T) + c * SumOver(g, T)}
  OBVIOUS
<1>2. {} \in G
  <2>1. SumOver(h, {}) = 0 /\ SumOver(f, {}) = 0 /\ SumOver(g, {}) = 0
    BY SumOfNothing
  <2>2. SumOver(h, {}) = SumOver(f, {}) + c * SumOver(g, {})
    BY <2>1
  <2> QED BY <1>1, <2>2
<1>3. ASSUME NEW T \in SUBSET S, NEW x \in S, T \in G, x \notin T
      PROVE  T \cup {x} \in G
  <2>1. T \in SUBSET D /\ x \in D \ T /\ IsFiniteSet(T)
    BY <1>3, FS_Subset
  <2>2. /\ SumOver(f, T \cup {x}) = SumOver(f, T) + f[x] /\ SumOver(f, T) \in Int
        /\ SumOver(g, T \cup {x}) = SumOver(g, T) + g[x] /\ SumOver(g, T) \in Int
        /\ SumOver(h, T \cup {x}) = SumOver(h, T) + h[x]
    BY <2>1, SumAdd, SumIsInt
  <2>3. PICK a, b, p, q : a = SumOver(f, T) /\ b = SumOver(g, T) /\ p = f[x] /\ q = g[x]
    OBVIOUS
  <2>4. a \in Int /\ b \in Int /\ p \in Int /\ q \in Int
    BY <2>1, <2>2, <2>3
  <2>5. SumOver(h, T) = a + c * b /\ h[x] = p + c * q
    BY <1>1, <1>3, <2>3 DEF Combines
  <2>6. (a + c * b) + (p + c * q) = (a + p) + c * (b + q)
    <3>1. c * (b + q) = c * b + c * q
      BY <2>4
    <3>2. c * b \in Int /\ c * q \in Int
      BY <2>4
    <3> QED BY <2>4, <3>1, <3>2
  <2>7. SumOver(h, T \cup {x}) = SumOver(f, T \cup {x}) + c * SumOver(g, T \cup {x})
    BY <2>2, <2>3, <2>5, <2>6
  <2> QED BY <1>1, <2>7
<1>4. S \in G
  BY <1>2, <1>3, SetInduction
<1> QED BY <1>1, <1>4

LEMMA SumPlus ==
    ASSUME NEW D, NEW f \in [D -> Int], NEW g \in [D -> Int], NEW h \in [D -> Int],
           NEW S \in SUBSET D, IsFiniteSet(S), \A x \in S : h[x] = f[x] + g[x]
    PROVE  SumOver(h, S) = SumOver(f, S) + SumOver(g, S)
<1>1. PICK c \in Int : c = 1
  OBVIOUS
<1>2. Combines(h, f, c, g, S)
  BY <1>1 DEF Combines
<1>3. SumOver(h, S) = SumOver(f, S) + c * SumOver(g, S)
  BY <1>1, <1>2, SumLinear
<1>4. SumOver(f, S) \in Int /\ SumOver(g, S) \in Int
  BY SumIsInt
<1> QED BY <1>1, <1>3, <1>4

LEMMA SumMinus ==
    ASSUME NEW D, NEW f \in [D -> Int], NEW g \in [D -> Int], NEW h \in [D -> Int],
           NEW S \in SUBSET D, IsFiniteSet(S), \A x \in S : h[x] = f[x] - g[x]
    PROVE  SumOver(h, S) = SumOver(f, S) - SumOver(g, S)
<1>1. PICK c \in Int : c = -1
  OBVIOUS
<1>2. Combines(h, f, c, g, S)
  BY <1>1 DEF Combines
<1>3. SumOver(h, S) = SumOver(f, S) + c * SumOver(g, S)
  BY <1>1, <1>2, SumLinear
<1>4. SumOver(f, S) \in Int /\ SumOver(g, S) \in Int
  BY SumIsInt
<1> QED BY <1>1, <1>3, <1>4

LEMMA SumIsNat ==
    ASSUME NEW D, NEW f \in [D -> Int], NEW S \in SUBSET D, IsFiniteSet(S), \A x \in S : f[x] \in Nat
    PROVE  SumOver(f, S) \in Nat
<1>1. PICK g : g = Negated(f)
  OBVIOUS
<1>2. Units(g, S) = {}
  <2>1. \A x \in S : g[x] \in Int /\ g[x] <= 0
    BY <1>1 DEF Negated
  <2>2. \A x \in S : 1..g[x] = {}
    BY <2>1
  <2>3. \A x \in S : {x} \X (1..g[x]) = {}
    BY <2>2
  <2> QED BY <2>3 DEF Units
<1>3. Cardinality(Units(f, S)) \in Nat
  BY UnitsFinite
<1>4. Cardinality(Units(g, S)) = 0
  BY <1>2, FS_EmptySet
<1> QED BY <1>1, <1>3, <1>4 DEF SumOver

LEMMA SumSubset ==
    ASSUME NEW D, NEW f \in [D -> Int], NEW S \in SUBSET D, IsFiniteSet(S), \A x \in S : f[x] \in Nat,
           NEW T \in SUBSET S
    PROVE  SumOver(f, T) <= SumOver(f, S)
<1>1. PICK G : G = {R \in SUBSET (S \ T) : SumOver(f, T) <= SumOver(f, T \cup R)}
  OBVIOUS
<1>2. IsFiniteSet(T) /\ IsFiniteSet(S \ T) /\ SumOver(f, T) \in Int
  BY FS_Subset, SumIsInt
<1>3. {} \in G
  <2>1. T \cup {} = T
    OBVIOUS
  <2>2. SumOver(f, T) <= SumOver(f, T \cup {})
    BY <1>2, <2>1
  <2> QED BY <1>1, <2>2
<1>4. ASSUME NEW R \in SUBSET (S \ T), NEW x \in S \ T, R \in G, x \notin R
      PROVE  R \cup {x} \in G
  <2>1. PICK U : U = T \cup R
    OBVIOUS
  <2>2. U \in SUBSET D /\ IsFiniteSet(U) /\ x \in D \ U /\ f[x] \in Nat
    BY <1>2, <1>4, <2>1, FS_Subset
  <2>3. SumOver(f, U \cup {x}) = SumOver(f, U) + f[x] /\ SumOver(f, U) \in Int
    BY <2>2, SumAdd, SumIsInt
  <2>4. SumOver(f, T) <= SumOver(f, U)
    BY <1>1, <1>4, <2>1
  <2>5. U \cup {x} = T \cup (R \cup {x})
    BY <2>1
  <2>6. SumOver(f, T) <= SumOver(f, U \cup {x})
    <3>1. PICK a, b, c : a = SumOver(f, T) /\ b = SumOver(f, U) /\ c = f[x]
      OBVIOUS
    <3>2. a <= b + c
      BY <1>2, <2>2, <2>3, <2>4, <3>1
    <3> QED BY <2>3, <3>1, <3>2
  <2>7. SumOver(f, T) <= SumOver(f, T \cup (R \cup {x}))
    BY <2>5, <2>6
  <2> QED BY <1>1, <2>7
<1>5. S \ T \in G
  BY <1>2, <1>3, <1>4, SetInduction
<1>6. T \cup (S \ T) = S
  OBVIOUS
<1> QED BY <1>1, <1>5, <1>6

(* One term changes.                                                       *)
LEMMA SumChange ==
    ASSUME NEW D, NEW f \in [D -> Int], NEW g \in [D -> Int], NEW S \in SUBSET D, IsFiniteSet(S),
           NEW x \in S, \A y \in S \ {x} : f[y] = g[y]
    PROVE  SumOver(g, S) = SumOver(f, S) - f[x] + g[x]
<1>1. PICK R : R = S \ {x}
  OBVIOUS
<1>2. R \in SUBSET D /\ IsFiniteSet(R) /\ x \in D \ R /\ R \cup {x} = S
  BY <1>1, FS_Subset
<1>3. /\ SumOver(f, R \cup {x}) = SumOver(f, R) + f[x]
      /\ SumOver(g, R \cup {x}) = SumOver(g, R) + g[x]
  BY <1>2, SumAdd
<1>4. SumOver(f, R) = SumOver(g, R)
  BY <1>1, <1>2, SumSame
<1>5. SumOver(f, R) \in Int /\ f[x] \in Int /\ g[x] \in Int
  BY <1>2, SumIsInt
<1>6. PICK a, p, q : a = SumOver(f, R) /\ p = f[x] /\ q = g[x]
  OBVIOUS
<1>7. SumOver(f, S) = a + p /\ SumOver(g, S) = a + q
  BY <1>2, <1>3, <1>4, <1>6
<1>8. a + q = (a + p) - p + q
  BY <1>5, <1>6
<1> QED BY <1>6, <1>7, <1>8

(* Terms that are zero do not matter.                                      *)
LEMMA SumZeros ==
    ASSUME NEW D, NEW f \in [D -> Int], NEW S \in SUBSET D, NEW T \in SUBSET S,
           \A x \in S \ T : f[x] = 0
    PROVE  SumOver(f, T) = SumOver(f, S)
<1>1. \A x \in S \ T : 1..f[x] = {} /\ 1..Negated(f)[x] = {}
  BY DEF Negated
<1>2. \A x \in S \ T : {x} \X (1..f[x]) = {} /\ {x} \X (1..Negated(f)[x]) = {}
  BY <1>1
<1>3. Units(f, T) = Units(f, S) /\ Units(Negated(f), T) = Units(Negated(f), S)
  BY <1>2 DEF Units
<1> QED BY <1>3 DEF SumOver

(* A sum by parts: k[x] says in which part x is.                           *)
Part(k, S, c) == {x \in S : k[x] = c}
PartSums(f, k, C, S) == [c \in C |-> SumOver(f, Part(k, S, c))]

LEMMA PartSumsTyped ==
    ASSUME NEW D, NEW f \in [D -> Int], NEW k, NEW C, NEW S \in SUBSET D, IsFiniteSet(S)
    PROVE  PartSums(f, k, C, S) \in [C -> Int]
<1> SUFFICES ASSUME NEW c \in C PROVE SumOver(f, Part(k, S, c)) \in Int
  BY DEF PartSums
<1>1. Part(k, S, c) \in SUBSET D /\ IsFiniteSet(Part(k, S, c))
  BY FS_Subset DEF Part
<1> QED BY <1>1, SumIsInt

LEMMA SumOfParts ==
    ASSUME NEW D, NEW f \in [D -> Int], NEW S \in SUBSET D, IsFiniteSet(S),
           NEW C, IsFiniteSet(C), NEW k, \A x \in S : k[x] \in C
    PROVE  SumOver(PartSums(f, k, C, S), C) = SumOver(f, S)
<1>1. PICK G : G = {T \in SUBSET S : SumOver(PartSums(f, k, C, T), C) = SumOver(f, T)}
  OBVIOUS
<1>2. {} \in G
  <2>1. \A c \in C : PartSums(f, k, C, {})[c] = 0
    <3> SUFFICES ASSUME NEW c \in C PROVE SumOver(f, Part(k, {}, c)) = 0
      BY DEF PartSums
    <3>1. Part(k, {}, c) = {}
      BY DEF Part
    <3> QED BY <3>1, SumOfNothing
  <2>2. PICK h : h = PartSums(f, k, C, {})
    OBVIOUS
  <2>3. h \in [C -> Int]
    BY <2>2, PartSumsTyped, FS_EmptySet
  <2>4. SumOver(h, {}) = SumOver(h, C)
    BY <2>1, <2>2, <2>3, SumZeros
  <2>5. SumOver(PartSums(f, k, C, {}), C) = SumOver(f, {})
    BY <2>2, <2>4, SumOfNothing
  <2> QED BY <1>1, <2>5
<1>3. ASSUME NEW T \in SUBSET S, NEW x \in S, T \in G, x \notin T
      PROVE  T \cup {x} \in G
  <2>1. T \in SUBSET D /\ x \in D \ T /\ IsFiniteSet(T) /\ T \cup {x} \in SUBSET D /\ IsFiniteSet(T \cup {x})
    BY <1>3, FS_Subset
  <2>2. PICK g, h, c : g = PartSums(f, k, C, T) /\ h = PartSums(f, k, C, T \cup {x}) /\ c = k[x]
    OBVIOUS
  <2>3. g \in [C -> Int] /\ h \in [C -> Int] /\ c \in C
    BY <2>1, <2>2, PartSumsTyped
  <2>4. \A d \in C \ {c} : g[d] = h[d]
    <3> SUFFICES ASSUME NEW d \in C \ {c} PROVE g[d] = h[d]
      OBVIOUS
    <3>1. Part(k, T \cup {x}, d) = Part(k, T, d)
      BY <2>2 DEF Part
    <3> QED BY <2>2, <3>1 DEF PartSums
  <2>5. h[c] = g[c] + f[x]
    <3>1. PICK U : U = Part(k, T, c)
      OBVIOUS
    <3>2. U \in SUBSET D /\ IsFiniteSet(U) /\ x \in D \ U /\ Part(k, T \cup {x}, c) = U \cup {x}
      BY <2>1, <2>2, <3>1, FS_Subset DEF Part
    <3>3. SumOver(f, U \cup {x}) = SumOver(f, U) + f[x]
      BY <3>2, SumAdd
    <3> QED BY <2>2, <2>3, <3>1, <3>2, <3>3 DEF PartSums
  <2>6. SumOver(h, C) = SumOver(g, C) - g[c] + h[c]
    BY <2>3, <2>4, SumChange
  <2>7. SumOver(f, T \cup {x}) = SumOver(f, T) + f[x] /\ SumOver(f, T) \in Int
    BY <2>1, SumAdd, SumIsInt
  <2>8. SumOver(g, C) = SumOver(f, T)
    BY <1>1, <1>3, <2>2
  <2>9. SumOver(h, C) = SumOver(f, T \cup {x})
    <3>1. PICK a, b, p : a = SumOver(f, T) /\ b = g[c] /\ p = f[x]
      OBVIOUS
    <3>2. a \in Int /\ b \in Int /\ p \in Int
      BY <2>1, <2>3, <2>7, <3>1
    <3>3. SumOver(h, C) = a - b + (b + p)
      BY <2>5, <2>6, <2>8, <3>1
    <3>4. a - b + (b + p) = a + p
      BY <3>2
    <3> QED BY <2>7, <3>1, <3>3, <3>4
  <2> QED BY <1>1, <2>2, <2>9
<1>4. S \in G
  BY <1>2, <1>3, SetInduction
<1> QED BY <1>1, <1>4

(* The sum of a table by rows is its sum by columns.                       *)
RowSums(m, A, T) == [a \in A |-> SumOver(m[a], T)]
ColumnSums(m, A, B, S) == [b \in B |-> SumOver([a \in A |-> m[a][b]], S)]

LEMMA SumOfTable ==
    ASSUME NEW A, NEW B, NEW m \in [A -> [B -> Int]],
           NEW S \in SUBSET A, IsFiniteSet(S), NEW T \in SUBSET B, IsFiniteSet(T)
    PROVE  SumOver(RowSums(m, A, T), S) = SumOver(ColumnSums(m, A, B, S), T)
<1>1. PICK G : G = {R \in SUBSET S : SumOver(RowSums(m, A, T), R) = SumOver(ColumnSums(m, A, B, R), T)}
  OBVIOUS
<1>2. PICK r : r = RowSums(m, A, T)
  OBVIOUS
<1>3. r \in [A -> Int]
  <2> SUFFICES ASSUME NEW a \in A PROVE SumOver(m[a], T) \in Int
    BY <1>2 DEF RowSums
  <2>1. m[a] \in [B -> Int]
    OBVIOUS
  <2> QED BY <2>1, SumIsInt
<1>4. \A R \in SUBSET S : ColumnSums(m, A, B, R) \in [B -> Int]
  <2> SUFFICES ASSUME NEW R \in SUBSET S, NEW b \in B PROVE SumOver([a \in A |-> m[a][b]], R) \in Int
    BY DEF ColumnSums
  <2>1. [a \in A |-> m[a][b]] \in [A -> Int] /\ R \in SUBSET A /\ IsFiniteSet(R)
    BY FS_Subset
  <2> QED BY <2>1, SumIsInt
<1>5. {} \in G
  <2>1. PICK g : g = ColumnSums(m, A, B, {})
    OBVIOUS
  <2>2. g \in [B -> Int] /\ \A b \in T \ {} : g[b] = 0
    BY <1>4, <2>1, SumOfNothing DEF ColumnSums
  <2>3. SumOver(g, {}) = SumOver(g, T)
    BY <2>2, SumZeros
  <2>4. SumOver(RowSums(m, A, T), {}) = SumOver(ColumnSums(m, A, B, {}), T)
    BY <2>1, <2>3, SumOfNothing
  <2> QED BY <1>1, <2>4
<1>6. ASSUME NEW R \in SUBSET S, NEW x \in S, R \in G, x \notin R
      PROVE  R \cup {x} \in G
  <2>1. R \in SUBSET A /\ x \in A \ R /\ IsFiniteSet(R) /\ R \cup {x} \in SUBSET S
    BY <1>6, FS_Subset
  <2>2. SumOver(r, R \cup {x}) = SumOver(r, R) + r[x]
    BY <1>3, <2>1, SumAdd
  <2>3. PICK g, h : g = ColumnSums(m, A, B, R) /\ h = ColumnSums(m, A, B, R \cup {x})
    OBVIOUS
  <2>4. g \in [B -> Int] /\ h \in [B -> Int] /\ m[x] \in [B -> Int]
    BY <1>4, <2>1, <2>3
  <2>5. \A b \in T : h[b] = g[b] + m[x][b]
    <3> SUFFICES ASSUME NEW b \in T PROVE h[b] = g[b] + m[x][b]
      OBVIOUS
    <3>1. PICK f : f = [a \in A |-> m[a][b]]
      OBVIOUS
    <3>2. f \in [A -> Int] /\ f[x] = m[x][b]
      BY <2>1, <3>1
    <3>3. SumOver(f, R \cup {x}) = SumOver(f, R) + f[x]
      BY <2>1, <3>2, SumAdd
    <3> QED BY <2>3, <3>1, <3>2, <3>3 DEF ColumnSums
  <2>6. SumOver(h, T) = SumOver(g, T) + SumOver(m[x], T)
    BY <2>4, <2>5, SumPlus
  <2>7. r[x] = SumOver(m[x], T)
    BY <1>2, <2>1 DEF RowSums
  <2>8. SumOver(r, R) = SumOver(g, T)
    BY <1>1, <1>2, <1>6, <2>3
  <2>9. SumOver(r, R \cup {x}) = SumOver(h, T)
    BY <2>2, <2>6, <2>7, <2>8
  <2> QED BY <1>1, <1>2, <2>1, <2>3, <2>9
<1>7. S \in G
  BY <1>5, <1>6, SetInduction
<1> QED BY <1>1, <1>7

--------------------------------------------------------------------------------
(* Amounts.                                                                *)

LEMMA MinOfTwo ==
    ASSUME NEW a \in Int, NEW b \in Int
    PROVE  Min({a, b}) \in {a, b} /\ Min({a, b}) <= a /\ Min({a, b}) <= b
<1>1. \E m \in {a, b} : \A y \in {a, b} : m <= y
  BY a <= b \/ b <= a
<1>2. Min({a, b}) \in {a, b} /\ \A y \in {a, b} : Min({a, b}) <= y
  BY <1>1 DEF Min
<1> QED BY <1>2

LEMMA MaxOfTwo ==
    ASSUME NEW a \in Int, NEW b \in Int
    PROVE  Max({a, b}) \in {a, b} /\ Max({a, b}) >= a /\ Max({a, b}) >= b
<1>1. \E m \in {a, b} : \A y \in {a, b} : m >= y
  BY a >= b \/ b >= a
<1>2. Max({a, b}) \in {a, b} /\ \A y \in {a, b} : Max({a, b}) >= y
  BY <1>1 DEF Max
<1> QED BY <1>2

LEMMA MaxWithZero ==
    ASSUME NEW r \in Int
    PROVE  Max({0, r}) \in Nat /\ (r >= 0 => Max({0, r}) = r)
<1>1. PICK z \in Int : z = 0
  OBVIOUS
<1>2. Max({z, r}) \in {z, r} /\ Max({z, r}) >= z /\ Max({z, r}) >= r
  BY <1>1, MaxOfTwo
<1>3. PICK m \in {z, r} : m = Max({z, r})
  BY <1>2
<1>4. m \in Nat /\ (r >= 0 => m = r)
  BY <1>1, <1>2, <1>3
<1> QED BY <1>1, <1>3, <1>4

ItemRow == [qty : 0..MaxQuantity, price : Prices]
Items == [Variants -> ItemRow]
SaleItems == [Variants -> [qty : 0..MaxQuantity, price : Nat]]
Amount == [total : Nat, discount : Nat, shipping : Nat, packaging : Nat, payable : Nat]
Before == [discount : Nat, shipping : Nat, packaging : Nat, wallet : Nat]

LEMMA TotalsTyped ==
    ASSUME NEW its \in SaleItems
    PROVE  ItemsTotal(its) \in Nat /\ CostTotal(its) \in Nat
<1>1. \A v \in Variants : its[v].qty \in Nat /\ its[v].price \in Nat
  BY NumbersAssumption DEF SaleItems
<1>2. UnitCost \in Nat /\ IsFiniteSet(Variants)
  BY NumbersAssumption, RowsAssumption
<1>3. PICK f, g : f = Value(its) /\ g = [v \in Variants |-> its[v].qty * UnitCost]
  OBVIOUS
<1>4. \A v \in Variants : its[v].qty * its[v].price \in Nat /\ its[v].qty * UnitCost \in Nat
  <2> SUFFICES ASSUME NEW v \in Variants PROVE its[v].qty * its[v].price \in Nat /\ its[v].qty * UnitCost \in Nat
    OBVIOUS
  <2>1. PICK q, p \in Nat : q = its[v].qty /\ p = its[v].price
    BY <1>1
  <2>2. q * p \in Nat /\ q * UnitCost \in Nat
    BY <1>2
  <2> QED BY <2>1, <2>2
<1>5. f \in [Variants -> Int] /\ g \in [Variants -> Int] /\ \A v \in Variants : f[v] \in Nat /\ g[v] \in Nat
  BY <1>3, <1>4 DEF Value
<1>6. SumOver(f, Variants) \in Nat /\ SumOver(g, Variants) \in Nat
  BY <1>2, <1>5, SumIsNat
<1> QED BY <1>3, <1>6 DEF ItemsTotal, CostTotal

LEMMA ItemsSold == Items \subseteq SaleItems
BY NumbersAssumption DEF Items, SaleItems, ItemRow

LEMMA ShareIsNat ==
    ASSUME NEW o, {o.total, o.discount, o.shipping, o.packaging, o.payable} \subseteq Nat
    PROVE  WalletShare(o) \in Nat
<1>1. PICK r \in Int : r = o.total - o.discount + o.shipping + o.packaging - o.payable
  OBVIOUS
<1>2. Max({0, r}) \in Nat
  BY <1>1, MaxWithZero
<1> QED BY <1>1, <1>2 DEF WalletShare

(* recalc leaves amounts of which the wallet pays no more than before.     *)
LEMMA RecalculatedFits ==
    ASSUME NEW before \in Before, NEW total \in Nat, NEW r, r = Recalculated(before, total)
    PROVE  /\ r \in Amount /\ r.total = total /\ r.discount <= total
           /\ WalletShare(r) <= before.wallet
<1>1. PICK d, s, p, w \in Nat : d = before.discount /\ s = before.shipping /\ p = before.packaging /\ w = before.wallet
  BY DEF Before
<1>2. PICK discount : discount = Min({d, total})
  OBVIOUS
<1>3. discount \in Nat /\ discount <= total
  <2>1. PICK a, b \in Int : a = d /\ b = total
    OBVIOUS
  <2>2. Min({a, b}) \in {a, b} /\ Min({a, b}) <= a /\ Min({a, b}) <= b
    BY MinOfTwo
  <2> QED BY <1>2, <2>1, <2>2
<1>4. PICK remaining \in Nat : remaining = total - discount + s + p
  BY <1>3
<1>5. PICK m : m = Max({0, remaining})
  OBVIOUS
<1>6. m = remaining
  BY <1>4, <1>5, MaxWithZero
<1>7. PICK wallet : wallet = Min({w, m})
  OBVIOUS
<1>8. wallet \in Nat /\ wallet <= w /\ wallet <= remaining
  <2>1. PICK a, b \in Int : a = w /\ b = m
    BY <1>6
  <2>2. Min({a, b}) \in {a, b} /\ Min({a, b}) <= a /\ Min({a, b}) <= b
    BY MinOfTwo
  <2> QED BY <1>6, <1>7, <2>1, <2>2
<1>9. r = [total |-> total, discount |-> discount, shipping |-> s, packaging |-> p, payable |-> remaining - wallet]
  BY <1>1, <1>2, <1>4, <1>5, <1>7 DEF Recalculated
<1>10. r \in Amount
  BY <1>3, <1>8, <1>9 DEF Amount
<1>11. r.total - r.discount + r.shipping + r.packaging - r.payable = wallet
  BY <1>3, <1>4, <1>8, <1>9
<1>12. Max({0, wallet}) = wallet
  BY <1>8, MaxWithZero
<1>13. WalletShare(r) = wallet
  BY <1>11, <1>12 DEF WalletShare
<1> QED BY <1>1, <1>3, <1>8, <1>9, <1>10, <1>13

SaleRows == [live : BOOLEAN, items : SaleItems, soldAt : {-1} \cup Instants, channel : Channels \cup {"none"},
             total : Nat, discount : Nat, payable : Nat, net : Nat, cost : Nat]

LEMMA SaleRowTyped ==
    ASSUME NEW its \in SaleItems, NEW d \in Amounts, NEW c \in Percents, NEW at \in Instants,
           NEW ch \in Channels, d <= ItemsTotal(its)
    PROVE  SaleRow(its, d, c, at, ch) \in SaleRows
<1>1. PICK t, k \in Nat : t = ItemsTotal(its) /\ k = CostTotal(its)
  BY TotalsTyped
<1>2. d \in Nat /\ c \in 0..100 /\ d <= t
  BY <1>1, NumbersAssumption
<1>3. PICK p \in Nat : p = t - d
  BY <1>2
<1>4. p * c \in Int /\ p * c >= 0 /\ p * c <= p * 100
  BY <1>2
<1>5. PICK n \in Int : n = p * c
  BY <1>4
<1>6. n >= 0 /\ n <= 100 * p
  BY <1>4, <1>5
<1>7. n \div 100 \in 0..p
  BY <1>6
<1>8. p - n \div 100 \in Nat
  BY <1>7
<1>9. SaleRow(its, d, c, at, ch) =
        [live |-> TRUE, items |-> its, soldAt |-> at, channel |-> ch, total |-> t, discount |-> d,
         payable |-> p, net |-> p - n \div 100, cost |-> k]
  BY <1>1, <1>3, <1>5 DEF SaleRow
<1> QED BY <1>2, <1>8, <1>9 DEF SaleRows

LEMMA PlacedTyped ==
    /\ PlacedItems \in Items
    /\ Placed.discount \in Nat /\ Placed.shipping \in Nat /\ Placed.packaging \in Nat /\ Placed.wallet \in Nat
    /\ Placed.qty \in Nat
BY PlacedAssumption, NumbersAssumption DEF PlacedItems, Items, ItemRow

LEMMA NewOrderFits ==
    /\ {NewOrder.total, NewOrder.discount, NewOrder.shipping, NewOrder.packaging, NewOrder.payable} \subseteq Nat
    /\ NewOrder.total = ItemsTotal(PlacedItems) /\ NewOrder.discount <= NewOrder.total
    /\ WalletShare(NewOrder) <= Placed.wallet
<1>1. PICK g \in Nat : g = Gross
  BY PlacedTyped, ItemsSold, TotalsTyped DEF Gross
<1>2. PICK d, s, p, w \in Nat : d = Placed.discount /\ s = Placed.shipping /\ p = Placed.packaging /\ w = Placed.wallet
  BY PlacedTyped
<1>3. d <= g /\ w <= g - d + s + p
  BY <1>1, <1>2, CheckoutAssumption
<1>4. /\ NewOrder.total = g /\ NewOrder.discount = d /\ NewOrder.shipping = s /\ NewOrder.packaging = p
      /\ NewOrder.payable = g - d + s + p - w
  BY <1>1, <1>2 DEF NewOrder
<1>5. NewOrder.total - NewOrder.discount + NewOrder.shipping + NewOrder.packaging - NewOrder.payable = w
  BY <1>4
<1>6. Max({0, w}) = w
  BY MaxWithZero
<1> QED BY <1>1, <1>2, <1>3, <1>4, <1>5, <1>6 DEF WalletShare, Gross

--------------------------------------------------------------------------------
(* Types and locks.                                                        *)

Payments == {"PENDING", "PAID", "FAILED"}
OrderRow == [pay : Payments, deleted : BOOLEAN, paidAt : {-1} \cup Instants,
             total : Nat, discount : Nat, shipping : Nat, packaging : Nat, payable : Nat]

AmountsJobs == [kind : {"amounts"}, order : Orders, item : {"none"}, before : Before, entered : BOOLEAN]
ItemJobs == [kind : {"load", "edit"}, order : Orders, item : Variants, to : ItemRow, delta : Int,
             left : Int, before : Before, entered : {FALSE}]
RecalcJobs == [kind : {"recalc"}, order : Orders, item : Variants \cup {"none"}, its : Items,
               delta : Int, left : Int, after : Amount]
DeleteJobs == [kind : {"delete"}, order : Orders, its : Items, paid : BOOLEAN, back : BOOLEAN]
SaleJobs == [kind : {"sale", "remove"}, sale : Sales, its : SaleItems]
Jobs == {Idle} \cup AmountsJobs \cup ItemJobs \cup RecalcJobs \cup DeleteJobs \cup SaleJobs

Types ==
    /\ now \in Instants /\ acts \in 0..MaxActs /\ uses \in Nat /\ astray \in Nat
    /\ stock \in [Variants -> Nat] /\ gone \in [Variants -> Int]
    /\ order \in [Orders -> OrderRow] /\ item \in [Orders -> Items]
    /\ sale \in [Sales -> SaleRows] /\ job \in [Admins -> Jobs]

(* a has updated the row of variant v and not committed yet.               *)
Holding(a, v) == job[a].kind \in {"edit", "recalc"} /\ job[a].delta # 0 /\ job[a].item = v
HeldApart == \A a, b \in Admins, v \in Variants : Holding(a, v) /\ Holding(b, v) => a = b
Covered == \A a \in Admins, v \in Variants : Holding(a, v) => stock[v] + job[a].delta >= 0

TypeInv == Types /\ HeldApart /\ Covered

LEMMA JobKinds ==
    ASSUME NEW j \in Jobs
    PROVE  /\ j.kind = "amounts" => j \in AmountsJobs
           /\ j.kind \in {"load", "edit"} => j \in ItemJobs
           /\ j.kind = "recalc" => j \in RecalcJobs
           /\ j.kind = "delete" => j \in DeleteJobs
           /\ j.kind \in {"sale", "remove"} => j \in SaleJobs
           /\ j.kind \in {"idle", "amounts", "load", "edit", "recalc", "delete", "sale", "remove"}
<1>1. CASE j = Idle
  BY <1>1 DEF Idle
<1>2. CASE j \in AmountsJobs
  BY <1>2 DEF AmountsJobs
<1>3. CASE j \in ItemJobs
  BY <1>3 DEF ItemJobs
<1>4. CASE j \in RecalcJobs
  BY <1>4 DEF RecalcJobs
<1>5. CASE j \in DeleteJobs
  BY <1>5 DEF DeleteJobs
<1>6. CASE j \in SaleJobs
  BY <1>6 DEF SaleJobs
<1> QED BY <1>1, <1>2, <1>3, <1>4, <1>5, <1>6 DEF Jobs

(* What a step leaves of the locks, and what it may then take.             *)
SameLocks ==
    \A a \in Admins, v \in Variants : Holding(a, v)' => Holding(a, v) /\ job'[a].delta = job[a].delta
TakenFree == \A v \in Variants : stock'[v] >= stock[v] \/ \A a \in Admins : ~Holding(a, v)'

LEMMA LocksKept ==
    ASSUME TypeInv, SameLocks, TakenFree, stock' \in [Variants -> Nat], job' \in [Admins -> Jobs]
    PROVE  (HeldApart /\ Covered)'
<1>1. HeldApart'
  BY DEF TypeInv, HeldApart, SameLocks
<1>2. ASSUME NEW a \in Admins, NEW v \in Variants, Holding(a, v)'
      PROVE  stock'[v] + job'[a].delta >= 0
  <2>1. Holding(a, v) /\ job'[a].delta = job[a].delta
    BY <1>2 DEF SameLocks
  <2>2. stock'[v] >= stock[v] /\ stock[v] + job[a].delta >= 0
    BY <1>2, <2>1 DEF TakenFree, TypeInv, Covered
  <2>3. job[a].delta \in Int
    BY <2>1, JobKinds DEF TypeInv, Types, Holding, ItemJobs, RecalcJobs
  <2>4. PICK s, t, d \in Int : s = stock[v] /\ t = stock'[v] /\ d = job[a].delta
    BY <2>3 DEF TypeInv, Types
  <2> QED BY <2>1, <2>2, <2>4
<1>3. Covered'
  BY <1>2 DEF Covered
<1> QED BY <1>1, <1>3

LEMMA JobsKeptLocks ==
    ASSUME job' = job
    PROVE  SameLocks
BY DEF SameLocks, Holding

(* A job that ends, or one that has written nothing yet, holds no lock.    *)
LEMMA JobSetLocks ==
    ASSUME TypeInv, NEW a \in Admins, NEW j, job' = [job EXCEPT ![a] = j],
           j.kind \notin {"edit", "recalc"}
    PROVE  SameLocks
BY DEF SameLocks, Holding, TypeInv, Types

LEMMA IdleHoldsNone == Idle \in Jobs /\ Idle.kind \notin {"edit", "recalc"}
BY DEF Idle, Jobs

LEMMA SnapshotTyped ==
    ASSUME NEW o \in OrderRow
    PROVE  Snapshot(o) \in Before
<1>1. {o.total, o.discount, o.shipping, o.packaging, o.payable} \subseteq Nat
  BY DEF OrderRow
<1>2. WalletShare(o) \in Nat
  BY <1>1, ShareIsNat
<1> QED BY <1>1, <1>2 DEF Snapshot, Before

LEMMA NothingSold == Nothing \in SaleItems /\ NoSale \in SaleRows
<1>1. Nothing \in SaleItems
  BY NumbersAssumption DEF Nothing, SaleItems
<1> QED BY <1>1 DEF NoSale, SaleRows

LEMMA InitTypeInv == Init => TypeInv
<1> SUFFICES ASSUME Init PROVE TypeInv
  OBVIOUS
<1>1. now \in Instants
  <2>1. PICK n \in Instants : \A k \in Instants : n =< k
    BY NumbersAssumption, LeastElement
  <2>2. Min(Instants) \in Instants
    BY <2>1 DEF Min
  <2> QED BY <2>2 DEF Init
<1>2. uses \in Nat
  BY RowsAssumption, FS_CardinalityType DEF Init
<1>3. NewOrder \in OrderRow
  BY NewOrderFits DEF NewOrder, OrderRow, Payments
<1>4. order \in [Orders -> OrderRow] /\ item \in [Orders -> Items] /\ sale \in [Sales -> SaleRows]
  BY <1>3, PlacedTyped, NothingSold DEF Init
<1>5. stock \in [Variants -> Nat] /\ gone \in [Variants -> Int] /\ acts \in 0..MaxActs /\ astray \in Nat
  BY NumbersAssumption DEF Init
<1>6. job \in [Admins -> Jobs]
  BY DEF Init, Jobs
<1>7. \A a \in Admins, v \in Variants : ~Holding(a, v)
  BY DEF Init, Idle, Holding
<1> QED BY <1>1, <1>2, <1>4, <1>5, <1>6, <1>7 DEF TypeInv, Types, HeldApart, Covered

LEMMA TickTypes ==
    ASSUME TypeInv, Tick
    PROVE  TypeInv'
<1>1. Types'
  BY DEF TypeInv, Types, Tick, rows
<1>2. SameLocks /\ TakenFree
  BY JobsKeptLocks DEF TypeInv, Types, Tick, rows, TakenFree
<1> QED BY <1>1, <1>2, LocksKept DEF TypeInv, Types

(* An order's row after a confirmed payment, and the orders with it.      *)
LEMMA PaidRow ==
    ASSUME TypeInv, NEW o \in Orders,
           order' = [order EXCEPT ![o].pay = "PAID", ![o].paidAt = now]
    PROVE  order' \in [Orders -> OrderRow]
<1>1. now \in Instants /\ order \in [Orders -> OrderRow] /\ order[o] \in OrderRow
  BY DEF TypeInv, Types
<1>2. PICK r : r = [order[o] EXCEPT !.pay = "PAID", !.paidAt = now]
  OBVIOUS
<1>3. r \in OrderRow
  BY <1>1, <1>2 DEF OrderRow, Payments
<1>4. order' = [order EXCEPT ![o] = r]
  BY <1>1, <1>2
<1> QED BY <1>1, <1>3, <1>4

LEMMA PaymentTypes ==
    ASSUME TypeInv, NEW o \in Orders, PaymentConfirmed(o)
    PROVE  TypeInv'
<1>1. Types'
  <2>1. order' \in [Orders -> OrderRow]
    BY PaidRow DEF PaymentConfirmed
  <2> QED BY <2>1 DEF TypeInv, Types, PaymentConfirmed
<1>2. SameLocks /\ TakenFree
  BY JobsKeptLocks DEF TypeInv, Types, PaymentConfirmed, TakenFree
<1> QED BY <1>1, <1>2, LocksKept DEF TypeInv, Types

LEMMA CodeIsNat == Code \in {0, 1}
BY DEF Code

LEMMA ReleaseTypes ==
    ASSUME TypeInv, NEW o \in Orders, Release(o)
    PROVE  TypeInv'
<1>1. \A v \in Variants : stock[v] \in Nat /\ item[o][v].qty \in Nat
  BY NumbersAssumption DEF TypeInv, Types, Items, ItemRow
<1>2. stock' = [v \in Variants |-> stock[v] + item[o][v].qty]
  BY DEF Release
<1>3. stock' \in [Variants -> Nat] /\ \A v \in Variants : stock'[v] >= stock[v]
  BY <1>1, <1>2
<1>4. order' \in [Orders -> OrderRow]
  <2>1. order \in [Orders -> OrderRow] /\ order[o] \in OrderRow
    BY DEF TypeInv, Types
  <2>2. PICK r : r = [order[o] EXCEPT !.pay = "FAILED"]
    OBVIOUS
  <2>3. r \in OrderRow
    BY <2>1, <2>2 DEF OrderRow, Payments
  <2>4. order' = [order EXCEPT ![o] = r]
    BY <2>1, <2>2 DEF Release
  <2> QED BY <2>1, <2>3, <2>4
<1>5. uses' \in Nat
  BY CodeIsNat DEF TypeInv, Types, Release
<1>6. Types'
  BY <1>3, <1>4, <1>5 DEF TypeInv, Types, Release
<1>7. SameLocks /\ TakenFree
  BY <1>3, JobsKeptLocks DEF Release, TakenFree
<1> QED BY <1>6, <1>7, LocksKept DEF TypeInv, Types

LEMMA ReviveTypes ==
    ASSUME TypeInv, NEW o \in Orders, Revive(o)
    PROVE  TypeInv'
<1>1. \A v \in Variants : stock[v] \in Nat /\ gone[v] \in Int /\ item[o][v].qty \in Nat
  BY NumbersAssumption DEF TypeInv, Types, Items, ItemRow
<1>2. PICK short : /\ short = {v \in Variants : stock[v] < item[o][v].qty}
                   /\ stock' = [v \in Variants |-> IF v \in short THEN stock[v] ELSE stock[v] - item[o][v].qty]
                   /\ gone' = [v \in Variants |-> IF v \in short THEN gone[v] - item[o][v].qty ELSE gone[v]]
  BY DEF Revive
<1>3. stock' \in [Variants -> Nat] /\ gone' \in [Variants -> Int]
  BY <1>1, <1>2
<1>4. \A v \in Variants : stock'[v] >= stock[v] \/ item[o][v].qty > 0
  BY <1>1, <1>2
<1>5. order' \in [Orders -> OrderRow]
  BY PaidRow DEF Revive
<1>6. uses' \in Nat
  BY CodeIsNat DEF TypeInv, Types, Revive
<1>7. Types'
  BY <1>3, <1>5, <1>6 DEF TypeInv, Types, Revive
<1>8. SameLocks
  BY JobsKeptLocks DEF Revive
<1>9. TakenFree
  BY <1>4, <1>8 DEF Revive, ItemsFree, VariantFree, TakenFree, SameLocks, Holding
<1> QED BY <1>7, <1>8, <1>9, LocksKept DEF TypeInv, Types

LEMMA ElsewhereTypes ==
    ASSUME TypeInv, NEW v \in Variants, Elsewhere(v)
    PROVE  TypeInv'
<1>1. PICK n \in {-1, 1} : /\ stock[v] - n >= 0
                           /\ stock' = [stock EXCEPT ![v] = @ - n]
                           /\ gone' = [gone EXCEPT ![v] = @ + n]
  BY DEF Elsewhere
<1>2. stock' \in [Variants -> Nat] /\ gone' \in [Variants -> Int]
  BY <1>1 DEF TypeInv, Types
<1>3. Types'
  BY <1>2 DEF TypeInv, Types, Elsewhere
<1>4. SameLocks
  BY JobsKeptLocks DEF Elsewhere
<1>5. \A w \in Variants \ {v} : stock'[w] >= stock[w]
  BY <1>1 DEF TypeInv, Types
<1>6. TakenFree
  BY <1>4, <1>5 DEF Elsewhere, VariantFree, TakenFree, SameLocks, Holding
<1> QED BY <1>3, <1>4, <1>6, LocksKept DEF TypeInv, Types

LEMMA BeginTypes ==
    ASSUME TypeInv, NEW a \in Admins, NEW j \in Jobs, Begin(a, j), j.kind \notin {"edit", "recalc"}
    PROVE  TypeInv'
<1>1. Types'
  BY NumbersAssumption DEF TypeInv, Types, Begin, rows
<1>2. SameLocks
  BY JobSetLocks DEF Begin
<1>3. TakenFree
  BY DEF TypeInv, Types, Begin, rows, TakenFree
<1> QED BY <1>1, <1>2, <1>3, LocksKept DEF TypeInv, Types

LEMMA UpdateOrderTypes ==
    ASSUME TypeInv, NEW a \in Admins, NEW o \in Orders, NEW c \in Changes, UpdateOrder(a, o, c)
    PROVE  TypeInv'
<1>1. PICK old : old = Snapshot(order[o])
  OBVIOUS
<1>2. old \in Before
  BY <1>1, SnapshotTyped DEF TypeInv, Types
<1>3. DOMAIN c \subseteq {"discount", "shipping", "packaging"} /\ \A f \in DOMAIN c : c[f] \in Nat
  BY RowsAssumption
<1>4. PICK b : b = [discount |-> Entered(c, "discount", old.discount),
                    shipping |-> Entered(c, "shipping", old.shipping),
                    packaging |-> Entered(c, "packaging", old.packaging),
                    wallet |-> old.wallet]
  OBVIOUS
<1>5. b \in Before
  BY <1>2, <1>3, <1>4 DEF Entered, Before
<1>6. PICK e \in BOOLEAN : e = ("discount" \in DOMAIN c)
  <2>1. ("discount" \in DOMAIN c) \in BOOLEAN
    OBVIOUS
  <2> QED BY <2>1, Zenon
<1>7. PICK j : j = [kind |-> "amounts", order |-> o, item |-> "none", before |-> b, entered |-> e]
  OBVIOUS
<1>8. j \in Jobs /\ j.kind \notin {"edit", "recalc"}
  BY <1>5, <1>7 DEF Jobs, AmountsJobs
<1>9. Begin(a, j)
  BY <1>1, <1>4, <1>6, <1>7 DEF UpdateOrder
<1> QED BY <1>8, <1>9, BeginTypes

LEMMA EditTyped ==
    ASSUME TypeInv, NEW o \in Orders, NEW v \in Variants, NEW to \in ItemRow, NEW back \in BOOLEAN
    PROVE  Edit(o, v, to, back) \in ItemJobs /\ Edit(o, v, to, back).kind = "load"
<1>1. Snapshot(order[o]) \in Before
  BY SnapshotTyped DEF TypeInv, Types
<1>2. item[o][v].qty \in Int /\ to.qty \in Int
  BY NumbersAssumption DEF TypeInv, Types, Items, ItemRow
<1> QED BY <1>1, <1>2 DEF Edit, Delta, ItemJobs

LEMMA UpdateItemTypes ==
    ASSUME TypeInv, NEW a \in Admins, NEW o \in Orders, NEW v \in Variants, NEW q \in 1..MaxQuantity,
           NEW p \in Prices, NEW back \in BOOLEAN, UpdateItem(a, o, v, q, p, back)
    PROVE  TypeInv'
<1>1. PICK to \in ItemRow : to = [qty |-> q, price |-> p]
  <2>1. q \in 0..MaxQuantity
    BY NumbersAssumption
  <2> QED BY <2>1 DEF ItemRow
<1>2. PICK j : j = Edit(o, v, to, back)
  OBVIOUS
<1>3. j \in Jobs /\ j.kind \notin {"edit", "recalc"}
  BY <1>2, EditTyped DEF Jobs
<1> QED BY <1>1, <1>2, <1>3, BeginTypes DEF UpdateItem

LEMMA DeleteItemTypes ==
    ASSUME TypeInv, NEW a \in Admins, NEW o \in Orders, NEW v \in Variants, NEW back \in BOOLEAN,
           DeleteItem(a, o, v, back)
    PROVE  TypeInv'
<1>1. PICK to \in ItemRow : to = [item[o][v] EXCEPT !.qty = 0]
  <2>1. 0 \in 0..MaxQuantity
    BY NumbersAssumption
  <2>2. item[o][v] \in ItemRow
    BY DEF TypeInv, Types, Items
  <2> QED BY <2>1, <2>2 DEF ItemRow
<1>2. PICK j : j = Edit(o, v, to, back)
  OBVIOUS
<1>3. j \in Jobs /\ j.kind \notin {"edit", "recalc"}
  BY <1>2, EditTyped DEF Jobs
<1> QED BY <1>1, <1>2, <1>3, BeginTypes DEF DeleteItem

LEMMA DeleteOrderTypes ==
    ASSUME TypeInv, NEW a \in Admins, NEW o \in Orders, NEW back \in BOOLEAN, DeleteOrder(a, o, back)
    PROVE  TypeInv'
<1>1. PICK p \in BOOLEAN : p = (order[o].pay = "PAID")
  OBVIOUS
<1>2. PICK j : j = [kind |-> "delete", order |-> o, its |-> item[o], paid |-> p, back |-> back]
  OBVIOUS
<1>3. j \in Jobs /\ j.kind \notin {"edit", "recalc"}
  BY <1>2 DEF Jobs, DeleteJobs, TypeInv, Types
<1> QED BY <1>1, <1>2, <1>3, BeginTypes DEF DeleteOrder

LEMMA LoadSaleTypes ==
    ASSUME TypeInv, NEW a \in Admins, NEW s \in Sales, NEW kind \in {"sale", "remove"}, LoadSale(a, s, kind)
    PROVE  TypeInv'
<1>1. PICK j : j = [kind |-> kind, sale |-> s, its |-> sale[s].items]
  OBVIOUS
<1>2. j \in Jobs /\ j.kind \notin {"edit", "recalc"}
  BY <1>1 DEF Jobs, SaleJobs, SaleRows, TypeInv, Types
<1> QED BY <1>1, <1>2, BeginTypes DEF LoadSale

LEMMA ChangeTypes ==
    ASSUME TypeInv, NEW a \in Admins, Change(a)
    PROVE  TypeInv'
<1>1. PICK j : j = job[a]
  OBVIOUS
<1>2. j \in ItemJobs /\ j.kind = "load" /\ (j.delta # 0 => VariantFree(j.item))
  BY <1>1, JobKinds DEF TypeInv, Types, Change
<1>3. UNCHANGED <<now, stock, order, item, sale, uses, gone, astray, acts>>
  BY DEF Change, rows
<1>4. CASE Short(j)
  <2>1. job' = [job EXCEPT ![a] = Idle]
    BY <1>1, <1>4 DEF Change, Abort
  <2>2. Types'
    BY <1>3, <2>1, IdleHoldsNone DEF TypeInv, Types
  <2>3. SameLocks
    BY <2>1, IdleHoldsNone, JobSetLocks
  <2>4. TakenFree
    BY <1>3 DEF TypeInv, Types, TakenFree
  <2> QED BY <2>2, <2>3, <2>4, LocksKept DEF TypeInv, Types
<1>5. CASE ~Short(j)
  <2>1. job' = [job EXCEPT ![a].kind = "edit"]
    BY <1>1, <1>5 DEF Change
  <2>2. PICK k : k = [j EXCEPT !.kind = "edit"]
    OBVIOUS
  <2>3. k \in Jobs /\ k.kind = "edit" /\ k.delta = j.delta /\ k.item = j.item
    BY <1>2, <2>2 DEF Jobs, ItemJobs
  <2>4. job' = [job EXCEPT ![a] = k]
    BY <1>1, <2>1, <2>2 DEF TypeInv, Types
  <2>5. Types'
    BY <1>3, <2>3, <2>4 DEF TypeInv, Types
  <2>6. \A b \in Admins \ {a} : job'[b] = job[b]
    BY <2>4 DEF TypeInv, Types
  <2>7. job'[a] = k
    BY <2>4 DEF TypeInv, Types
  <2>8. \A b \in Admins \ {a}, v \in Variants : Holding(b, v)' => Holding(b, v) /\ ~Holding(a, v)'
    BY <1>2, <2>3, <2>6, <2>7 DEF Holding, VariantFree
  <2>9. HeldApart'
    BY <2>8 DEF TypeInv, HeldApart
  <2>10. ASSUME NEW b \in Admins, NEW v \in Variants, Holding(b, v)'
         PROVE  stock'[v] + job'[b].delta >= 0
    <3>1. CASE b = a
      <4>1. v = j.item /\ job'[b].delta = j.delta /\ stock'[v] = stock[v]
        BY <1>3, <2>3, <2>7, <2>10, <3>1 DEF Holding
      <4>2. stock[v] \in Int /\ j.delta \in Int /\ ~(stock[v] + j.delta < 0)
        BY <1>2, <1>5, <4>1 DEF Short, ItemJobs, TypeInv, Types
      <4> QED BY <4>1, <4>2
    <3>2. CASE b # a
      BY <1>3, <2>6, <2>8, <2>10, <3>2 DEF TypeInv, Covered
    <3> QED BY <3>1, <3>2
  <2>11. Covered'
    BY <2>10 DEF Covered
  <2> QED BY <2>5, <2>9, <2>11 DEF TypeInv
<1> QED BY <1>4, <1>5

LEMMA VisibleTyped ==
    ASSUME TypeInv, NEW j \in AmountsJobs \cup ItemJobs
    PROVE  Visible(j) \in Items /\ ItemsTotal(Visible(j)) \in Nat
<1>1. item[j.order] \in Items
  BY DEF TypeInv, Types, AmountsJobs, ItemJobs
<1>2. Visible(j) \in Items
  BY <1>1 DEF Visible, AmountsJobs, ItemJobs, Items
<1> QED BY <1>2, ItemsSold, TotalsTyped

LEMMA RecalcTypes ==
    ASSUME TypeInv, NEW a \in Admins, Recalc(a)
    PROVE  TypeInv'
<1>1. PICK j : j = job[a]
  OBVIOUS
<1>2. j \in AmountsJobs \cup ItemJobs /\ j.kind \in {"amounts", "edit"}
  BY <1>1, JobKinds DEF TypeInv, Types, Recalc
<1>3. UNCHANGED <<now, stock, order, item, sale, uses, gone, astray, acts>>
  BY DEF Recalc, rows
<1>4. PICK its, total, r : its = Visible(j) /\ total = ItemsTotal(its) /\ r = Recalculated(j.before, total)
  OBVIOUS
<1>5. its \in Items /\ total \in Nat /\ j.before \in Before
  BY <1>2, <1>4, VisibleTyped DEF AmountsJobs, ItemJobs
<1>6. r \in Amount
  BY <1>4, <1>5, RecalculatedFits
<1>7. PICK k : k = [kind |-> "recalc", order |-> j.order, item |-> j.item, its |-> its,
                    delta |-> IF j.item = "none" THEN 0 ELSE j.delta,
                    left |-> IF j.item = "none" THEN 0 ELSE j.left, after |-> r]
  OBVIOUS
<1>8. k \in Jobs
  <2>1. /\ j.order \in Orders /\ j.item \in Variants \cup {"none"}
        /\ j.item # "none" => j.delta \in Int /\ j.left \in Int
    <3>1. CASE j \in AmountsJobs
      BY <3>1 DEF AmountsJobs
    <3>2. CASE j \in ItemJobs
      BY <3>2 DEF ItemJobs
    <3> QED BY <1>2, <3>1, <3>2
  <2>2. PICK d, l \in Int : /\ d = IF j.item = "none" THEN 0 ELSE j.delta
                           /\ l = IF j.item = "none" THEN 0 ELSE j.left
    BY <2>1
  <2>3. k = [kind |-> "recalc", order |-> j.order, item |-> j.item, its |-> its,
             delta |-> d, left |-> l, after |-> r]
    BY <1>7, <2>2
  <2>4. k \in RecalcJobs
    BY <1>5, <1>6, <2>1, <2>3 DEF RecalcJobs
  <2> QED BY <2>4 DEF Jobs
<1>9. \E l \in {Idle, k} : job' = [job EXCEPT ![a] = l]
  BY <1>1, <1>4, <1>7 DEF Recalc, Abort
<1>10. PICK l \in {Idle, k} : job' = [job EXCEPT ![a] = l]
  BY <1>9
<1>11. Types'
  BY <1>3, <1>8, <1>10, IdleHoldsNone DEF TypeInv, Types
<1>12. \A v \in Variants : Holding(a, v)' => Holding(a, v) /\ job'[a].delta = job[a].delta
  <2>1. job'[a] = l
    BY <1>10 DEF TypeInv, Types
  <2>2. CASE j.kind = "edit"
    <3>1. j \in ItemJobs /\ j.item # "none"
      BY <1>2, <2>2, RowsAssumption DEF AmountsJobs, ItemJobs
    <3>2. k.item = j.item /\ k.delta = j.delta
      BY <1>7, <3>1
    <3> QED BY <1>1, <1>10, <2>1, <2>2, <3>2, IdleHoldsNone DEF Holding
  <2>3. CASE j.kind = "amounts"
    <3>1. k.delta = 0
      BY <1>2, <1>7, <2>3 DEF AmountsJobs, ItemJobs
    <3> QED BY <1>10, <2>1, <3>1, IdleHoldsNone DEF Holding
  <2> QED BY <1>2, <2>2, <2>3
<1>13. \A b \in Admins \ {a} : job'[b] = job[b]
  BY <1>10 DEF TypeInv, Types
<1>14. SameLocks
  BY <1>12, <1>13 DEF SameLocks, Holding
<1>15. TakenFree
  BY <1>3 DEF TypeInv, Types, TakenFree
<1> QED BY <1>11, <1>14, <1>15, LocksKept DEF TypeInv, Types

LEMMA CommitEditTypes ==
    ASSUME TypeInv, NEW a \in Admins, CommitEdit(a)
    PROVE  TypeInv'
<1>1. PICK j : j = job[a]
  OBVIOUS
<1>2. j \in RecalcJobs /\ j.kind = "recalc"
  BY <1>1, JobKinds DEF TypeInv, Types, CommitEdit
<1>3. /\ job' = [job EXCEPT ![a] = Idle]
      /\ UNCHANGED <<now, sale, uses, astray, acts>>
      /\ order' = [order EXCEPT ![j.order] = Repriced(@, j.after)]
  BY <1>1 DEF CommitEdit, Abort
<1>4. order' \in [Orders -> OrderRow]
  <2>1. PICK o, m : o = order[j.order] /\ m = j.after
    OBVIOUS
  <2>2. o \in OrderRow /\ m \in Amount /\ j.order \in Orders
    BY <1>2, <2>1 DEF TypeInv, Types, RecalcJobs
  <2>3. Repriced(o, m) \in OrderRow
    BY <2>2 DEF OrderRow, Amount, Repriced
  <2> QED BY <1>3, <2>1, <2>2, <2>3 DEF TypeInv, Types
<1>5. SameLocks
  BY <1>3, IdleHoldsNone, JobSetLocks
<1>6. job' \in [Admins -> Jobs]
  BY <1>3, IdleHoldsNone DEF TypeInv, Types
<1>7. CASE j.item = "none"
  <2>1. UNCHANGED <<stock, item, gone>>
    BY <1>1, <1>7 DEF CommitEdit
  <2>2. Types'
    BY <1>3, <1>4, <1>6, <2>1 DEF TypeInv, Types
  <2>3. TakenFree
    BY <2>1 DEF TypeInv, Types, TakenFree
  <2> QED BY <1>5, <2>2, <2>3, LocksKept DEF TypeInv, Types
<1>8. CASE j.item # "none"
  <2>1. PICK v \in Variants : v = j.item
    BY <1>2, <1>8 DEF RecalcJobs
  <2>2. /\ item' = [item EXCEPT ![j.order][v] = j.its[v]]
        /\ stock' = [stock EXCEPT ![v] = @ + j.delta]
        /\ gone' = [gone EXCEPT ![v] = @ + j.left]
    BY <1>1, <1>8, <2>1 DEF CommitEdit
  <2>3. j.its[v] \in ItemRow /\ j.left \in Int /\ j.delta \in Int /\ j.order \in Orders
    BY <1>2 DEF RecalcJobs, Items
  <2>4. item' \in [Orders -> Items]
    BY <2>2, <2>3 DEF TypeInv, Types, Items
  <2>5. gone' \in [Variants -> Int]
    BY <2>2, <2>3 DEF TypeInv, Types
  <2>7. stock[v] + j.delta >= 0
    <3>1. CASE j.delta = 0
      BY <3>1 DEF TypeInv, Types
    <3>2. CASE j.delta # 0
      <4>1. Holding(a, v)
        BY <1>1, <1>2, <2>1, <3>2 DEF Holding
      <4> QED BY <1>1, <4>1 DEF TypeInv, Covered
    <3> QED BY <3>1, <3>2
  <2>8. stock' \in [Variants -> Nat]
    BY <2>2, <2>3, <2>7 DEF TypeInv, Types
  <2>9. Types'
    BY <1>3, <1>4, <1>6, <2>4, <2>5, <2>8 DEF TypeInv, Types
  <2>10. \A b \in Admins : ~(j.delta # 0 /\ Holding(b, v)')
    <3> SUFFICES ASSUME NEW b \in Admins, j.delta # 0, Holding(b, v)' PROVE FALSE
      OBVIOUS
    <3>1. Holding(b, v)
      BY <1>5 DEF SameLocks
    <3>2. Holding(a, v)
      BY <1>1, <1>2, <2>1 DEF Holding
    <3>3. a = b
      BY <3>1, <3>2 DEF TypeInv, HeldApart
    <3>4. ~Holding(a, v)'
      BY <1>3, IdleHoldsNone DEF TypeInv, Types, Holding
    <3> QED BY <3>3, <3>4
  <2>11. \A w \in Variants : stock'[w] = stock[w] \/ (w = v /\ j.delta # 0)
    BY <2>2, <2>3 DEF TypeInv, Types
  <2>12. TakenFree
    <3> SUFFICES ASSUME NEW w \in Variants
                 PROVE stock'[w] >= stock[w] \/ \A b \in Admins : ~Holding(b, w)'
      BY DEF TakenFree
    <3>1. CASE stock'[w] = stock[w]
      BY <3>1 DEF TypeInv, Types
    <3>2. CASE w = v /\ j.delta # 0
      BY <2>10, <3>2
    <3> QED BY <2>11, <3>1, <3>2
  <2> QED BY <1>5, <2>8, <2>9, <2>12, LocksKept DEF TypeInv, Types
<1> QED BY <1>7, <1>8

LEMMA CommitDeleteTypes ==
    ASSUME TypeInv, NEW a \in Admins, CommitDelete(a)
    PROVE  TypeInv'
<1>1. PICK j : j = job[a]
  OBVIOUS
<1>2. j \in DeleteJobs
  BY <1>1, JobKinds DEF TypeInv, Types, CommitDelete
<1>3. /\ job' = [job EXCEPT ![a] = Idle]
      /\ UNCHANGED <<now, sale, acts>>
      /\ stock' = [v \in Variants |-> stock[v] + Returned(j)[v]]
      /\ gone' = [v \in Variants |-> IF j.paid /\ ~j.back THEN gone[v] + j.its[v].qty ELSE gone[v]]
      /\ uses' = DeletedUses(j.paid)
      /\ item' = [item EXCEPT ![j.order] = [v \in Variants |-> [item[j.order][v] EXCEPT !.qty = 0]]]
      /\ order' = [order EXCEPT ![j.order].deleted = TRUE]
      /\ astray' \in {astray, astray + 1}
  BY <1>1 DEF CommitDelete, Abort
<1>4. j.order \in Orders /\ \A v \in Variants : j.its[v].qty \in Nat
  BY <1>2, NumbersAssumption DEF DeleteJobs, Items, ItemRow
<1>5. \A v \in Variants : Returned(j)[v] \in Nat
  BY <1>4 DEF Returned
<1>6. stock' \in [Variants -> Nat] /\ \A v \in Variants : stock'[v] >= stock[v]
  BY <1>3, <1>5 DEF TypeInv, Types
<1>7. gone' \in [Variants -> Int]
  BY <1>3, <1>4 DEF TypeInv, Types
<1>8. uses' \in Nat
  BY <1>3, CodeIsNat DEF TypeInv, Types, DeletedUses
<1>9. item' \in [Orders -> Items]
  <2>1. 0 \in 0..MaxQuantity
    BY NumbersAssumption
  <2>2. \A v \in Variants : item[j.order][v] \in ItemRow
    BY <1>4 DEF TypeInv, Types, Items
  <2>3. \A v \in Variants : [item[j.order][v] EXCEPT !.qty = 0] \in ItemRow
    BY <2>1, <2>2 DEF ItemRow
  <2>4. [v \in Variants |-> [item[j.order][v] EXCEPT !.qty = 0]] \in Items
    BY <2>3 DEF Items
  <2> QED BY <1>3, <2>4 DEF TypeInv, Types
<1>10. order' \in [Orders -> OrderRow]
  <2>1. order \in [Orders -> OrderRow] /\ order[j.order] \in OrderRow
    BY <1>4 DEF TypeInv, Types
  <2>2. PICK r : r = [order[j.order] EXCEPT !.deleted = TRUE]
    OBVIOUS
  <2>3. r \in OrderRow
    BY <2>1, <2>2 DEF OrderRow
  <2>4. order' = [order EXCEPT ![j.order] = r]
    BY <1>3, <1>4, <2>1, <2>2
  <2> QED BY <1>4, <2>1, <2>3, <2>4
<1>11. Types'
  BY <1>3, <1>6, <1>7, <1>8, <1>9, <1>10, IdleHoldsNone DEF TypeInv, Types
<1>12. SameLocks
  BY <1>3, IdleHoldsNone, JobSetLocks
<1>13. TakenFree
  BY <1>6 DEF TakenFree
<1> QED BY <1>11, <1>12, <1>13, LocksKept DEF TypeInv, Types

LEMMA BasketsSold == Baskets \subseteq SaleItems
BY PlacedAssumption, NumbersAssumption DEF SaleItems

LEMMA CreateSaleTypes ==
    ASSUME TypeInv, NEW s \in Sales, NEW its \in Baskets, NEW d \in Amounts, NEW c \in Percents,
           NEW at \in Instants, NEW ch \in Channels, CreateSale(s, its, d, c, at, ch)
    PROVE  TypeInv'
<1>1. its \in SaleItems /\ \A v \in Variants : its[v].qty \in Nat
  BY BasketsSold, NumbersAssumption DEF SaleItems
<1>2. SaleRow(its, d, c, at, ch) \in SaleRows
  BY <1>1, SaleRowTyped DEF CreateSale
<1>3. /\ stock' = [v \in Variants |-> stock[v] - its[v].qty]
      /\ ~Lacking(stock, its) /\ ItemsFree(its)
      /\ UNCHANGED <<now, order, item, uses, job, gone, astray>>
  BY DEF CreateSale
<1>4. \A v \in Variants : stock[v] >= its[v].qty
  BY <1>1, <1>3 DEF Lacking, TypeInv, Types
<1>5. stock' \in [Variants -> Nat] /\ \A v \in Variants : stock'[v] >= stock[v] \/ its[v].qty > 0
  BY <1>1, <1>3, <1>4 DEF TypeInv, Types
<1>6. acts' \in 0..MaxActs /\ sale' \in [Sales -> SaleRows]
  BY <1>2, NumbersAssumption DEF TypeInv, Types, CreateSale
<1>7. Types'
  BY <1>3, <1>5, <1>6 DEF TypeInv, Types
<1>8. SameLocks
  BY <1>3, JobsKeptLocks
<1>9. TakenFree
  BY <1>3, <1>5, <1>8 DEF ItemsFree, VariantFree, TakenFree, SameLocks, Holding
<1> QED BY <1>7, <1>8, <1>9, LocksKept DEF TypeInv, Types

LEMMA AllFree ==
    ASSUME \A v \in Variants : VariantFree(v), SameLocks
    PROVE  TakenFree
BY DEF VariantFree, TakenFree, SameLocks, Holding

LEMMA UpdateSaleTypes ==
    ASSUME TypeInv, NEW a \in Admins, NEW its \in Baskets, NEW d \in Amounts, NEW c \in Percents,
           NEW at \in Instants, NEW ch \in Channels, UpdateSale(a, its, d, c, at, ch)
    PROVE  TypeInv'
<1>1. its \in SaleItems /\ \A v \in Variants : its[v].qty \in Nat
  BY BasketsSold, NumbersAssumption DEF SaleItems
<1>2. PICK row : row = SaleRow(its, d, c, at, ch)
  OBVIOUS
<1>3. row \in SaleRows
  BY <1>1, <1>2, SaleRowTyped DEF UpdateSale
<1>4. PICK j : j = job[a]
  OBVIOUS
<1>5. j \in SaleJobs /\ j.sale \in Sales /\ \A v \in Variants : j.its[v].qty \in Nat
  <2>1. j \in SaleJobs
    BY <1>4, JobKinds DEF TypeInv, Types, UpdateSale
  <2> QED BY <2>1, NumbersAssumption DEF SaleJobs, SaleItems
<1>6. PICK shelf : shelf = Restored(j.its)
  OBVIOUS
<1>7. shelf \in [Variants -> Nat]
  BY <1>5, <1>6 DEF Restored, TypeInv, Types
<1>8. /\ job' = [job EXCEPT ![a] = Idle]
      /\ UNCHANGED <<now, order, item, uses, gone, astray, acts>>
      /\ \A v \in Variants : VariantFree(v)
  BY DEF UpdateSale, Abort
<1>9. ASSUME Lacking(shelf, its)
      PROVE  stock' \in [Variants -> Nat] /\ sale' \in [Sales -> SaleRows]
  <2>1. stock' = stock /\ sale' = sale
    BY <1>4, <1>6, <1>9 DEF UpdateSale
  <2> QED BY <2>1 DEF TypeInv, Types
<1>10. ASSUME ~Lacking(shelf, its)
       PROVE  stock' \in [Variants -> Nat] /\ sale' \in [Sales -> SaleRows]
  <2>1. PICK live : live = sale[j.sale].live
    OBVIOUS
  <2>2. /\ stock' = [v \in Variants |-> shelf[v] - its[v].qty]
        /\ sale' = [sale EXCEPT ![j.sale] = [row EXCEPT !.live = live]]
    BY <1>2, <1>4, <1>6, <1>10, <2>1 DEF UpdateSale
  <2>3. \A v \in Variants : shelf[v] >= its[v].qty
    BY <1>1, <1>7, <1>10 DEF Lacking
  <2>4. stock' \in [Variants -> Nat]
    BY <1>1, <1>7, <2>2, <2>3
  <2>5. [row EXCEPT !.live = live] \in SaleRows
    BY <1>3, <1>5, <2>1 DEF SaleRows, TypeInv, Types
  <2> QED BY <2>2, <2>4, <2>5 DEF TypeInv, Types
<1>11. stock' \in [Variants -> Nat] /\ sale' \in [Sales -> SaleRows]
  BY <1>9, <1>10
<1>12. Types'
  BY <1>8, <1>11, IdleHoldsNone DEF TypeInv, Types
<1>13. SameLocks
  BY <1>8, IdleHoldsNone, JobSetLocks
<1>14. TakenFree
  BY <1>8, <1>13, AllFree
<1> QED BY <1>12, <1>13, <1>14, LocksKept DEF TypeInv, Types

LEMMA RemoveSaleTypes ==
    ASSUME TypeInv, NEW a \in Admins, RemoveSale(a)
    PROVE  TypeInv'
<1>1. PICK j : j = job[a]
  OBVIOUS
<1>2. j \in SaleJobs /\ j.sale \in Sales /\ \A v \in Variants : j.its[v].qty \in Nat
  <2>1. j \in SaleJobs
    BY <1>1, JobKinds DEF TypeInv, Types, RemoveSale
  <2> QED BY <2>1, NumbersAssumption DEF SaleJobs, SaleItems
<1>3. /\ job' = [job EXCEPT ![a] = Idle]
      /\ UNCHANGED <<now, order, item, uses, gone, astray, acts>>
      /\ \A v \in Variants : VariantFree(v)
      /\ stock' = Restored(j.its)
      /\ sale' = [sale EXCEPT ![j.sale].live = FALSE]
  BY <1>1 DEF RemoveSale, Abort
<1>4. stock' \in [Variants -> Nat] /\ sale' \in [Sales -> SaleRows]
  <2>1. stock' \in [Variants -> Nat]
    BY <1>2, <1>3 DEF Restored, TypeInv, Types
  <2>2. sale \in [Sales -> SaleRows] /\ sale[j.sale] \in SaleRows
    BY <1>2 DEF TypeInv, Types
  <2>3. PICK r : r = [sale[j.sale] EXCEPT !.live = FALSE]
    OBVIOUS
  <2>4. r \in SaleRows
    BY <2>2, <2>3 DEF SaleRows
  <2>5. sale' = [sale EXCEPT ![j.sale] = r]
    BY <1>2, <1>3, <2>2, <2>3
  <2> QED BY <1>2, <2>1, <2>2, <2>4, <2>5
<1>5. Types'
  BY <1>3, <1>4, IdleHoldsNone DEF TypeInv, Types
<1>6. SameLocks
  BY <1>3, IdleHoldsNone, JobSetLocks
<1>7. TakenFree
  BY <1>3, <1>6, AllFree
<1> QED BY <1>5, <1>6, <1>7, LocksKept DEF TypeInv, Types

LEMMA StepTypes ==
    ASSUME TypeInv, [Next]_vars
    PROVE  TypeInv'
<1>1. CASE UNCHANGED vars
  <2>1. Types'
    BY <1>1 DEF vars, rows, TypeInv, Types
  <2>2. SameLocks /\ TakenFree
    BY <1>1, JobsKeptLocks DEF vars, rows, TypeInv, Types, TakenFree
  <2> QED BY <2>1, <2>2, LocksKept DEF TypeInv, Types
<1>2. CASE Tick
  BY <1>2, TickTypes
<1>3. ASSUME NEW o \in Orders, PaymentConfirmed(o) \/ Release(o) \/ Revive(o)
      PROVE  TypeInv'
  BY <1>3, PaymentTypes, ReleaseTypes, ReviveTypes
<1>4. ASSUME NEW v \in Variants, Elsewhere(v)
      PROVE  TypeInv'
  BY <1>4, ElsewhereTypes
<1>5. ASSUME NEW a \in Admins, AdminBegins(a)
      PROVE  TypeInv'
  BY <1>5, UpdateOrderTypes, UpdateItemTypes, DeleteOrderTypes, DeleteItemTypes, LoadSaleTypes
     DEF AdminBegins
<1>6. ASSUME NEW a \in Admins, AdminGoesOn(a)
      PROVE  TypeInv'
  BY <1>6, ChangeTypes, RecalcTypes, CommitEditTypes, CommitDeleteTypes, RemoveSaleTypes,
     UpdateSaleTypes DEF AdminGoesOn
<1>7. ASSUME NEW its \in Baskets, NEW d \in Amounts, NEW c \in Percents, NEW at \in Instants,
             NEW ch \in Channels, NEW s \in Sales, CreateSale(s, its, d, c, at, ch)
      PROVE  TypeInv'
  BY <1>7, CreateSaleTypes
<1> QED BY <1>1, <1>2, <1>3, <1>4, <1>5, <1>6, <1>7 DEF Next

LEMMA TypeInvImplies == TypeInv => TypeOK
<1> SUFFICES ASSUME TypeInv PROVE TypeOK
  OBVIOUS
<1>1. \A a \in Admins : job[a].kind \in {"idle", "amounts", "load", "edit", "recalc", "delete", "sale", "remove"}
  BY JobKinds DEF TypeInv, Types
<1>2. ASSUME NEW o \in Orders
      PROVE  /\ order[o].pay \in {"PENDING", "PAID", "FAILED"} /\ order[o].deleted \in BOOLEAN
             /\ order[o].paidAt \in {-1} \cup Instants
             /\ {order[o].total, order[o].discount, order[o].shipping, order[o].packaging,
                 order[o].payable} \subseteq Nat
  BY DEF TypeInv, Types, OrderRow, Payments
<1>3. \A o \in Orders, v \in Variants : item[o][v].qty \in 0..MaxQuantity /\ item[o][v].price \in Prices
  BY DEF TypeInv, Types, Items, ItemRow
<1>4. ASSUME NEW s \in Sales
      PROVE  /\ sale[s].live \in BOOLEAN /\ sale[s].soldAt \in {-1} \cup Instants
             /\ {sale[s].total, sale[s].discount, sale[s].payable, sale[s].net, sale[s].cost} \subseteq Nat
  BY DEF TypeInv, Types, SaleRows
<1> QED BY <1>1, <1>2, <1>3, <1>4 DEF TypeInv, Types, TypeOK

(* The rows keep their types; above all, no stock becomes negative: whoever*)
(* has taken units and not committed holds the row (order-admin.service.ts:*)
(* 288-311).                                                               *)
THEOREM TypeCorrect == Spec => []TypeOK
<1>1. Spec => []TypeInv
  BY InitTypeInv, StepTypes, PTL DEF Spec
<1> QED BY <1>1, TypeInvImplies, PTL

--------------------------------------------------------------------------------
(* One operation at a time.                                                *)

Alone == \A a, b \in Admins : job[a] # Idle /\ job[b] # Idle => a = b

AmountsFit(o, its) ==
    o.total = ItemsTotal(its) /\ o.discount <= o.total /\ WalletShare(o) <= Placed.wallet

(* What an operation has read is still so.                                 *)
EditSound(j) ==
    /\ order[j.order].pay = "PAID" /\ ~order[j.order].deleted
    /\ j.kind # "recalc" => j.before.wallet <= Placed.wallet
    /\ j.kind = "recalc" => /\ AmountsFit(j.after, j.its)
                            /\ \A v \in Variants : v # j.item => j.its[v] = item[j.order][v]
    /\ j.kind \in {"load", "edit"} => j.left = item[j.order][j.item].qty - j.to.qty - j.delta
    /\ j.kind = "recalc" /\ j.item # "none" =>
            j.left = item[j.order][j.item].qty - j.its[j.item].qty - j.delta
(* An order that was loaded as FAILED may be PAID by now.                  *)
DeleteSound(j) ==
    /\ order[j.order].pay # "PENDING" /\ ~order[j.order].deleted /\ j.its = item[j.order]
    /\ j.paid => order[j.order].pay = "PAID"
    /\ ~j.paid => item[j.order] = PlacedItems
SaleSound(j) == sale[j.sale].live /\ j.its = sale[j.sale].items
JobSound(j) ==
    /\ j.kind \in {"amounts", "load", "edit", "recalc"} => EditSound(j)
    /\ j.kind = "delete" => DeleteSound(j)
    /\ j.kind \in {"sale", "remove"} => SaleSound(j)

JobsSound == Alone /\ \A a \in Admins : JobSound(job[a])

(* Only the items of orders that are PAID are edited.                      *)
Untouched == \A o \in Orders : ~order[o].deleted /\ order[o].pay # "PAID" => item[o] = PlacedItems

EditInv == TypeInv /\ JobsSound /\ TotalsMatchItems /\ Untouched

LEMMA TotalsFit ==
    TotalsMatchItems <=> \A o \in Orders : ~order[o].deleted => AmountsFit(order[o], item[o])
BY DEF TotalsMatchItems, AmountsFit

LEMMA AllIdle ==
    ASSUME \A b \in Admins : job'[b] = Idle
    PROVE  JobsSound'
BY DEF JobsSound, Alone, JobSound, Idle

LEMMA OnlyJob ==
    ASSUME NEW a \in Admins, \A b \in Admins \ {a} : job'[b] = Idle, JobSound(job[a])'
    PROVE  JobsSound'
<1>1. Alone'
  BY DEF Alone
<1>2. \A b \in Admins : JobSound(job[b])'
  BY DEF JobSound, Idle
<1> QED BY <1>1, <1>2 DEF JobsSound

LEMMA OthersIdle ==
    ASSUME JobsSound, NEW a \in Admins, job[a] # Idle
    PROVE  \A b \in Admins \ {a} : job[b] = Idle
BY DEF JobsSound, Alone

LEMMA AbortSound ==
    ASSUME TypeInv, JobsSound, NEW a \in Admins, job[a] # Idle, Abort(a)
    PROVE  JobsSound'
<1>1. \A b \in Admins : job'[b] = Idle
  BY OthersIdle DEF TypeInv, Types, Abort
<1> QED BY <1>1, AllIdle

LEMMA BeginSound ==
    ASSUME Serial, TypeInv, NEW a \in Admins, NEW j, Begin(a, j), JobSound(j)
    PROVE  JobsSound'
<1>1. job'[a] = j /\ \A b \in Admins \ {a} : job'[b] = Idle
  BY DEF Begin, NoJob, TypeInv, Types
<1>2. JobSound(j)'
  BY DEF Begin, rows, JobSound, EditSound, DeleteSound, SaleSound
<1>3. JobSound(job[a])'
  BY <1>1, <1>2 DEF JobSound, EditSound, DeleteSound, SaleSound
<1> QED BY <1>1, <1>3, OnlyJob

(* A settlement leaves the orders alone that are being edited, and those   *)
(* that are being deleted unless it revives them.                          *)
Settled(old, new) ==
    \/ old.pay = "PENDING"
    \/ old.pay = "FAILED" /\ new = [old EXCEPT !.pay = "PAID", !.paidAt = now]

LEMMA SettledSound ==
    ASSUME TypeInv, JobsSound, NEW o \in Orders, Settled(order[o], order'[o]),
           \A p \in Orders \ {o} : order'[p] = order[p], UNCHANGED <<item, sale, job>>
    PROVE  JobsSound'
<1>1. Alone'
  BY DEF JobsSound, Alone
<1>2. ASSUME NEW a \in Admins
      PROVE  JobSound(job[a])'
  <2>1. PICK j : j = job[a] /\ j \in Jobs /\ JobSound(j)
    BY DEF JobsSound, TypeInv, Types
  <2>2. job'[a] = j
    BY <2>1
  <2>3. j.kind \in {"amounts", "load", "edit", "recalc"} => EditSound(j)'
    <3> SUFFICES ASSUME j.kind \in {"amounts", "load", "edit", "recalc"} PROVE EditSound(j)'
      OBVIOUS
    <3>1. j.order \in Orders
      BY <2>1, JobKinds DEF AmountsJobs, ItemJobs, RecalcJobs
    <3>2. EditSound(j)
      BY <2>1 DEF JobSound
    <3>3. order'[j.order] = order[j.order]
      BY <3>1, <3>2 DEF EditSound, Settled
    <3> QED BY <3>2, <3>3 DEF EditSound
  <2>4. j.kind = "delete" => DeleteSound(j)'
    <3> SUFFICES ASSUME j.kind = "delete" PROVE DeleteSound(j)'
      OBVIOUS
    <3>1. j.order \in Orders
      BY <2>1, JobKinds DEF DeleteJobs
    <3>2. DeleteSound(j)
      BY <2>1 DEF JobSound
    <3>3. CASE j.order # o
      <4>1. order'[j.order] = order[j.order]
        BY <3>1, <3>3
      <4> QED BY <3>2, <4>1 DEF DeleteSound
    <3>4. CASE j.order = o
      <4>1. order[o].pay = "FAILED" /\ order'[o] = [order[o] EXCEPT !.pay = "PAID", !.paidAt = now]
        BY <3>2, <3>4 DEF DeleteSound, Settled
      <4>2. order[o] \in OrderRow
        BY DEF TypeInv, Types
      <4>3. order'[o].pay = "PAID" /\ order'[o].deleted = order[o].deleted
        BY <4>1, <4>2 DEF OrderRow
      <4> QED BY <3>2, <3>4, <4>1, <4>3 DEF DeleteSound
    <3> QED BY <3>3, <3>4
  <2>5. j.kind \in {"sale", "remove"} => SaleSound(j)'
    BY <2>1 DEF JobSound, SaleSound
  <2> QED BY <2>2, <2>3, <2>4, <2>5 DEF JobSound
<1> QED BY <1>1, <1>2 DEF JobsSound

LEMMA TotalsKept ==
    ASSUME TotalsMatchItems, order' = order, item' = item
    PROVE  TotalsMatchItems'
BY DEF TotalsMatchItems

(* An order's amounts and whether it is deleted stay.                      *)
LEMMA TotalsSettled ==
    ASSUME TypeInv, TotalsMatchItems, NEW o \in Orders, NEW p \in Payments, NEW t,
           order' = [order EXCEPT ![o].pay = p, ![o].paidAt = t] \/ order' = [order EXCEPT ![o].pay = p],
           item' = item
    PROVE  TotalsMatchItems'
<1>1. ASSUME NEW q \in Orders
      PROVE  /\ order'[q].deleted = order[q].deleted /\ order'[q].total = order[q].total
             /\ order'[q].discount = order[q].discount /\ WalletShare(order'[q]) = WalletShare(order[q])
  <2>1. PICK r, x : r = order'[q] /\ x = order[q]
    OBVIOUS
  <2>2. x \in OrderRow /\ r \in {x, [x EXCEPT !.pay = p], [x EXCEPT !.pay = p, !.paidAt = t]}
    BY <2>1 DEF TypeInv, Types
  <2>3. /\ r.deleted = x.deleted /\ r.total = x.total /\ r.discount = x.discount /\ r.shipping = x.shipping
        /\ r.packaging = x.packaging /\ r.payable = x.payable
    BY <2>2 DEF OrderRow
  <2> QED BY <2>1, <2>3 DEF WalletShare
<1> QED BY <1>1 DEF TotalsMatchItems

LEMMA InitEditInv == Init => EditInv
<1> SUFFICES ASSUME Init PROVE EditInv
  OBVIOUS
<1>1. TotalsMatchItems
  BY NewOrderFits DEF Init, TotalsMatchItems
<1>2. JobsSound
  BY DEF Init, JobsSound, Alone, JobSound, Idle
<1>3. Untouched
  BY DEF Init, Untouched
<1> QED BY <1>1, <1>2, <1>3, InitTypeInv DEF EditInv

LEMMA TickEdit ==
    ASSUME EditInv, UNCHANGED rows, job' = job
    PROVE  JobsSound' /\ TotalsMatchItems'
<1>1. TotalsMatchItems'
  BY TotalsKept DEF EditInv, rows
<1>2. JobsSound'
  BY DEF EditInv, rows, JobsSound, Alone, JobSound, EditSound, DeleteSound, SaleSound
<1> QED BY <1>1, <1>2

LEMMA ElsewhereEdit ==
    ASSUME EditInv, NEW v \in Variants, Elsewhere(v)
    PROVE  JobsSound' /\ TotalsMatchItems'
<1>1. UNCHANGED <<order, item, sale, job>>
  BY DEF Elsewhere
<1>2. TotalsMatchItems'
  BY <1>1, TotalsKept DEF EditInv
<1>3. JobsSound'
  BY <1>1 DEF EditInv, JobsSound, Alone, JobSound, EditSound, DeleteSound, SaleSound
<1> QED BY <1>2, <1>3

LEMMA PaymentEdit ==
    ASSUME EditInv, NEW o \in Orders, PaymentConfirmed(o)
    PROVE  JobsSound' /\ TotalsMatchItems'
<1>1. /\ order[o].pay = "PENDING" /\ order' = [order EXCEPT ![o].pay = "PAID", ![o].paidAt = now]
      /\ UNCHANGED <<item, sale, job>>
  BY DEF PaymentConfirmed
<1>2. \A p \in Orders \ {o} : order'[p] = order[p]
  BY <1>1 DEF EditInv, TypeInv, Types
<1>3. JobsSound'
  <2>1. Settled(order[o], order'[o])
    BY <1>1 DEF Settled
  <2> QED BY <1>1, <1>2, <2>1, SettledSound DEF EditInv
<1>4. "PAID" \in Payments
  BY DEF Payments
<1> QED BY <1>1, <1>3, <1>4, TotalsSettled DEF EditInv

LEMMA ReleaseEdit ==
    ASSUME EditInv, NEW o \in Orders, Release(o)
    PROVE  JobsSound' /\ TotalsMatchItems'
<1>1. /\ order[o].pay = "PENDING" /\ order' = [order EXCEPT ![o].pay = "FAILED"]
      /\ UNCHANGED <<item, sale, job>>
  BY DEF Release
<1>2. \A p \in Orders \ {o} : order'[p] = order[p]
  BY <1>1 DEF EditInv, TypeInv, Types
<1>3. JobsSound'
  <2>1. Settled(order[o], order'[o])
    BY <1>1 DEF Settled
  <2> QED BY <1>1, <1>2, <2>1, SettledSound DEF EditInv
<1>4. "FAILED" \in Payments
  BY DEF Payments
<1> QED BY <1>1, <1>3, <1>4, TotalsSettled DEF EditInv

LEMMA ReviveEdit ==
    ASSUME EditInv, NEW o \in Orders, Revive(o)
    PROVE  JobsSound' /\ TotalsMatchItems'
<1>1. /\ order' = [order EXCEPT ![o].pay = "PAID", ![o].paidAt = now]
      /\ UNCHANGED <<item, sale, job>> /\ order[o].pay = "FAILED"
  BY DEF Revive
<1>2. \A p \in Orders \ {o} : order'[p] = order[p]
  BY <1>1 DEF EditInv, TypeInv, Types
<1>3. order'[o] = [order[o] EXCEPT !.pay = "PAID", !.paidAt = now]
  BY <1>1 DEF EditInv, TypeInv, Types
<1>4. JobsSound'
  <2>1. Settled(order[o], order'[o])
    BY <1>1, <1>3 DEF Settled
  <2> QED BY <1>1, <1>2, <2>1, SettledSound DEF EditInv
<1>5. "PAID" \in Payments
  BY DEF Payments
<1> QED BY <1>1, <1>4, <1>5, TotalsSettled DEF EditInv

LEMMA SnapshotFits ==
    ASSUME EditInv, NEW o \in Orders, ~order[o].deleted
    PROVE  Snapshot(order[o]).wallet <= Placed.wallet
BY DEF EditInv, TotalsMatchItems, Snapshot

LEMMA BeginsEdit ==
    ASSUME Serial, EditInv, NEW a \in Admins, AdminBegins(a)
    PROVE  JobsSound' /\ TotalsMatchItems'
<1>1. ASSUME NEW o \in Orders, NEW c \in Changes, UpdateOrder(a, o, c)
      PROVE  \E j : Begin(a, j) /\ JobSound(j)
  <2>1. PICK j : /\ Begin(a, j) /\ j.kind = "amounts" /\ j.order = o
                 /\ j.before.wallet = Snapshot(order[o]).wallet
    BY <1>1 DEF UpdateOrder
  <2>2. JobSound(j)
    BY <1>1, <2>1, SnapshotFits DEF UpdateOrder, Editable, JobSound, EditSound
  <2> QED BY <2>1, <2>2
<1>2. ASSUME NEW o \in Orders, NEW v \in Variants, NEW to, NEW back, Editable(o), to.qty \in Int,
             Begin(a, Edit(o, v, to, back))
      PROVE  \E j : Begin(a, j) /\ JobSound(j)
  <2>1. PICK j : j = Edit(o, v, to, back)
    OBVIOUS
  <2>2. j.kind = "load" /\ j.order = o /\ j.before.wallet = Snapshot(order[o]).wallet
    BY <2>1 DEF Edit
  <2>3. j.left = item[j.order][j.item].qty - j.to.qty - j.delta
    <3>1. PICK x, y \in Int : x = item[o][v].qty /\ y = to.qty
      BY <1>2, NumbersAssumption DEF EditInv, TypeInv, Types, Items, ItemRow
    <3>2. /\ j.item = v /\ j.to = to /\ j.delta = (IF back THEN x - y ELSE 0)
          /\ j.left = IF back THEN 0 ELSE x - y
      BY <2>1, <3>1 DEF Edit, Delta
    <3>3. j.left = x - y - j.delta
      BY <3>2
    <3> QED BY <2>2, <3>1, <3>2, <3>3
  <2>4. JobSound(j)
    BY <1>2, <2>2, <2>3, SnapshotFits DEF Editable, JobSound, EditSound
  <2> QED BY <1>2, <2>1, <2>4
<1>3. ASSUME NEW o \in Orders, NEW back \in BOOLEAN, DeleteOrder(a, o, back)
      PROVE  \E j : Begin(a, j) /\ JobSound(j)
  <2>1. PICK j : /\ Begin(a, j) /\ j.kind = "delete" /\ j.order = o /\ j.its = item[o]
                 /\ j.paid = (order[o].pay = "PAID")
    BY <1>3 DEF DeleteOrder
  <2>2. JobSound(j)
    BY <1>3, <2>1 DEF DeleteOrder, JobSound, DeleteSound, EditInv, Untouched
  <2> QED BY <2>1, <2>2
<1>4. ASSUME NEW s \in Sales, NEW kind \in {"sale", "remove"}, LoadSale(a, s, kind)
      PROVE  \E j : Begin(a, j) /\ JobSound(j)
  <2>1. PICK j : Begin(a, j) /\ j.kind = kind /\ j.sale = s /\ j.its = sale[s].items
    BY <1>4 DEF LoadSale
  <2>2. JobSound(j)
    BY <1>4, <2>1 DEF LoadSale, JobSound, SaleSound
  <2> QED BY <2>1, <2>2
<1>5. ASSUME NEW o \in Orders, NEW v \in Variants, NEW q \in 1..MaxQuantity, NEW p \in Prices,
             NEW back \in BOOLEAN, UpdateItem(a, o, v, q, p, back)
      PROVE  \E j : Begin(a, j) /\ JobSound(j)
  BY <1>2, <1>5, NumbersAssumption DEF UpdateItem
<1>6. ASSUME NEW o \in Orders, NEW v \in Variants, NEW back \in BOOLEAN, DeleteItem(a, o, v, back)
      PROVE  \E j : Begin(a, j) /\ JobSound(j)
  <2>1. PICK to : to = [item[o][v] EXCEPT !.qty = 0]
    OBVIOUS
  <2>2. to.qty \in Int
    BY <2>1 DEF EditInv, TypeInv, Types, Items, ItemRow
  <2> QED BY <1>2, <1>6, <2>1, <2>2 DEF DeleteItem
<1>7. PICK j : Begin(a, j) /\ JobSound(j)
  BY <1>1, <1>3, <1>4, <1>5, <1>6 DEF AdminBegins
<1>8. JobsSound'
  BY <1>7, BeginSound DEF EditInv
<1>9. TotalsMatchItems'
  BY <1>7, TotalsKept DEF EditInv, Begin, rows
<1> QED BY <1>8, <1>9

LEMMA ChangeEdit ==
    ASSUME EditInv, NEW a \in Admins, Change(a)
    PROVE  JobsSound' /\ TotalsMatchItems'
<1>1. TotalsMatchItems'
  BY TotalsKept DEF EditInv, Change, rows
<1>2. PICK j : j = job[a] /\ j \in ItemJobs /\ j.kind = "load" /\ JobSound(j)
  BY JobKinds DEF EditInv, JobsSound, TypeInv, Types, Change
<1>3. job[a] # Idle
  BY <1>2 DEF Idle
<1>4. CASE Abort(a)
  BY <1>1, <1>3, <1>4, AbortSound DEF EditInv
<1>5. CASE job' = [job EXCEPT ![a].kind = "edit"]
  <2>1. PICK k : k = [j EXCEPT !.kind = "edit"]
    OBVIOUS
  <2>2. job'[a] = k /\ \A b \in Admins \ {a} : job'[b] = job[b]
    BY <1>2, <1>5, <2>1 DEF EditInv, TypeInv, Types
  <2>3. /\ k.kind = "edit" /\ k.order = j.order /\ k.before = j.before /\ k.item = j.item
        /\ k.to = j.to /\ k.delta = j.delta /\ k.left = j.left
    BY <1>2, <2>1 DEF ItemJobs
  <2>4. UNCHANGED <<order, item, sale>>
    BY DEF Change, rows
  <2>5. EditSound(j) /\ j.before.wallet <= Placed.wallet
    BY <1>2 DEF JobSound, EditSound
  <2>6. JobSound(job[a])'
    <3>1. EditSound(k)'
      BY <1>2, <2>3, <2>4, <2>5 DEF EditSound
    <3>2. JobSound(k)'
      BY <2>3, <3>1 DEF JobSound
    <3> QED BY <2>2, <3>2 DEF JobSound, EditSound, DeleteSound, SaleSound
  <2>7. \A b \in Admins \ {a} : job'[b] = Idle
    BY <1>3, <2>2, OthersIdle DEF EditInv
  <2> QED BY <1>1, <2>6, <2>7, OnlyJob
<1> QED BY <1>1, <1>4, <1>5 DEF Change

LEMMA RecalcEdit ==
    ASSUME EditInv, NEW a \in Admins, Recalc(a)
    PROVE  JobsSound' /\ TotalsMatchItems'
<1>1. TotalsMatchItems'
  BY TotalsKept DEF EditInv, Recalc, rows
<1>2. PICK j : j = job[a] /\ j \in AmountsJobs \cup ItemJobs /\ j.kind \in {"amounts", "edit"} /\ JobSound(j)
  BY JobKinds DEF EditInv, JobsSound, TypeInv, Types, Recalc
<1>3. job[a] # Idle
  BY <1>2 DEF Idle
<1>4. CASE Abort(a)
  BY <1>1, <1>3, <1>4, AbortSound DEF EditInv
<1>5. CASE ~Abort(a)
  <2>1. PICK its, total, r : its = Visible(j) /\ total = ItemsTotal(its) /\ r = Recalculated(j.before, total)
    OBVIOUS
  <2>2. its \in Items /\ total \in Nat /\ j.before \in Before
    BY <1>2, <2>1, VisibleTyped DEF EditInv, AmountsJobs, ItemJobs
  <2>3. EditSound(j) /\ j.before.wallet <= Placed.wallet
    BY <1>2 DEF JobSound, EditSound
  <2>4. r \in Amount /\ r.total = total /\ r.discount <= total /\ WalletShare(r) <= j.before.wallet
    BY <2>1, <2>2, RecalculatedFits
  <2>5. WalletShare(r) <= Placed.wallet
    <3>1. PICK x, y, z \in Int : x = WalletShare(r) /\ y = j.before.wallet /\ z = Placed.wallet
      BY <2>2, <2>4, PlacedTyped, ShareIsNat DEF Before, Amount
    <3> QED BY <2>3, <2>4, <3>1
  <2>6. AmountsFit(r, its)
    BY <2>1, <2>4, <2>5 DEF AmountsFit
  <2>7. PICK k : k = [kind |-> "recalc", order |-> j.order, item |-> j.item, its |-> its,
                      delta |-> IF j.item = "none" THEN 0 ELSE j.delta,
                      left |-> IF j.item = "none" THEN 0 ELSE j.left, after |-> r]
    OBVIOUS
  <2>8. job' = [job EXCEPT ![a] = k]
    BY <1>2, <1>5, <2>1, <2>7 DEF Recalc
  <2>9. job'[a] = k /\ \A b \in Admins \ {a} : job'[b] = job[b]
    BY <2>8 DEF EditInv, TypeInv, Types
  <2>10. \A v \in Variants : v # j.item => its[v] = item[j.order][v]
    <3>1. item[j.order] \in Items
      BY <1>2 DEF EditInv, TypeInv, Types, AmountsJobs, ItemJobs
    <3> QED BY <2>1, <3>1 DEF Visible, Items
  <2>11. UNCHANGED <<order, item, sale>>
    BY DEF Recalc, rows
  <2>12. k.kind = "recalc" /\ k.order = j.order /\ k.item = j.item /\ k.its = its /\ k.after = r
    BY <2>7
  <2>16. ASSUME k.item # "none" PROVE k.left = item[j.order][k.item].qty - its[k.item].qty - k.delta
    <3>1. j \in ItemJobs /\ j.kind = "edit" /\ k.left = j.left /\ k.delta = j.delta
      BY <1>2, <2>7, <2>16 DEF AmountsJobs, ItemJobs
    <3>2. j.left = item[j.order][j.item].qty - j.to.qty - j.delta
      BY <2>3, <3>1 DEF EditSound
    <3>3. its[j.item] = j.to
      <4>1. item[j.order] \in Items /\ j.item \in Variants
        BY <3>1 DEF EditInv, TypeInv, Types, ItemJobs
      <4> QED BY <2>1, <2>12, <2>16, <4>1 DEF Visible, Items
    <3> QED BY <2>12, <3>1, <3>2, <3>3
  <2>13. EditSound(k)'
    BY <2>3, <2>6, <2>10, <2>11, <2>12, <2>16 DEF EditSound
  <2>14. JobSound(job[a])'
    BY <2>9, <2>12, <2>13 DEF JobSound, EditSound
  <2>15. \A b \in Admins \ {a} : job'[b] = Idle
    BY <1>3, <2>9, OthersIdle DEF EditInv
  <2> QED BY <1>1, <2>14, <2>15, OnlyJob
<1> QED BY <1>1, <1>4, <1>5

(* CommitEdit: what the order then says is what recalc computed.           *)
LEMMA CommittedItems ==
    ASSUME EditInv, NEW a \in Admins, CommitEdit(a), NEW j, j = job[a]
    PROVE  /\ j \in RecalcJobs /\ j.order \in Orders /\ EditSound(j)
           /\ item' = [item EXCEPT ![j.order] = j.its]
<1>1. j \in RecalcJobs /\ j.kind = "recalc" /\ JobSound(j)
  BY JobKinds DEF EditInv, JobsSound, TypeInv, Types, CommitEdit
<1>2. EditSound(j) /\ j.order \in Orders /\ j.its \in Items /\ j.item \in Variants \cup {"none"}
  BY <1>1 DEF JobSound, RecalcJobs
<1>3. PICK o, its : o = item[j.order] /\ its = j.its /\ o \in Items /\ its \in Items
  BY <1>2 DEF EditInv, TypeInv, Types
<1>4. \A v \in Variants : v # j.item => its[v] = o[v]
  BY <1>1, <1>2, <1>3 DEF EditSound
<1>5. CASE j.item = "none"
  <2>1. item' = item
    BY <1>5 DEF CommitEdit
  <2>2. o = its
    BY <1>3, <1>4, <1>5, RowsAssumption DEF Items
  <2> QED BY <1>1, <1>2, <1>3, <2>1, <2>2 DEF EditInv, TypeInv, Types
<1>6. CASE j.item # "none"
  <2>1. PICK v \in Variants : v = j.item
    BY <1>2, <1>6
  <2>2. item' = [item EXCEPT ![j.order][v] = its[v]]
    BY <1>3, <1>6, <2>1 DEF CommitEdit
  <2>3. [o EXCEPT ![v] = its[v]] = its
    BY <1>3, <1>4, <2>1 DEF Items
  <2> QED BY <1>1, <1>2, <1>3, <2>2, <2>3 DEF EditInv, TypeInv, Types
<1> QED BY <1>5, <1>6

LEMMA CommitEditEdit ==
    ASSUME EditInv, NEW a \in Admins, CommitEdit(a)
    PROVE  JobsSound' /\ TotalsMatchItems'
<1>1. PICK j : j = job[a]
  OBVIOUS
<1>2. /\ j \in RecalcJobs /\ j.order \in Orders /\ EditSound(j) /\ j.kind = "recalc"
      /\ item' = [item EXCEPT ![j.order] = j.its]
  BY <1>1, CommittedItems DEF CommitEdit
<1>3. order' = [order EXCEPT ![j.order] = Repriced(@, j.after)]
  BY <1>1 DEF CommitEdit
<1>4. job[a] # Idle
  BY <1>1, <1>2 DEF Idle
<1>5. JobsSound'
  BY <1>4, AbortSound DEF EditInv, CommitEdit
<1>6. PICK o, m : o = order[j.order] /\ m = j.after /\ o \in OrderRow
  BY <1>2 DEF EditInv, TypeInv, Types
<1>7. AmountsFit(m, j.its)
  BY <1>2, <1>6 DEF EditSound
<1>8. AmountsFit(Repriced(o, m), j.its)
  <2>1. PICK r : r = Repriced(o, m)
    OBVIOUS
  <2>2. /\ r.total = m.total /\ r.discount = m.discount /\ r.shipping = m.shipping
        /\ r.packaging = m.packaging /\ r.payable = m.payable
    BY <1>6, <2>1 DEF Repriced, OrderRow
  <2>3. WalletShare(r) = WalletShare(m)
    BY <2>2 DEF WalletShare
  <2> QED BY <1>7, <2>1, <2>2, <2>3 DEF AmountsFit
<1>9. ASSUME NEW p \in Orders, ~order'[p].deleted
      PROVE  AmountsFit(order'[p], item'[p])
  <2>1. CASE p = j.order
    <3>1. order'[p] = Repriced(o, m) /\ item'[p] = j.its
      BY <1>2, <1>3, <1>6, <2>1 DEF EditInv, TypeInv, Types
    <3> QED BY <1>8, <3>1
  <2>2. CASE p # j.order
    <3>1. order'[p] = order[p] /\ item'[p] = item[p]
      BY <1>2, <1>3, <2>2 DEF EditInv, TypeInv, Types
    <3> QED BY <1>9, <3>1 DEF EditInv, TotalsMatchItems, AmountsFit
  <2> QED BY <2>1, <2>2
<1>10. TotalsMatchItems'
  BY <1>9 DEF TotalsMatchItems, AmountsFit
<1> QED BY <1>5, <1>10

LEMMA CommitDeleteEdit ==
    ASSUME EditInv, NEW a \in Admins, CommitDelete(a)
    PROVE  JobsSound' /\ TotalsMatchItems'
<1>1. PICK j : j = job[a] /\ j \in DeleteJobs /\ j.kind = "delete"
  BY JobKinds DEF EditInv, TypeInv, Types, CommitDelete
<1>2. job[a] # Idle
  BY <1>1 DEF Idle
<1>3. JobsSound'
  BY <1>2, AbortSound DEF EditInv, CommitDelete
<1>4. PICK its : item' = [item EXCEPT ![j.order] = its]
  BY <1>1 DEF CommitDelete
<1>5. order' = [order EXCEPT ![j.order].deleted = TRUE]
  BY <1>1 DEF CommitDelete
<1>6. ASSUME NEW p \in Orders, ~order'[p].deleted
      PROVE  order'[p] = order[p] /\ item'[p] = item[p]
  BY <1>4, <1>5, <1>6 DEF EditInv, TypeInv, Types, OrderRow
<1>7. TotalsMatchItems'
  BY <1>6 DEF EditInv, TotalsMatchItems
<1> QED BY <1>3, <1>7

LEMMA UntouchedKept ==
    ASSUME Untouched, item' = item,
           \A o \in Orders : /\ order'[o].deleted = order[o].deleted
                             /\ order[o].pay = "PAID" => order'[o].pay = "PAID"
    PROVE  Untouched'
BY DEF Untouched

LEMMA SettledUntouched ==
    ASSUME EditInv, NEW o \in Orders, PaymentConfirmed(o) \/ Release(o) \/ Revive(o)
    PROVE  Untouched'
<1>1. \A p \in Orders : /\ order'[p].deleted = order[p].deleted
                        /\ order[p].pay = "PAID" => order'[p].pay = "PAID"
  BY DEF PaymentConfirmed, Release, Revive, EditInv, TypeInv, Types, OrderRow
<1> QED BY <1>1, UntouchedKept DEF PaymentConfirmed, Release, Revive, EditInv

LEMMA CommittedUntouched ==
    ASSUME EditInv, NEW a \in Admins, CommitEdit(a) \/ CommitDelete(a)
    PROVE  Untouched'
<1>1. CASE CommitEdit(a)
  <2>1. PICK j : /\ j = job[a] /\ j.order \in Orders /\ EditSound(j)
                 /\ item' = [item EXCEPT ![j.order] = j.its]
    BY <1>1, CommittedItems
  <2>2. order' = [order EXCEPT ![j.order] = Repriced(@, j.after)]
    BY <1>1, <2>1 DEF CommitEdit
  <2>3. order'[j.order].pay = "PAID"
    BY <2>1, <2>2 DEF EditSound, Repriced, EditInv, TypeInv, Types, OrderRow
  <2>4. \A p \in Orders \ {j.order} : order'[p] = order[p] /\ item'[p] = item[p]
    BY <2>1, <2>2 DEF EditInv, TypeInv, Types
  <2> QED BY <2>3, <2>4 DEF EditInv, Untouched
<1>2. CASE CommitDelete(a)
  <2>1. PICK j : /\ j = job[a] /\ j \in DeleteJobs
                 /\ order' = [order EXCEPT ![j.order].deleted = TRUE]
                 /\ item' = [item EXCEPT ![j.order] = [v \in Variants |-> [item[j.order][v] EXCEPT !.qty = 0]]]
    BY <1>2, JobKinds DEF CommitDelete, EditInv, TypeInv, Types
  <2>2. order'[j.order].deleted
    BY <2>1 DEF DeleteJobs, EditInv, TypeInv, Types, OrderRow
  <2>3. \A p \in Orders \ {j.order} : order'[p] = order[p] /\ item'[p] = item[p]
    BY <2>1 DEF EditInv, TypeInv, Types
  <2> QED BY <2>2, <2>3 DEF EditInv, Untouched
<1> QED BY <1>1, <1>2

LEMMA StepUntouched ==
    ASSUME EditInv, [Next]_vars
    PROVE  Untouched'
<1>1. CASE order' = order /\ item' = item
  BY <1>1, UntouchedKept DEF EditInv
<1>2. CASE UNCHANGED vars \/ Tick \/ \E v \in Variants : Elsewhere(v)
  BY <1>1, <1>2 DEF vars, rows, Tick, Elsewhere
<1>3. ASSUME NEW o \in Orders, PaymentConfirmed(o) \/ Release(o) \/ Revive(o)
      PROVE  Untouched'
  BY <1>3, SettledUntouched
<1>4. ASSUME NEW a \in Admins, AdminBegins(a)
      PROVE  Untouched'
  <2>1. \E j : Begin(a, j)
    BY <1>4 DEF AdminBegins, UpdateOrder, UpdateItem, DeleteOrder, DeleteItem, LoadSale
  <2> QED BY <1>1, <2>1 DEF Begin, rows
<1>5. ASSUME NEW a \in Admins, AdminGoesOn(a)
      PROVE  Untouched'
  <2>1. CASE ~CommitEdit(a) /\ ~CommitDelete(a)
    <3>1. order' = order /\ item' = item
      BY <1>5, <2>1 DEF AdminGoesOn, Change, Recalc, RemoveSale, UpdateSale, rows
    <3> QED BY <1>1, <3>1
  <2> QED BY <2>1, CommittedUntouched
<1>6. ASSUME NEW its \in Baskets, NEW d \in Amounts, NEW c \in Percents, NEW at \in Instants,
             NEW ch \in Channels, NEW s \in Sales, CreateSale(s, its, d, c, at, ch)
      PROVE  Untouched'
  BY <1>1, <1>6 DEF CreateSale
<1> QED BY <1>2, <1>3, <1>4, <1>5, <1>6 DEF Next

LEMMA StepEdit ==
    ASSUME Serial, EditInv, [Next]_vars
    PROVE  EditInv'
<1>1. TypeInv' /\ Untouched'
  BY StepTypes, StepUntouched DEF EditInv
<1>2. CASE UNCHANGED vars \/ Tick
  <2>1. UNCHANGED rows /\ job' = job
    BY <1>2 DEF vars, Tick
  <2> QED BY <1>1, <2>1, TickEdit DEF EditInv
<1>3. ASSUME NEW o \in Orders, PaymentConfirmed(o) \/ Release(o) \/ Revive(o)
      PROVE  JobsSound' /\ TotalsMatchItems'
  BY <1>3, PaymentEdit, ReleaseEdit, ReviveEdit
<1>4. ASSUME NEW v \in Variants, Elsewhere(v)
      PROVE  JobsSound' /\ TotalsMatchItems'
  BY <1>4, ElsewhereEdit
<1>5. ASSUME NEW a \in Admins, AdminBegins(a)
      PROVE  JobsSound' /\ TotalsMatchItems'
  BY <1>5, BeginsEdit
<1>6. ASSUME NEW a \in Admins, AdminGoesOn(a)
      PROVE  JobsSound' /\ TotalsMatchItems'
  <2>1. CASE RemoveSale(a) \/ \E its \in Baskets, d \in Amounts, c \in Percents, at \in Instants,
                                 ch \in Channels : UpdateSale(a, its, d, c, at, ch)
    <3>1. UNCHANGED <<order, item>> /\ job[a].kind \in {"sale", "remove"} /\ Abort(a)
      BY <2>1 DEF RemoveSale, UpdateSale
    <3>2. job[a] # Idle
      BY <3>1 DEF Idle
    <3> QED BY <3>1, <3>2, AbortSound, TotalsKept DEF EditInv
  <2> QED BY <1>6, <2>1, ChangeEdit, RecalcEdit, CommitEditEdit, CommitDeleteEdit DEF AdminGoesOn
<1>7. ASSUME NEW its \in Baskets, NEW d \in Amounts, NEW c \in Percents, NEW at \in Instants,
             NEW ch \in Channels, NEW s \in Sales, CreateSale(s, its, d, c, at, ch)
      PROVE  JobsSound' /\ TotalsMatchItems'
  <2>1. UNCHANGED <<order, item, job>> /\ NoJob
    BY <1>7 DEF CreateSale
  <2> QED BY <2>1, AllIdle, TotalsKept DEF EditInv, NoJob
<1> QED BY <1>1, <1>2, <1>3, <1>4, <1>5, <1>6, <1>7 DEF Next, EditInv

LEMMA EditAlways ==
    ASSUME Serial
    PROVE  Spec => []EditInv
<1>1. EditInv /\ [Next]_vars => EditInv'
  BY StepEdit
<1> QED BY <1>1, InitEditInv, PTL DEF Spec

(* With one operation at a time the amounts of an order are those of its   *)
(* items after every edit, its discount fits and the wallet's share never  *)
(* grows (order-admin.service.ts:39-42).                                   *)
THEOREM TotalsAlwaysMatchItems ==
    ASSUME Serial
    PROVE  Spec => []TotalsMatchItems
<1>1. EditInv => TotalsMatchItems
  BY DEF EditInv
<1> QED BY <1>1, EditAlways, PTL

--------------------------------------------------------------------------------
(* Units of stock.                                                         *)

Contribution(f, S, x) == IF x \in S THEN f[x] ELSE 0

LEMMA SumWithout ==
    ASSUME NEW D, NEW f \in [D -> Int], NEW S \in SUBSET D, IsFiniteSet(S), NEW x \in D
    PROVE  SumOver(f, S) = SumOver(f, S \ {x}) + Contribution(f, S, x)
<1>1. CASE x \in S
  <2>1. PICK R : R = S \ {x}
    OBVIOUS
  <2>2. R \in SUBSET D /\ IsFiniteSet(R) /\ x \in D \ R /\ R \cup {x} = S
    BY <1>1, <2>1, FS_Subset
  <2>3. SumOver(f, R \cup {x}) = SumOver(f, R) + f[x]
    BY <2>2, SumAdd
  <2> QED BY <1>1, <2>1, <2>2, <2>3 DEF Contribution
<1>2. CASE x \notin S
  <2>1. S \ {x} = S
    BY <1>2
  <2>2. SumOver(f, S) \in Int
    BY SumIsInt
  <2> QED BY <1>2, <2>1, <2>2 DEF Contribution
<1> QED BY <1>1, <1>2

(* One element, and whether it counts, has changed.                        *)
LEMMA SumMoved ==
    ASSUME NEW D, IsFiniteSet(D), NEW f \in [D -> Int], NEW g \in [D -> Int], NEW S \in SUBSET D,
           NEW T \in SUBSET D, NEW x \in D, S \ {x} = T \ {x}, \A y \in D \ {x} : g[y] = f[y]
    PROVE  SumOver(g, T) = SumOver(f, S) - Contribution(f, S, x) + Contribution(g, T, x)
<1>1. IsFiniteSet(S) /\ IsFiniteSet(T) /\ IsFiniteSet(S \ {x}) /\ S \ {x} \in SUBSET D
  BY FS_Subset
<1>2. SumOver(f, S) = SumOver(f, S \ {x}) + Contribution(f, S, x)
  BY <1>1, SumWithout
<1>3. SumOver(g, T) = SumOver(g, T \ {x}) + Contribution(g, T, x)
  BY <1>1, SumWithout
<1>4. PICK R : R = S \ {x} /\ R = T \ {x}
  OBVIOUS
<1>5. R \subseteq DOMAIN f /\ R \subseteq DOMAIN g /\ \A y \in R : f[y] = g[y]
  BY <1>4
<1>6. SumOver(f, R) = SumOver(g, R)
  BY <1>5, SumSame
<1>7. PICK c, e \in Int : c = Contribution(f, S, x) /\ e = Contribution(g, T, x)
  BY DEF Contribution
<1>8. PICK s \in Int : s = SumOver(f, R)
  BY <1>1, <1>4, SumIsInt
<1>9. SumOver(f, S) = s + c /\ SumOver(g, T) = s + e
  BY <1>2, <1>3, <1>4, <1>6, <1>7, <1>8
<1>10. s + e = s + c - c + e
  BY <1>7, <1>8
<1> QED BY <1>7, <1>9, <1>10

OrderUnits(v) == [o \in Orders |-> item[o][v].qty]
SaleUnits(v) == [s \in Sales |-> sale[s].items[v].qty]
Keeping == {o \in Orders : order[o].pay # "FAILED"}
LiveSales == {s \in Sales : sale[s].live}
Kept(o, v) == IF order[o].pay # "FAILED" THEN item[o][v].qty ELSE 0
Sold(s, v) == IF sale[s].live THEN sale[s].items[v].qty ELSE 0

Lost == Placed.qty * astray

LEMMA StockBalancedUnits ==
    StockBalanced <=> \A v \in Variants :
        stock[v] + gone[v] + Lost + SumOver(OrderUnits(v), Keeping) + SumOver(SaleUnits(v), LiveSales)
            = ShelfStock + Placed.qty * Cardinality(Orders)
BY DEF StockBalanced, Lost, OrderUnits, SaleUnits, Keeping, LiveSales

LEMMA LostTyped ==
    ASSUME NEW n \in Nat
    PROVE  /\ Placed.qty \in Nat /\ Placed.qty * n \in Nat
           /\ Placed.qty * (n + 1) = Placed.qty * n + Placed.qty
<1>1. PICK q \in Nat : q = Placed.qty
  BY PlacedTyped
<1>2. q * n \in Nat /\ q * (n + 1) = q * n + q
  OBVIOUS
<1> QED BY <1>1, <1>2

LEMMA UnitsTyped ==
    ASSUME TypeInv, NEW v \in Variants
    PROVE  /\ OrderUnits(v) \in [Orders -> Int] /\ SaleUnits(v) \in [Sales -> Int]
           /\ SumOver(OrderUnits(v), Keeping) \in Int /\ SumOver(SaleUnits(v), LiveSales) \in Int
           /\ \A o \in Orders : Kept(o, v) = Contribution(OrderUnits(v), Keeping, o) /\ Kept(o, v) \in Int
           /\ \A s \in Sales : Sold(s, v) = Contribution(SaleUnits(v), LiveSales, s) /\ Sold(s, v) \in Int
<1>1. \A o \in Orders : item[o][v].qty \in Int
  BY NumbersAssumption DEF TypeInv, Types, Items, ItemRow
<1>2. \A s \in Sales : sale[s].items[v].qty \in Int
  BY NumbersAssumption DEF TypeInv, Types, SaleRows, SaleItems
<1>3. OrderUnits(v) \in [Orders -> Int] /\ SaleUnits(v) \in [Sales -> Int]
  BY <1>1, <1>2 DEF OrderUnits, SaleUnits
<1>4. /\ IsFiniteSet(Keeping) /\ Keeping \in SUBSET Orders
      /\ IsFiniteSet(LiveSales) /\ LiveSales \in SUBSET Sales
  BY RowsAssumption, FS_Subset DEF Keeping, LiveSales
<1>5. SumOver(OrderUnits(v), Keeping) \in Int
  BY <1>3, <1>4, SumIsInt
<1>6. SumOver(SaleUnits(v), LiveSales) \in Int
  BY <1>3, <1>4, SumIsInt
<1>7. \A o \in Orders : Kept(o, v) = Contribution(OrderUnits(v), Keeping, o) /\ Kept(o, v) \in Int
  BY <1>1 DEF Kept, Contribution, OrderUnits, Keeping
<1>8. \A s \in Sales : Sold(s, v) = Contribution(SaleUnits(v), LiveSales, s) /\ Sold(s, v) \in Int
  BY <1>2 DEF Sold, Contribution, SaleUnits, LiveSales
<1> QED BY <1>3, <1>5, <1>6, <1>7, <1>8

(* Steps that change one order, one sale, or neither.                      *)
OnlyOrder(o) ==
    /\ \A p \in Orders \ {o} : order'[p].pay = order[p].pay /\ item'[p] = item[p]
    /\ sale' = sale
    /\ \A v \in Variants :
            stock'[v] + gone'[v] + Lost' + Kept(o, v)' = stock[v] + gone[v] + Lost + Kept(o, v)
OnlySale(s) ==
    /\ \A t \in Sales \ {s} : sale'[t] = sale[t]
    /\ order' = order /\ item' = item /\ astray' = astray
    /\ \A v \in Variants : stock'[v] + gone'[v] + Sold(s, v)' = stock[v] + gone[v] + Sold(s, v)

(* The order moves units, and none is lost.                                *)
LEMMA OrderKept ==
    ASSUME TypeInv, TypeInv', NEW o \in Orders, sale' = sale, astray' = astray,
           \A p \in Orders \ {o} : order'[p].pay = order[p].pay /\ item'[p] = item[p],
           \A v \in Variants : stock'[v] + gone'[v] + Kept(o, v)' = stock[v] + gone[v] + Kept(o, v)
    PROVE  OnlyOrder(o)
<1>1. PICK l \in Int : l = Lost /\ l = Lost'
  BY LostTyped DEF TypeInv, Types, Lost
<1>2. ASSUME NEW v \in Variants
      PROVE  stock'[v] + gone'[v] + l + Kept(o, v)' = stock[v] + gone[v] + l + Kept(o, v)
  <2>1. item'[o][v].qty \in Int
    BY NumbersAssumption DEF TypeInv, Types, Items, ItemRow
  <2>2. PICK j, k \in Int : j = Kept(o, v) /\ k = Kept(o, v)'
    BY <2>1, UnitsTyped DEF Kept
  <2>3. stock[v] \in Int /\ gone[v] \in Int /\ stock'[v] \in Int /\ gone'[v] \in Int
    BY DEF TypeInv, Types
  <2>4. stock'[v] + gone'[v] + k = stock[v] + gone[v] + j
    BY <2>2
  <2> QED BY <2>2, <2>3, <2>4
<1> QED BY <1>1, <1>2 DEF OnlyOrder

LEMMA OrderMoved ==
    ASSUME TypeInv, TypeInv', StockBalanced, NEW o \in Orders, OnlyOrder(o)
    PROVE  StockBalanced'
<1> SUFFICES ASSUME NEW v \in Variants
             PROVE  stock'[v] + gone'[v] + Lost' + SumOver(OrderUnits(v), Keeping)' + SumOver(SaleUnits(v), LiveSales)'
                        = ShelfStock + Placed.qty * Cardinality(Orders)
  BY DEF StockBalanced, Lost, OrderUnits, SaleUnits, Keeping, LiveSales
<1>1. PICK f, g, S, T : f = OrderUnits(v) /\ g = OrderUnits(v)' /\ S = Keeping /\ T = Keeping'
  OBVIOUS
<1>2. f \in [Orders -> Int] /\ g \in [Orders -> Int] /\ S \in SUBSET Orders /\ T \in SUBSET Orders
  <2>1. f \in [Orders -> Int]
    BY <1>1, UnitsTyped
  <2>2. \A p \in Orders : item'[p][v].qty \in Int
    BY NumbersAssumption DEF TypeInv, Types, Items, ItemRow
  <2>3. g \in [Orders -> Int]
    BY <1>1, <2>2 DEF OrderUnits
  <2> QED BY <1>1, <2>1, <2>3 DEF Keeping
<1>3. S \ {o} = T \ {o} /\ \A p \in Orders \ {o} : g[p] = f[p]
  BY <1>1 DEF OnlyOrder, Keeping, OrderUnits
<1>4. SumOver(g, T) = SumOver(f, S) - Contribution(f, S, o) + Contribution(g, T, o)
  BY <1>2, <1>3, RowsAssumption, SumMoved
<1>5. Contribution(f, S, o) = Kept(o, v) /\ Contribution(g, T, o) = Kept(o, v)'
  BY <1>1 DEF Contribution, Kept, OrderUnits, Keeping
<1>6. Kept(o, v) \in Int /\ SumOver(f, S) \in Int /\ SumOver(SaleUnits(v), LiveSales) \in Int
  BY <1>1, UnitsTyped
<1>7. Kept(o, v)' \in Int
  BY <1>2, <1>5 DEF Contribution
<1>8. PICK k, l, m, n : /\ k = Kept(o, v) /\ l = Kept(o, v)' /\ m = SumOver(f, S)
                        /\ n = SumOver(SaleUnits(v), LiveSales)
  OBVIOUS
<1>9. SumOver(SaleUnits(v), LiveSales)' = n
  BY <1>8 DEF OnlyOrder, SaleUnits, LiveSales
<1>10. SumOver(OrderUnits(v), Keeping)' = m - k + l
  BY <1>1, <1>4, <1>5, <1>8
<1>11. stock[v] + gone[v] + Lost + m + n = ShelfStock + Placed.qty * Cardinality(Orders)
  BY <1>1, <1>8, StockBalancedUnits
<1>12. stock'[v] + gone'[v] + Lost' + l = stock[v] + gone[v] + Lost + k
  BY <1>8 DEF OnlyOrder
<1>13. k \in Int /\ l \in Int /\ m \in Int /\ n \in Int
  BY <1>6, <1>7, <1>8
<1>14. stock[v] \in Int /\ gone[v] \in Int /\ stock'[v] \in Int /\ gone'[v] \in Int
  BY DEF TypeInv, Types
<1>15. PICK x, y \in Int : x = Lost /\ y = Lost'
  BY LostTyped DEF TypeInv, Types, Lost
<1>16. PICK b, c, d, e \in Int : b = stock[v] /\ c = gone[v] /\ d = stock'[v] /\ e = gone'[v]
  BY <1>14
<1>17. d + e + y + (m - k + l) + n = b + c + x + m + n
  <2>1. d + e + y + l = b + c + x + k
    BY <1>12, <1>15, <1>16
  <2> QED BY <1>13, <2>1
<1> QED BY <1>9, <1>10, <1>11, <1>15, <1>16, <1>17

LEMMA SaleMoved ==
    ASSUME TypeInv, TypeInv', StockBalanced, NEW s \in Sales, OnlySale(s)
    PROVE  StockBalanced'
<1> SUFFICES ASSUME NEW v \in Variants
             PROVE  stock'[v] + gone'[v] + Lost' + SumOver(OrderUnits(v), Keeping)' + SumOver(SaleUnits(v), LiveSales)'
                        = ShelfStock + Placed.qty * Cardinality(Orders)
  BY DEF StockBalanced, Lost, OrderUnits, SaleUnits, Keeping, LiveSales
<1>1. PICK f, g, S, T : f = SaleUnits(v) /\ g = SaleUnits(v)' /\ S = LiveSales /\ T = LiveSales'
  OBVIOUS
<1>2. f \in [Sales -> Int] /\ g \in [Sales -> Int] /\ S \in SUBSET Sales /\ T \in SUBSET Sales
  <2>1. f \in [Sales -> Int]
    BY <1>1, UnitsTyped
  <2>2. \A t \in Sales : sale'[t].items[v].qty \in Int
    BY NumbersAssumption DEF TypeInv, Types, SaleRows, SaleItems
  <2>3. g \in [Sales -> Int]
    BY <1>1, <2>2 DEF SaleUnits
  <2> QED BY <1>1, <2>1, <2>3 DEF LiveSales
<1>3. S \ {s} = T \ {s} /\ \A t \in Sales \ {s} : g[t] = f[t]
  BY <1>1 DEF OnlySale, LiveSales, SaleUnits
<1>4. SumOver(g, T) = SumOver(f, S) - Contribution(f, S, s) + Contribution(g, T, s)
  BY <1>2, <1>3, RowsAssumption, SumMoved
<1>5. Contribution(f, S, s) = Sold(s, v) /\ Contribution(g, T, s) = Sold(s, v)'
  BY <1>1 DEF Contribution, Sold, SaleUnits, LiveSales
<1>6. Sold(s, v) \in Int /\ SumOver(f, S) \in Int /\ SumOver(OrderUnits(v), Keeping) \in Int
  BY <1>1, UnitsTyped
<1>7. Sold(s, v)' \in Int
  BY <1>2, <1>5 DEF Contribution
<1>8. PICK k, l, m, n : /\ k = Sold(s, v) /\ l = Sold(s, v)' /\ m = SumOver(f, S)
                        /\ n = SumOver(OrderUnits(v), Keeping)
  OBVIOUS
<1>9. SumOver(OrderUnits(v), Keeping)' = n
  BY <1>8 DEF OnlySale, OrderUnits, Keeping
<1>10. SumOver(SaleUnits(v), LiveSales)' = m - k + l
  BY <1>1, <1>4, <1>5, <1>8
<1>11. stock[v] + gone[v] + Lost + n + m = ShelfStock + Placed.qty * Cardinality(Orders)
  BY <1>1, <1>8, StockBalancedUnits
<1>12. stock'[v] + gone'[v] + l = stock[v] + gone[v] + k /\ Lost' = Lost
  BY <1>8 DEF OnlySale, Lost
<1>13. k \in Int /\ l \in Int /\ m \in Int /\ n \in Int
  BY <1>6, <1>7, <1>8
<1>14. stock[v] \in Int /\ gone[v] \in Int /\ stock'[v] \in Int /\ gone'[v] \in Int
  BY DEF TypeInv, Types
<1>15. PICK x, y \in Int : x = Lost /\ y = Lost'
  BY LostTyped DEF TypeInv, Types, Lost
<1>16. PICK b, c, d, e \in Int : b = stock[v] /\ c = gone[v] /\ d = stock'[v] /\ e = gone'[v]
  BY <1>14
<1>17. d + e + y + n + (m - k + l) = b + c + x + n + m
  <2>1. d + e + l = b + c + k /\ x = y
    BY <1>12, <1>15, <1>16
  <2> QED BY <1>13, <2>1
<1> QED BY <1>9, <1>10, <1>11, <1>15, <1>16, <1>17

LEMMA NothingMoved ==
    ASSUME StockBalanced, UNCHANGED <<order, item, sale, astray>>,
           \A v \in Variants : stock'[v] + gone'[v] = stock[v] + gone[v]
    PROVE  StockBalanced'
BY DEF StockBalanced

(* The sum of one quantity over the orders, before anything was done.      *)
LEMMA SumOfOne ==
    ASSUME NEW S, IsFiniteSet(S), NEW c \in Nat, NEW f, f = [x \in S |-> c]
    PROVE  SumOver(f, S) = c * Cardinality(S)
<1>1. PICK G : G = {T \in SUBSET S : SumOver(f, T) = c * Cardinality(T)}
  OBVIOUS
<1>2. f \in [S -> Int]
  OBVIOUS
<1>3. {} \in G
  BY <1>1, SumOfNothing, FS_EmptySet
<1>4. ASSUME NEW T \in SUBSET S, NEW x \in S, T \in G, x \notin T
      PROVE  T \cup {x} \in G
  <2>1. IsFiniteSet(T) /\ x \in S \ T
    BY <1>4, FS_Subset
  <2>2. SumOver(f, T \cup {x}) = SumOver(f, T) + f[x]
    BY <1>2, <2>1, SumAdd
  <2>3. Cardinality(T \cup {x}) = Cardinality(T) + 1 /\ Cardinality(T) \in Nat
    BY <2>1, FS_AddElement, FS_CardinalityType
  <2>4. PICK n \in Nat : n = Cardinality(T)
    BY <2>3
  <2>5. c * (n + 1) = c * n + c
    OBVIOUS
  <2> QED BY <1>1, <1>4, <2>2, <2>3, <2>4, <2>5
<1>5. S \in G
  BY <1>3, <1>4, SetInduction
<1> QED BY <1>1, <1>5

LEMMA InitBalanced == Init => StockBalanced
<1> SUFFICES ASSUME Init, NEW v \in Variants
             PROVE  stock[v] + gone[v] + Lost + SumOver(OrderUnits(v), Keeping) + SumOver(SaleUnits(v), LiveSales)
                        = ShelfStock + Placed.qty * Cardinality(Orders)
  BY DEF StockBalanced, Lost, OrderUnits, SaleUnits, Keeping, LiveSales
<1>1. Keeping = Orders /\ LiveSales = {}
  BY DEF Init, Keeping, LiveSales, NewOrder, NoSale
<1>2. OrderUnits(v) = [o \in Orders |-> Placed.qty]
  BY DEF Init, OrderUnits, PlacedItems
<1>3. PICK f : f = OrderUnits(v)
  OBVIOUS
<1>4. SumOver(f, Orders) = Placed.qty * Cardinality(Orders)
  BY <1>2, <1>3, RowsAssumption, PlacedTyped, SumOfOne
<1>5. SumOver(SaleUnits(v), {}) = 0
  BY SumOfNothing
<1>6. stock[v] = ShelfStock /\ gone[v] = 0
  BY DEF Init
<1>7. PICK q, n \in Nat : q = Placed.qty /\ n = Cardinality(Orders)
  BY PlacedTyped, RowsAssumption, FS_CardinalityType
<1>8. q * n \in Nat /\ ShelfStock \in Nat /\ q * 0 = 0
  BY NumbersAssumption
<1>9. Lost = 0
  BY <1>7, <1>8 DEF Init, Lost
<1> QED BY <1>1, <1>3, <1>4, <1>5, <1>6, <1>7, <1>8, <1>9

LEMMA ItemTyped ==
    ASSUME TypeInv, NEW o \in Orders, NEW v \in Variants
    PROVE  stock[v] \in Nat /\ gone[v] \in Int /\ item[o][v].qty \in Nat
BY NumbersAssumption DEF TypeInv, Types, Items, ItemRow

LEMMA PaymentBalanced ==
    ASSUME TypeInv, TypeInv', StockBalanced, NEW o \in Orders, PaymentConfirmed(o)
    PROVE  StockBalanced'
<1>1. \A p \in Orders : order'[p].pay = "FAILED" <=> order[p].pay = "FAILED"
  BY DEF PaymentConfirmed, TypeInv, Types, OrderRow
<1> QED BY <1>1 DEF PaymentConfirmed, StockBalanced

LEMMA ReleaseBalanced ==
    ASSUME TypeInv, TypeInv', StockBalanced, NEW o \in Orders, Release(o)
    PROVE  StockBalanced'
<1>1. /\ order[o].pay = "PENDING" /\ order'[o].pay = "FAILED"
      /\ \A p \in Orders \ {o} : order'[p].pay = order[p].pay
      /\ UNCHANGED <<item, sale, gone, astray>>
  BY DEF Release, TypeInv, Types, OrderRow
<1>2. \A v \in Variants : stock'[v] = stock[v] + item[o][v].qty
  BY DEF Release
<1>3. ASSUME NEW v \in Variants
      PROVE  stock'[v] + gone'[v] + Kept(o, v)' = stock[v] + gone[v] + Kept(o, v)
  <2>1. Kept(o, v)' = 0 /\ Kept(o, v) = item[o][v].qty
    BY <1>1 DEF Kept
  <2> QED BY <1>1, <1>2, <2>1, ItemTyped
<1>4. OnlyOrder(o)
  BY <1>1, <1>3, OrderKept
<1> QED BY <1>4, OrderMoved

LEMMA ReviveBalanced ==
    ASSUME TypeInv, TypeInv', StockBalanced, NEW o \in Orders, Revive(o)
    PROVE  StockBalanced'
<1>1. /\ order[o].pay = "FAILED" /\ order'[o].pay = "PAID"
      /\ \A p \in Orders \ {o} : order'[p].pay = order[p].pay
      /\ UNCHANGED <<item, sale, astray>>
  BY DEF Revive, TypeInv, Types, OrderRow
<1>2. PICK short : /\ stock' = [v \in Variants |-> IF v \in short THEN stock[v] ELSE stock[v] - item[o][v].qty]
                   /\ gone' = [v \in Variants |-> IF v \in short THEN gone[v] - item[o][v].qty ELSE gone[v]]
  BY DEF Revive
<1>3. ASSUME NEW v \in Variants
      PROVE  stock'[v] + gone'[v] + Kept(o, v)' = stock[v] + gone[v] + Kept(o, v)
  <2>1. Kept(o, v)' = item[o][v].qty /\ Kept(o, v) = 0
    BY <1>1 DEF Kept
  <2> QED BY <1>1, <1>2, <2>1, ItemTyped
<1>4. OnlyOrder(o)
  BY <1>1, <1>3, OrderKept
<1> QED BY <1>4, OrderMoved

LEMMA ElsewhereBalanced ==
    ASSUME TypeInv, StockBalanced, NEW v \in Variants, Elsewhere(v)
    PROVE  StockBalanced'
<1>1. PICK n \in {-1, 1} : stock' = [stock EXCEPT ![v] = @ - n] /\ gone' = [gone EXCEPT ![v] = @ + n]
  BY DEF Elsewhere
<1>2. \A w \in Variants : stock'[w] + gone'[w] = stock[w] + gone[w]
  BY <1>1 DEF TypeInv, Types
<1> QED BY <1>2, NothingMoved DEF Elsewhere

LEMMA CommitEditBalanced ==
    ASSUME EditInv, TypeInv', StockBalanced, NEW a \in Admins, CommitEdit(a)
    PROVE  StockBalanced'
<1>1. PICK j : j = job[a]
  OBVIOUS
<1>2. /\ j \in RecalcJobs /\ j.order \in Orders /\ EditSound(j)
      /\ item' = [item EXCEPT ![j.order] = j.its]
  BY <1>1, CommittedItems
<1>3. PICK o \in Orders : o = j.order
  BY <1>2
<1>4. order' = [order EXCEPT ![o] = Repriced(@, j.after)] /\ UNCHANGED <<sale, astray>> /\ j.kind = "recalc"
  BY <1>1, <1>3 DEF CommitEdit
<1>5. order[o].pay = "PAID" /\ order'[o].pay = "PAID" /\ \A p \in Orders \ {o} : order'[p] = order[p]
  BY <1>2, <1>3, <1>4 DEF EditSound, EditInv, TypeInv, Types, OrderRow, Repriced
<1>6. item'[o] = j.its /\ \A p \in Orders \ {o} : item'[p] = item[p]
  BY <1>2, <1>3 DEF EditInv, TypeInv, Types
<1>7. ASSUME NEW v \in Variants
      PROVE  stock'[v] + gone'[v] + Kept(o, v)' = stock[v] + gone[v] + Kept(o, v)
  <2>1. Kept(o, v)' = j.its[v].qty /\ Kept(o, v) = item[o][v].qty
    BY <1>5, <1>6 DEF Kept
  <2>2. stock[v] \in Int /\ gone[v] \in Int /\ item[o][v].qty \in Int
    BY ItemTyped DEF EditInv
  <2>3. j.its[v].qty \in Int /\ j.delta \in Int /\ j.left \in Int
    BY <1>2, NumbersAssumption DEF RecalcJobs, Items, ItemRow
  <2>4. CASE v = j.item
    <3>1. v # "none"
      BY RowsAssumption
    <3>2. /\ stock' = [stock EXCEPT ![v] = @ + j.delta]
          /\ gone' = [gone EXCEPT ![v] = @ + j.left]
      BY <1>1, <2>4, <3>1 DEF CommitEdit
    <3>3. stock'[v] = stock[v] + j.delta /\ gone'[v] = gone[v] + j.left
      BY <3>2 DEF EditInv, TypeInv, Types
    <3>4. PICK s, g, q, r, d, l \in Int : /\ s = stock[v] /\ g = gone[v] /\ q = item[o][v].qty
                                          /\ r = j.its[v].qty /\ d = j.delta /\ l = j.left
      BY <2>2, <2>3
    <3>5. l = q - r - d
      BY <1>2, <1>3, <1>4, <2>4, <3>1, <3>4 DEF EditSound
    <3>6. s + d + (g + l) + r = s + g + q
      BY <3>5
    <3> QED BY <2>1, <3>3, <3>4, <3>6
  <2>5. CASE v # j.item
    <3>1. j.its[v] = item[o][v]
      BY <1>1, <1>2, <1>3, <2>5 DEF EditSound, CommitEdit
    <3>2. stock'[v] = stock[v] /\ gone'[v] = gone[v]
      BY <1>1, <2>5 DEF CommitEdit, EditInv, TypeInv, Types
    <3> QED BY <2>1, <3>1, <3>2
  <2> QED BY <2>4, <2>5
<1>8. OnlyOrder(o)
  BY <1>4, <1>5, <1>6, <1>7, OrderKept DEF EditInv
<1> QED BY <1>8, OrderMoved DEF EditInv

LEMMA DeletedFacts ==
    ASSUME EditInv, NEW a \in Admins, CommitDelete(a), NEW j, j = job[a]
    PROVE  /\ j.order \in Orders /\ j.paid \in BOOLEAN /\ j.back \in BOOLEAN /\ DeleteSound(j)
           /\ \A p \in Orders \ {j.order} : order'[p] = order[p] /\ item'[p] = item[p]
           /\ order'[j.order].pay = order[j.order].pay /\ order'[j.order].deleted
           /\ \A v \in Variants : item'[j.order][v].qty = 0
<1>1. j \in DeleteJobs /\ j.kind = "delete" /\ JobSound(j)
  BY JobKinds DEF EditInv, JobsSound, TypeInv, Types, CommitDelete
<1>2. j.order \in Orders /\ j.paid \in BOOLEAN /\ j.back \in BOOLEAN /\ DeleteSound(j)
  BY <1>1 DEF JobSound, DeleteJobs
<1>3. PICK o \in Orders : o = j.order
  BY <1>2
<1>4. /\ item' = [item EXCEPT ![o] = [v \in Variants |-> [item[o][v] EXCEPT !.qty = 0]]]
      /\ order' = [order EXCEPT ![o].deleted = TRUE]
  BY <1>3 DEF CommitDelete
<1>5. /\ \A p \in Orders \ {o} : order'[p] = order[p] /\ item'[p] = item[p]
      /\ order'[o].pay = order[o].pay /\ order'[o].deleted
  BY <1>4 DEF EditInv, TypeInv, Types, OrderRow
<1>6. ASSUME NEW v \in Variants PROVE item'[o][v].qty = 0
  <2>1. item[o][v] \in ItemRow
    BY DEF EditInv, TypeInv, Types, Items
  <2>2. item'[o][v] = [item[o][v] EXCEPT !.qty = 0]
    BY <1>4 DEF EditInv, TypeInv, Types
  <2> QED BY <2>1, <2>2 DEF ItemRow
<1> QED BY <1>2, <1>3, <1>5, <1>6

LEMMA CommitDeleteBalanced ==
    ASSUME EditInv, TypeInv', StockBalanced, NEW a \in Admins, CommitDelete(a)
    PROVE  StockBalanced'
<1>1. PICK j : j = job[a]
  OBVIOUS
<1>2. /\ j.order \in Orders /\ j.paid \in BOOLEAN /\ j.back \in BOOLEAN /\ DeleteSound(j)
      /\ \A p \in Orders \ {j.order} : order'[p] = order[p] /\ item'[p] = item[p]
      /\ order'[j.order].pay = order[j.order].pay
      /\ \A v \in Variants : item'[j.order][v].qty = 0
  BY <1>1, DeletedFacts
<1>3. PICK o \in Orders : o = j.order
  BY <1>2
<1>4. /\ stock' = [v \in Variants |-> stock[v] + Returned(j)[v]]
      /\ gone' = [v \in Variants |-> IF j.paid /\ ~j.back THEN gone[v] + j.its[v].qty ELSE gone[v]]
      /\ sale' = sale
  BY <1>1 DEF CommitDelete
<1>5. /\ j.its = item[o] /\ order[o].pay \in {"PAID", "FAILED"}
      /\ j.paid => order[o].pay = "PAID"
      /\ ~j.paid => item[o] = PlacedItems
  BY <1>2, <1>3 DEF DeleteSound, EditInv, TypeInv, Types, OrderRow, Payments
<1>6. astray' = IF ~j.paid /\ order[o].pay = "PAID" THEN astray + 1 ELSE astray
  BY <1>1, <1>3 DEF CommitDelete
<1>7. PICK n \in Nat : n = astray
  BY DEF EditInv, TypeInv, Types
<1>8. /\ Placed.qty \in Nat /\ Placed.qty * n \in Nat
      /\ Placed.qty * (n + 1) = Placed.qty * n + Placed.qty
  BY LostTyped
<1>9. PICK l, p \in Int : l = Placed.qty * n /\ p = Placed.qty /\ Placed.qty * (n + 1) = l + p
  BY <1>8
<1>10. Lost = l /\ Lost' = IF ~j.paid /\ order[o].pay = "PAID" THEN l + p ELSE l
  BY <1>6, <1>7, <1>9 DEF Lost
<1>11. ASSUME NEW v \in Variants
       PROVE  stock'[v] + gone'[v] + Lost' + Kept(o, v)' = stock[v] + gone[v] + Lost + Kept(o, v)
  <2>1. PICK s, g, q \in Int : s = stock[v] /\ g = gone[v] /\ q = item[o][v].qty
    BY ItemTyped DEF EditInv
  <2>2. Kept(o, v)' = 0
    BY <1>2, <1>3 DEF Kept
  <2>3. CASE j.paid
    <3>1. Kept(o, v) = q /\ Lost' = l
      BY <1>5, <1>10, <2>1, <2>3 DEF Kept
    <3>2. CASE j.back
      <4>1. stock'[v] = s + q /\ gone'[v] = g
        BY <1>4, <1>5, <2>1, <2>3, <3>2 DEF Returned
      <4>2. (s + q) + g + l + 0 = s + g + l + q
        OBVIOUS
      <4> QED BY <1>10, <2>1, <2>2, <3>1, <4>1, <4>2
    <3>3. CASE ~j.back
      <4>1. stock'[v] = s /\ gone'[v] = g + q
        BY <1>4, <1>5, <2>1, <2>3, <3>3 DEF Returned
      <4>2. s + (g + q) + l + 0 = s + g + l + q
        OBVIOUS
      <4> QED BY <1>10, <2>1, <2>2, <3>1, <4>1, <4>2
    <3> QED BY <3>2, <3>3
  <2>4. CASE ~j.paid
    <3>1. stock'[v] = s /\ gone'[v] = g /\ q = p
      BY <1>4, <1>5, <1>9, <2>1, <2>4 DEF Returned, PlacedItems
    <3>2. CASE order[o].pay = "PAID"
      <4>1. Kept(o, v) = p /\ Lost' = l + p
        BY <1>10, <2>1, <2>4, <3>1, <3>2 DEF Kept
      <4> QED BY <1>10, <2>1, <2>2, <3>1, <4>1
    <3>3. CASE order[o].pay = "FAILED"
      <4>1. Kept(o, v) = 0 /\ Lost' = l
        BY <1>10, <3>3 DEF Kept
      <4> QED BY <1>10, <2>1, <2>2, <3>1, <4>1
    <3> QED BY <1>5, <3>2, <3>3
  <2> QED BY <2>3, <2>4
<1>12. OnlyOrder(o)
  BY <1>2, <1>3, <1>4, <1>11 DEF OnlyOrder
<1> QED BY <1>12, OrderMoved DEF EditInv

LEMMA SoldTyped ==
    ASSUME TypeInv, NEW s \in Sales, NEW v \in Variants
    PROVE  stock[v] \in Nat /\ gone[v] \in Int /\ sale[s].items[v].qty \in Nat
BY NumbersAssumption DEF TypeInv, Types, SaleRows, SaleItems

LEMMA CreateSaleBalanced ==
    ASSUME TypeInv, TypeInv', StockBalanced, NEW s \in Sales, NEW its \in Baskets, NEW d \in Amounts,
           NEW c \in Percents, NEW at \in Instants, NEW ch \in Channels, CreateSale(s, its, d, c, at, ch)
    PROVE  StockBalanced'
<1>1. its \in SaleItems /\ \A v \in Variants : its[v].qty \in Nat
  BY BasketsSold, NumbersAssumption DEF SaleItems
<1>2. /\ sale[s] = NoSale /\ sale' = [sale EXCEPT ![s] = SaleRow(its, d, c, at, ch)]
      /\ stock' = [v \in Variants |-> stock[v] - its[v].qty]
      /\ UNCHANGED <<order, item, gone, astray>>
  BY DEF CreateSale
<1>3. ~sale[s].live /\ sale'[s].live /\ sale'[s].items = its /\ \A t \in Sales \ {s} : sale'[t] = sale[t]
  BY <1>2 DEF NoSale, SaleRow, TypeInv, Types
<1>4. ASSUME NEW v \in Variants
      PROVE  stock'[v] + gone'[v] + Sold(s, v)' = stock[v] + gone[v] + Sold(s, v)
  <2>1. Sold(s, v) = 0 /\ Sold(s, v)' = its[v].qty
    BY <1>3 DEF Sold
  <2> QED BY <1>1, <1>2, <2>1, SoldTyped
<1>5. OnlySale(s)
  BY <1>2, <1>3, <1>4 DEF OnlySale
<1> QED BY <1>5, SaleMoved

LEMMA UpdateSaleBalanced ==
    ASSUME EditInv, TypeInv', StockBalanced, NEW a \in Admins, NEW its \in Baskets, NEW d \in Amounts,
           NEW c \in Percents, NEW at \in Instants, NEW ch \in Channels, UpdateSale(a, its, d, c, at, ch)
    PROVE  StockBalanced'
<1>1. its \in SaleItems /\ \A v \in Variants : its[v].qty \in Nat
  BY BasketsSold, NumbersAssumption DEF SaleItems
<1>2. PICK j : j = job[a] /\ j \in SaleJobs /\ SaleSound(j)
  BY JobKinds DEF EditInv, JobsSound, JobSound, TypeInv, Types, UpdateSale
<1>3. PICK s \in Sales : s = j.sale
  BY <1>2 DEF SaleJobs
<1>4. sale[s].live /\ j.its = sale[s].items
  BY <1>2, <1>3 DEF SaleSound
<1>5. UNCHANGED <<order, item, gone, astray>>
  BY DEF UpdateSale
<1>6. PICK shelf : shelf = Restored(j.its)
  OBVIOUS
<1>7. CASE Lacking(shelf, its)
  <2>1. stock' = stock /\ sale' = sale
    BY <1>2, <1>6, <1>7 DEF UpdateSale
  <2> QED BY <1>5, <2>1, NothingMoved
<1>8. CASE ~Lacking(shelf, its)
  <2>1. PICK row : row = SaleRow(its, d, c, at, ch)
    OBVIOUS
  <2>2. /\ stock' = [v \in Variants |-> shelf[v] - its[v].qty]
        /\ sale' = [sale EXCEPT ![s] = [row EXCEPT !.live = sale[s].live]]
    BY <1>2, <1>3, <1>6, <1>8, <2>1 DEF UpdateSale
  <2>3. sale'[s].live /\ sale'[s].items = its /\ \A t \in Sales \ {s} : sale'[t] = sale[t]
    <3>1. sale'[s] = [row EXCEPT !.live = sale[s].live]
      BY <2>2 DEF EditInv, TypeInv, Types
    <3>2. row.live /\ row.items = its /\ sale'[s].live /\ sale'[s].items = its
      BY <1>4, <2>1, <3>1 DEF SaleRow
    <3> QED BY <2>2, <3>2 DEF EditInv, TypeInv, Types
  <2>4. ASSUME NEW v \in Variants
        PROVE  stock'[v] + gone'[v] + Sold(s, v)' = stock[v] + gone[v] + Sold(s, v)
    <3>1. PICK q, r, x, g \in Int : q = sale[s].items[v].qty /\ r = its[v].qty /\ x = stock[v] /\ g = gone[v]
      BY <1>1, SoldTyped DEF EditInv
    <3>2. Sold(s, v) = q /\ Sold(s, v)' = r
      BY <1>4, <2>3, <3>1 DEF Sold
    <3>3. shelf[v] = x + q
      BY <1>4, <1>6, <3>1 DEF Restored
    <3>4. stock'[v] = x + q - r /\ gone'[v] = g
      BY <1>5, <2>2, <3>1, <3>3
    <3>5. x + q - r + g + r = x + g + q
      BY <3>1
    <3> QED BY <3>1, <3>2, <3>4, <3>5
  <2>5. OnlySale(s)
    BY <1>5, <2>3, <2>4 DEF OnlySale
  <2> QED BY <2>5, SaleMoved DEF EditInv
<1> QED BY <1>7, <1>8

LEMMA RemoveSaleBalanced ==
    ASSUME EditInv, TypeInv', StockBalanced, NEW a \in Admins, RemoveSale(a)
    PROVE  StockBalanced'
<1>1. PICK j : j = job[a] /\ j \in SaleJobs /\ SaleSound(j)
  BY JobKinds DEF EditInv, JobsSound, JobSound, TypeInv, Types, RemoveSale
<1>2. PICK s \in Sales : s = j.sale
  BY <1>1 DEF SaleJobs
<1>3. sale[s].live /\ j.its = sale[s].items
  BY <1>1, <1>2 DEF SaleSound
<1>4. /\ UNCHANGED <<order, item, gone, astray>> /\ stock' = Restored(j.its)
      /\ sale' = [sale EXCEPT ![s].live = FALSE]
  BY <1>1, <1>2 DEF RemoveSale
<1>5. ~sale'[s].live /\ \A t \in Sales \ {s} : sale'[t] = sale[t]
  BY <1>4 DEF EditInv, TypeInv, Types, SaleRows
<1>6. ASSUME NEW v \in Variants
      PROVE  stock'[v] + gone'[v] + Sold(s, v)' = stock[v] + gone[v] + Sold(s, v)
  <2>1. PICK q, x, g \in Int : q = sale[s].items[v].qty /\ x = stock[v] /\ g = gone[v]
    BY SoldTyped DEF EditInv
  <2>2. Sold(s, v) = q /\ Sold(s, v)' = 0
    BY <1>3, <1>5, <2>1 DEF Sold
  <2>3. stock'[v] = x + q /\ gone'[v] = g
    BY <1>3, <1>4, <2>1 DEF Restored
  <2> QED BY <2>1, <2>2, <2>3
<1>7. OnlySale(s)
  BY <1>4, <1>5, <1>6 DEF OnlySale
<1> QED BY <1>7, SaleMoved DEF EditInv

LEMMA StepBalanced ==
    ASSUME Serial, EditInv, TypeInv', StockBalanced, [Next]_vars
    PROVE  StockBalanced'
<1>1. CASE UNCHANGED rows /\ gone' = gone /\ astray' = astray
  BY <1>1 DEF rows, StockBalanced
<1>2. CASE UNCHANGED vars \/ Tick
  BY <1>1, <1>2 DEF vars, Tick
<1>3. ASSUME NEW o \in Orders, PaymentConfirmed(o) \/ Release(o) \/ Revive(o)
      PROVE  StockBalanced'
  BY <1>3, PaymentBalanced, ReleaseBalanced, ReviveBalanced DEF EditInv
<1>4. ASSUME NEW v \in Variants, Elsewhere(v)
      PROVE  StockBalanced'
  BY <1>4, ElsewhereBalanced DEF EditInv
<1>5. ASSUME NEW a \in Admins, AdminBegins(a)
      PROVE  StockBalanced'
  <2>1. \E j : Begin(a, j)
    BY <1>5 DEF AdminBegins, UpdateOrder, UpdateItem, DeleteOrder, DeleteItem, LoadSale
  <2> QED BY <1>1, <2>1 DEF Begin
<1>6. ASSUME NEW a \in Admins, AdminGoesOn(a)
      PROVE  StockBalanced'
  <2>1. CASE Change(a) \/ Recalc(a)
    BY <1>1, <2>1 DEF Change, Recalc
  <2> QED BY <1>6, <2>1, CommitEditBalanced, CommitDeleteBalanced, RemoveSaleBalanced, UpdateSaleBalanced
          DEF AdminGoesOn
<1>7. ASSUME NEW its \in Baskets, NEW d \in Amounts, NEW c \in Percents, NEW at \in Instants,
             NEW ch \in Channels, NEW s \in Sales, CreateSale(s, its, d, c, at, ch)
      PROVE  StockBalanced'
  BY <1>7, CreateSaleBalanced DEF EditInv
<1> QED BY <1>2, <1>3, <1>4, <1>5, <1>6, <1>7 DEF Next

(* With one operation of the administrators at a time, and whatever        *)
(* settlements and revivals run beside it, no unit of stock is made, and   *)
(* none is lost but those of orders revived while they were being deleted: *)
(* edits put back has - to or keep it off as asked, deletions and removals *)
(* what they loaded (order-admin.service.ts:234-246, 288-311,              *)
(* offline-sale.service.ts).                                               *)
THEOREM StockAlwaysBalanced ==
    ASSUME Serial
    PROVE  Spec => []StockBalanced
<1>1. EditInv /\ EditInv' /\ StockBalanced /\ [Next]_vars => StockBalanced'
  BY StepBalanced DEF EditInv
<1> QED BY <1>1, EditAlways, InitBalanced, PTL DEF Spec

--------------------------------------------------------------------------------
(* Uses of the discount code.                                              *)

LEMMA UsingSize ==
    IsFiniteSet(Standing) /\ Cardinality(Standing) \in Nat
BY RowsAssumption, FS_Subset, FS_CardinalityType DEF Standing

LEMMA UsesFit ==
    ASSUME NEW n \in Nat
    PROVE  Code * n = IF Code = 0 THEN 0 ELSE n
BY CodeIsNat

(* An order stands no longer: its use is given back, or it is one of those *)
(* that were revived while they were being deleted.                        *)
LEMMA UsesDropped ==
    ASSUME TypeInv, UsesMatchOrders, NEW o \in Standing, Standing' = Standing \ {o},
           \/ uses' = (IF uses > 0 THEN uses - Code ELSE uses) /\ astray' = astray
           \/ uses' = uses /\ astray' = astray + 1
    PROVE  UsesMatchOrders'
<1>1. PICK n, m, k : n = Cardinality(Standing) /\ m = Cardinality(Standing') /\ k = astray
  OBVIOUS
<1>2. n \in Nat /\ m = n - 1 /\ m \in Nat /\ k \in Nat
  BY <1>1, UsingSize, FS_RemoveElement, FS_CardinalityType DEF TypeInv, Types
<1>3. uses = Code * (n + k)
  BY <1>1 DEF UsesMatchOrders
<1>4. PICK k1 \in Nat : k1 = astray' /\ k1 \in {k, k + 1}
  BY <1>1, <1>2
<1>5. PICK l \in Nat : l = m + k1
  BY <1>2
<1>6. uses' = Code * l
  <2>1. uses = (IF Code = 0 THEN 0 ELSE n + k) /\ n + k \in Nat
    BY <1>2, <1>3, UsesFit
  <2>2. uses' = IF Code = 0 THEN 0 ELSE l
    <3>1. CASE uses' = uses /\ k1 = k + 1
      BY <1>2, <1>5, <2>1, <3>1
    <3>2. CASE uses' = (IF uses > 0 THEN uses - Code ELSE uses) /\ k1 = k
      BY <1>2, <1>5, <2>1, <3>2, CodeIsNat
    <3> QED BY <1>1, <1>4, <3>1, <3>2
  <2> QED BY <2>2, UsesFit
<1> QED BY <1>1, <1>4, <1>5, <1>6 DEF UsesMatchOrders, Code

LEMMA UsesGained ==
    ASSUME TypeInv, UsesMatchOrders, NEW o, o \notin Standing, Standing' = Standing \cup {o},
           uses' = uses + Code, astray' = astray
    PROVE  UsesMatchOrders'
<1>1. PICK n, m, k : n = Cardinality(Standing) /\ m = Cardinality(Standing') /\ k = astray
  OBVIOUS
<1>2. n \in Nat /\ m = n + 1 /\ k \in Nat
  BY <1>1, UsingSize, FS_AddElement DEF TypeInv, Types
<1>3. uses = Code * (n + k)
  BY <1>1 DEF UsesMatchOrders
<1>4. PICK l \in Nat : l = m + k /\ l = n + k + 1
  BY <1>2
<1>5. uses' = Code * l
  <2>1. uses = (IF Code = 0 THEN 0 ELSE n + k) /\ n + k \in Nat
    BY <1>2, <1>3, UsesFit
  <2>2. uses' = IF Code = 0 THEN 0 ELSE l
    BY <1>2, <1>4, <2>1, CodeIsNat
  <2> QED BY <2>2, UsesFit
<1> QED BY <1>1, <1>4, <1>5 DEF UsesMatchOrders, Code

LEMMA UsesKept ==
    ASSUME UsesMatchOrders, Standing' = Standing, uses' = uses, astray' = astray
    PROVE  UsesMatchOrders'
BY DEF UsesMatchOrders, Code

LEMMA StepUses ==
    ASSUME Serial, EditInv, UsesMatchOrders, [Next]_vars
    PROVE  UsesMatchOrders'
<1>1. CASE order' = order /\ uses' = uses /\ astray' = astray
  BY <1>1, UsesKept DEF Standing
<1>2. CASE UNCHANGED vars \/ Tick \/ \E v \in Variants : Elsewhere(v)
  BY <1>1, <1>2 DEF vars, rows, Tick, Elsewhere
<1>3. ASSUME NEW o \in Orders, PaymentConfirmed(o)
      PROVE  UsesMatchOrders'
  <2>1. \A p \in Orders : /\ order'[p].deleted = order[p].deleted
                          /\ order'[p].pay = "FAILED" <=> order[p].pay = "FAILED"
    BY <1>3 DEF PaymentConfirmed, EditInv, TypeInv, Types, OrderRow
  <2>2. Standing' = Standing
    BY <2>1 DEF Standing
  <2> QED BY <1>3, <2>2, UsesKept DEF PaymentConfirmed
<1>4. ASSUME NEW o \in Orders, Release(o)
      PROVE  UsesMatchOrders'
  <2>1. /\ order[o].pay = "PENDING" /\ ~order[o].deleted /\ order'[o].pay = "FAILED"
        /\ \A p \in Orders \ {o} : order'[p] = order[p]
    BY <1>4 DEF Release, EditInv, TypeInv, Types, OrderRow
  <2>2. o \in Standing /\ Standing' = Standing \ {o}
    BY <2>1 DEF Standing
  <2> QED BY <1>4, <2>2, UsesDropped DEF Release, EditInv
<1>5. ASSUME NEW o \in Orders, Revive(o)
      PROVE  UsesMatchOrders'
  <2>1. /\ order[o].pay = "FAILED" /\ ~order[o].deleted /\ order'[o].pay = "PAID" /\ ~order'[o].deleted
        /\ \A p \in Orders \ {o} : order'[p] = order[p]
    BY <1>5 DEF Revive, EditInv, TypeInv, Types, OrderRow
  <2>2. o \notin Standing /\ Standing' = Standing \cup {o}
    BY <2>1 DEF Standing
  <2> QED BY <1>5, <2>2, UsesGained DEF Revive, EditInv
<1>6. ASSUME NEW a \in Admins, AdminBegins(a)
      PROVE  UsesMatchOrders'
  <2>1. \E j : Begin(a, j)
    BY <1>6 DEF AdminBegins, UpdateOrder, UpdateItem, DeleteOrder, DeleteItem, LoadSale
  <2> QED BY <1>1, <2>1 DEF Begin, rows
<1>7. ASSUME NEW a \in Admins, CommitEdit(a)
      PROVE  UsesMatchOrders'
  <2>1. PICK j : j = job[a] /\ j.order \in Orders
    BY <1>7, CommittedItems
  <2>2. order' = [order EXCEPT ![j.order] = Repriced(@, j.after)] /\ uses' = uses /\ astray' = astray
    BY <1>7, <2>1 DEF CommitEdit
  <2>3. \A p \in Orders : order'[p].deleted = order[p].deleted /\ order'[p].pay = order[p].pay
    BY <2>1, <2>2 DEF EditInv, TypeInv, Types, OrderRow, Repriced
  <2>4. Standing' = Standing
    BY <2>3 DEF Standing
  <2> QED BY <2>2, <2>4, UsesKept
<1>8. ASSUME NEW a \in Admins, CommitDelete(a)
      PROVE  UsesMatchOrders'
  <2>1. PICK j : j = job[a]
    OBVIOUS
  <2>2. /\ j.order \in Orders /\ DeleteSound(j)
        /\ \A p \in Orders \ {j.order} : order'[p] = order[p]
        /\ order'[j.order].pay = order[j.order].pay /\ order'[j.order].deleted
    BY <1>8, <2>1, DeletedFacts
  <2>3. PICK o \in Orders : o = j.order
    BY <2>2
  <2>4. /\ ~order[o].deleted /\ order[o].pay \in {"PAID", "FAILED"}
        /\ j.paid => order[o].pay = "PAID"
    BY <2>2, <2>3 DEF DeleteSound, EditInv, TypeInv, Types, OrderRow, Payments
  <2>5. /\ uses' = DeletedUses(j.paid)
        /\ astray' = IF ~j.paid /\ order[o].pay = "PAID" THEN astray + 1 ELSE astray
    BY <1>8, <2>1, <2>3 DEF CommitDelete
  <2>6. CASE order[o].pay = "PAID"
    <3>1. o \in Standing /\ Standing' = Standing \ {o}
      BY <2>2, <2>3, <2>4, <2>6 DEF Standing
    <3>2. \/ uses' = (IF uses > 0 THEN uses - Code ELSE uses) /\ astray' = astray
          \/ uses' = uses /\ astray' = astray + 1
      BY <2>5, <2>6 DEF DeletedUses
    <3> QED BY <3>1, <3>2, UsesDropped DEF EditInv
  <2>7. CASE order[o].pay = "FAILED"
    <3>1. Standing' = Standing
      BY <2>2, <2>3, <2>7 DEF Standing
    <3>2. uses' = uses /\ astray' = astray
      BY <2>4, <2>5, <2>7 DEF DeletedUses
    <3> QED BY <3>1, <3>2, UsesKept
  <2> QED BY <2>4, <2>6, <2>7
<1>9. ASSUME NEW a \in Admins, AdminGoesOn(a)
      PROVE  UsesMatchOrders'
  <2>1. CASE ~CommitEdit(a) /\ ~CommitDelete(a)
    <3>1. order' = order /\ uses' = uses /\ astray' = astray
      BY <1>9, <2>1 DEF AdminGoesOn, Change, Recalc, RemoveSale, UpdateSale, rows
    <3> QED BY <1>1, <3>1
  <2> QED BY <1>7, <1>8, <2>1
<1>10. ASSUME NEW its \in Baskets, NEW d \in Amounts, NEW c \in Percents, NEW at \in Instants,
              NEW ch \in Channels, NEW s \in Sales, CreateSale(s, its, d, c, at, ch)
       PROVE  UsesMatchOrders'
  BY <1>1, <1>10 DEF CreateSale
<1> QED BY <1>2, <1>3, <1>4, <1>5, <1>6, <1>9, <1>10 DEF Next

LEMMA InitUses == Init => UsesMatchOrders
<1> SUFFICES ASSUME Init PROVE UsesMatchOrders
  OBVIOUS
<1>1. Standing = Orders
  BY DEF Init, Standing, NewOrder
<1>2. Cardinality(Orders) \in Nat
  BY RowsAssumption, FS_CardinalityType
<1>3. PICK n \in Nat : n = Cardinality(Orders)
  BY <1>2
<1>4. uses = Code * n /\ astray = 0 /\ n + 0 = n
  BY <1>3 DEF Init, Code
<1> QED BY <1>1, <1>3, <1>4 DEF UsesMatchOrders

(* With one operation of the administrators at a time, and whatever        *)
(* settlements and revivals run beside it, a use of the discount code is   *)
(* counted for every order that stands and for every order that was        *)
(* revived while it was being deleted (order-admin.service.ts:277-315).    *)
THEOREM UsesAlwaysMatchOrders ==
    ASSUME Serial
    PROVE  Spec => []UsesMatchOrders
<1>1. EditInv /\ UsesMatchOrders /\ [Next]_vars => UsesMatchOrders'
  BY StepUses
<1> QED BY <1>1, EditAlways, InitUses, PTL DEF Spec

--------------------------------------------------------------------------------
(* Reports.                                                                *)

LEMMA ImageFinite ==
    ASSUME NEW S, IsFiniteSet(S), NEW k, NEW C, C = {k[x] : x \in S}
    PROVE  IsFiniteSet(C)
<1>1. PICK f : f = [x \in S |-> k[x]]
  OBVIOUS
<1>2. f \in Surjection(S, C)
  BY <1>1 DEF Surjection
<1> QED BY <1>2, FS_Surjection

LEMMA RowsChosen ==
    ASSUME NEW from, NEW to
    PROVE  /\ PaidBetween(from, to) \in SUBSET Orders /\ IsFiniteSet(PaidBetween(from, to))
           /\ SoldBetween(from, to) \in SUBSET Sales /\ IsFiniteSet(SoldBetween(from, to))
BY RowsAssumption, FS_Subset DEF PaidBetween, SoldBetween

LEMMA OrderFiguresTyped ==
    ASSUME TypeInv
    PROVE  /\ Quantities \in [Orders -> Int] /\ Costs \in [Orders -> Int]
           /\ Totals \in [Orders -> Int] /\ Discounts \in [Orders -> Int]
           /\ Payables \in [Orders -> Int] /\ Shippings \in [Orders -> Int]
           /\ \A o \in Orders : Payables[o] \in Nat
<1>1. ASSUME NEW o \in Orders
      PROVE  Quantity(o) \in Int /\ CostOfGoods(o) \in Int
  <2>1. PICK f : f = [v \in Variants |-> item[o][v].qty]
    OBVIOUS
  <2>2. f \in [Variants -> Int]
    BY <2>1, ItemTyped
  <2>3. SumOver(f, Variants) \in Int
    BY <2>2, RowsAssumption, SumIsInt
  <2>4. item[o] \in SaleItems
    BY ItemsSold DEF TypeInv, Types
  <2> QED BY <2>1, <2>3, <2>4, TotalsTyped DEF Quantity, CostOfGoods
<1>2. \A o \in Orders : /\ order[o].total \in Nat /\ order[o].discount \in Nat
                        /\ order[o].payable \in Nat /\ order[o].shipping \in Nat
  BY DEF TypeInv, Types, OrderRow
<1> QED BY <1>1, <1>2 DEF Quantities, Costs, Totals, Discounts, Payables, Shippings

LEMMA SaleFiguresTyped ==
    ASSUME TypeInv
    PROVE  /\ SaleTotals \in [Sales -> Int] /\ SalePayables \in [Sales -> Int]
           /\ Nets \in [Sales -> Int] /\ SaleCosts \in [Sales -> Int] /\ Gains \in [Sales -> Int]
           /\ \A s \in Sales : Nets[s] \in Nat /\ Gains[s] = Nets[s] - SaleCosts[s]
<1>1. \A s \in Sales : /\ sale[s].total \in Nat /\ sale[s].payable \in Nat
                       /\ sale[s].net \in Nat /\ sale[s].cost \in Nat
  BY DEF TypeInv, Types, SaleRows
<1> QED BY <1>1 DEF SaleTotals, SalePayables, Nets, SaleCosts, Gains

(* The rows of the detailed report sum up to the summary.                  *)
LEMMA DetailsAgree ==
    ASSUME TypeInv, NEW from, NEW to
    PROVE  Summary(from, to).netProfit = SumOver([o \in Orders |-> Detail(o).netProfit], PaidBetween(from, to))
<1>1. PICK O : O = PaidBetween(from, to)
  OBVIOUS
<1>2. O \in SUBSET Orders /\ IsFiniteSet(O)
  BY <1>1, RowsChosen
<1>3. PICK p, s, c, q : p = Payables /\ s = Shippings /\ c = Costs /\ q = Quantities
  OBVIOUS
<1>4. p \in [Orders -> Int] /\ s \in [Orders -> Int] /\ c \in [Orders -> Int] /\ q \in [Orders -> Int]
  BY <1>3, OrderFiguresTyped
<1>5. PICK k \in Int : k = -PackagingCost
  BY CalendarAssumption
<1>6. PICK g : g = [o \in Orders |-> p[o] - s[o]]
  OBVIOUS
<1>7. PICK h : h = [o \in Orders |-> g[o] - c[o]]
  OBVIOUS
<1>8. PICK d : d = [o \in Orders |-> Detail(o).netProfit]
  OBVIOUS
<1>9. g \in [Orders -> Int] /\ h \in [Orders -> Int]
  BY <1>4, <1>6, <1>7
<1>10. /\ \A o \in Orders : g[o] = p[o] - s[o] /\ h[o] = g[o] - c[o]
       /\ \A o \in O : g[o] = p[o] - s[o]
       /\ \A o \in O : h[o] = g[o] - c[o]
  BY <1>2, <1>6, <1>7
<1>11. ASSUME NEW o \in Orders
       PROVE  d[o] = h[o] + k * q[o]
  <2>1. d[o] = p[o] - s[o] - c[o] - PackagingCost * q[o]
    BY <1>3, <1>8 DEF Detail, NetProfit, Payables, Shippings, Costs, Quantities
  <2>2. PICK x, y \in Int : x = q[o] /\ y = h[o] /\ y = p[o] - s[o] - c[o]
    BY <1>4, <1>9, <1>10
  <2>3. PackagingCost * x \in Int /\ k * x = -(PackagingCost * x)
    BY <1>5, CalendarAssumption
  <2> QED BY <2>1, <2>2, <2>3
<1>12. d \in [Orders -> Int]
  <2>1. \A o \in Orders : h[o] + k * q[o] \in Int
    BY <1>4, <1>9
  <2> QED BY <1>8, <1>11, <2>1
<1>13. SumOver(g, O) = SumOver(p, O) - SumOver(s, O)
  <2>1. \A o \in O : g[o] = p[o] - s[o]
    BY <1>10
  <2> QED BY <1>2, <1>4, <1>9, <2>1, SumMinus
<1>14. SumOver(h, O) = SumOver(g, O) - SumOver(c, O)
  <2>1. \A o \in O : h[o] = g[o] - c[o]
    BY <1>10
  <2> QED BY <1>2, <1>4, <1>9, <2>1, SumMinus
<1>15. Combines(d, h, k, q, O)
  BY <1>2, <1>11 DEF Combines
<1>16. SumOver(d, O) = SumOver(h, O) + k * SumOver(q, O)
  BY <1>2, <1>4, <1>9, <1>12, <1>15, SumLinear
<1>17. SumOver(p, O) \in Int
  BY <1>2, <1>4, SumIsInt
<1>18. SumOver(s, O) \in Int
  BY <1>2, <1>4, SumIsInt
<1>19. SumOver(c, O) \in Int
  BY <1>2, <1>4, SumIsInt
<1>20. SumOver(q, O) \in Int
  BY <1>2, <1>4, SumIsInt
<1>21. PICK x, y, z, w \in Int : x = SumOver(p, O) /\ y = SumOver(s, O) /\ z = SumOver(c, O) /\ w = SumOver(q, O)
  BY <1>17, <1>18, <1>19, <1>20
<1>22. PackagingCost * w \in Int /\ k * w = -(PackagingCost * w)
  BY <1>5, CalendarAssumption
<1>23. SumOver(d, O) = x - y - z - PackagingCost * w
  BY <1>13, <1>14, <1>16, <1>21, <1>22
<1>24. Summary(from, to).netProfit = x - y - z - PackagingCost * w
  BY <1>1, <1>3, <1>21 DEF Summary, NetProfit
<1> QED BY <1>1, <1>8, <1>23, <1>24

(* So do the days.                                                         *)
LEMMA DaysAgree ==
    ASSUME TypeInv, NEW from, NEW to, NEW days, days = Daily(from, to)
    PROVE  Summary(from, to).payableAmount = SumOver([d \in DOMAIN days |-> days[d].payableAmount], DOMAIN days)
<1>1. PICK O : O = PaidBetween(from, to)
  OBVIOUS
<1>2. O \in SUBSET Orders /\ IsFiniteSet(O)
  BY <1>1, RowsChosen
<1>3. PICK k : k = [o \in Orders |-> RowDay(order[o].paidAt)]
  OBVIOUS
<1>4. PICK C : C = {k[o] : o \in O}
  OBVIOUS
<1>5. IsFiniteSet(C) /\ \A o \in O : k[o] \in C
  BY <1>2, <1>4, ImageFinite
<1>6. PICK p : p = Payables
  OBVIOUS
<1>7. p \in [Orders -> Int]
  BY <1>6, OrderFiguresTyped
<1>8. SumOver(PartSums(p, k, C, O), C) = SumOver(p, O)
  BY <1>2, <1>5, <1>7, SumOfParts
<1>9. C = {RowDay(order[o].paidAt) : o \in O}
  BY <1>2, <1>3, <1>4
<1>10. DOMAIN days = C
  BY <1>1, <1>9 DEF Daily
<1>11. ASSUME NEW d \in C
       PROVE  days[d].payableAmount = SumOver(p, Part(k, O, d))
  <2>1. Part(k, O, d) = {o \in O : RowDay(order[o].paidAt) = d}
    BY <1>2, <1>3 DEF Part
  <2>2. days[d].payableAmount = SumOver(p, {o \in O : RowDay(order[o].paidAt) = d})
    BY <1>1, <1>6, <1>9 DEF Daily
  <2> QED BY <2>1, <2>2
<1>12. [d \in DOMAIN days |-> days[d].payableAmount] = PartSums(p, k, C, O)
  BY <1>10, <1>11 DEF PartSums
<1>13. Summary(from, to).payableAmount = SumOver(p, O)
  BY <1>1, <1>6 DEF Summary
<1> QED BY <1>8, <1>10, <1>12, <1>13

(* A sale counts for one channel.                                          *)
LEMMA ChannelsAgree ==
    ASSUME TypeInv, NEW from, NEW to, NEW channels, channels = ByChannel(from, to)
    PROVE  CombinedSummary(from, to).offline.netProfit =
                SumOver([c \in DOMAIN channels |-> channels[c].netProfit], DOMAIN channels)
<1>1. PICK S : S = SoldBetween(from, to)
  OBVIOUS
<1>2. S \in SUBSET Sales /\ IsFiniteSet(S)
  BY <1>1, RowsChosen
<1>3. PICK k : k = [s \in Sales |-> sale[s].channel]
  OBVIOUS
<1>4. PICK C : C = {k[s] : s \in S}
  OBVIOUS
<1>5. IsFiniteSet(C) /\ \A s \in S : k[s] \in C
  BY <1>2, <1>4, ImageFinite
<1>6. PICK f, g, h : f = Nets /\ g = SaleCosts /\ h = Gains
  OBVIOUS
<1>7. f \in [Sales -> Int] /\ g \in [Sales -> Int] /\ h \in [Sales -> Int] /\ \A s \in S : h[s] = f[s] - g[s]
  BY <1>2, <1>6, SaleFiguresTyped
<1>8. SumOver(PartSums(h, k, C, S), C) = SumOver(h, S)
  BY <1>2, <1>5, <1>7, SumOfParts
<1>9. SumOver(h, S) = SumOver(f, S) - SumOver(g, S)
  BY <1>2, <1>7, SumMinus
<1>10. C = {sale[s].channel : s \in S}
  BY <1>2, <1>3, <1>4
<1>11. DOMAIN channels = C
  BY <1>1, <1>10 DEF ByChannel
<1>12. ASSUME NEW c \in C
       PROVE  channels[c].netProfit = SumOver(h, Part(k, S, c))
  <2>1. Part(k, S, c) = {s \in S : sale[s].channel = c}
    BY <1>2, <1>3 DEF Part
  <2>2. channels[c].netProfit = SumOver(h, {s \in S : sale[s].channel = c})
    BY <1>1, <1>6, <1>10 DEF ByChannel
  <2> QED BY <2>1, <2>2
<1>13. [c \in DOMAIN channels |-> channels[c].netProfit] = PartSums(h, k, C, S)
  BY <1>11, <1>12 DEF PartSums
<1>14. CombinedSummary(from, to).offline.netProfit = SumOver(f, S) - SumOver(g, S)
  BY <1>1, <1>6 DEF CombinedSummary, Entry
<1> QED BY <1>8, <1>9, <1>11, <1>13, <1>14

(* The products' revenue is part of what the orders were totalled at.      *)
LEMMA ProductsAgree ==
    ASSUME TypeInv, TotalsMatchItems, NEW from, NEW to, NEW products, products = ProductRows(from, to),
           NEW P \in SUBSET DOMAIN products, NEW best,
           best = SumOver([v \in DOMAIN products |-> products[v].revenue], P)
    PROVE  /\ best <= Summary(from, to).totalAmount
           /\ P = DOMAIN products => best = Summary(from, to).totalAmount
<1>1. PICK O : O = PaidBetween(from, to)
  OBVIOUS
<1>2. O \in SUBSET Orders /\ IsFiniteSet(O) /\ IsFiniteSet(Variants)
  BY <1>1, RowsChosen, RowsAssumption
<1>3. PICK m : m = [o \in Orders |-> Value(item[o])]
  OBVIOUS
<1>4. \A o \in Orders, v \in Variants : item[o][v].qty * item[o][v].price \in Nat
  <2> SUFFICES ASSUME NEW o \in Orders, NEW v \in Variants PROVE item[o][v].qty * item[o][v].price \in Nat
    OBVIOUS
  <2>1. PICK q, p \in Nat : q = item[o][v].qty /\ p = item[o][v].price
    BY ItemTyped, NumbersAssumption DEF TypeInv, Types, Items, ItemRow
  <2>2. q * p \in Nat
    OBVIOUS
  <2> QED BY <2>1, <2>2
<1>5. /\ m \in [Orders -> [Variants -> Int]]
      /\ \A o \in Orders, v \in Variants : /\ m[o][v] = item[o][v].qty * item[o][v].price
                                           /\ m[o][v] \in Nat
  BY <1>3, <1>4 DEF Value
<1>6. PICK r, col : r = RowSums(m, Orders, Variants) /\ col = ColumnSums(m, Orders, Variants, O)
  OBVIOUS
<1>7. SumOver(r, O) = SumOver(col, Variants)
  BY <1>2, <1>5, <1>6, SumOfTable
<1>8. ASSUME NEW o \in O
      PROVE  r[o] = Totals[o]
  <2>1. o \in Orders /\ ~order[o].deleted
    BY <1>1, <1>2 DEF PaidBetween, IsSold
  <2>2. order[o].total = ItemsTotal(item[o])
    BY <2>1 DEF TotalsMatchItems
  <2>3. r[o] = SumOver(m[o], Variants) /\ m[o] = Value(item[o])
    BY <1>3, <1>6, <2>1 DEF RowSums
  <2> QED BY <2>1, <2>2, <2>3 DEF Totals, ItemsTotal
<1>9. SumOver(r, O) = SumOver(Totals, O)
  <2>1. PICK t : t = Totals
    OBVIOUS
  <2>2. O \subseteq DOMAIN r /\ O \subseteq DOMAIN t /\ \A o \in O : r[o] = t[o]
    BY <1>2, <1>6, <1>8, <2>1 DEF RowSums, Totals
  <2>3. SumOver(r, O) = SumOver(t, O)
    BY <2>2, SumSame
  <2> QED BY <2>1, <2>3
<1>10. Summary(from, to).totalAmount = SumOver(col, Variants)
  BY <1>1, <1>7, <1>9 DEF Summary
<1>11. ASSUME NEW v \in Variants
       PROVE  /\ col[v] = SumOver(Revenues(v), O) /\ Revenues(v) \in [Orders -> Int]
              /\ \A o \in O : Revenues(v)[o] \in Nat
  <2>1. [o \in Orders |-> m[o][v]] = Revenues(v)
    BY <1>5 DEF Revenues
  <2>2. col[v] = SumOver([o \in Orders |-> m[o][v]], O)
    BY <1>6 DEF ColumnSums
  <2>3. Revenues(v) \in [Orders -> Int] /\ \A o \in O : Revenues(v)[o] \in Nat
    BY <1>2, <1>4 DEF Revenues
  <2> QED BY <2>1, <2>2, <2>3
<1>12. ASSUME NEW v \in Variants
       PROVE  col[v] \in Nat
  <2>1. PICK f : f = Revenues(v)
    OBVIOUS
  <2>2. f \in [Orders -> Int] /\ \A o \in O : f[o] \in Nat
    BY <1>11, <2>1
  <2>3. SumOver(f, O) \in Nat
    BY <1>2, <2>2, SumIsNat
  <2> QED BY <1>11, <2>1, <2>3
<1>13. col \in [Variants -> Int]
  BY <1>6, <1>12 DEF ColumnSums
<1>14. DOMAIN products = {w \in Variants : \E o \in O : item[o][w].qty > 0}
  BY <1>1 DEF ProductRows
<1>15. ASSUME NEW v \in Variants, NEW o \in O, ~(item[o][v].qty > 0)
       PROVE  Revenues(v)[o] = 0
  <2>1. o \in Orders /\ item[o][v].qty = 0
    BY <1>2, <1>15, ItemTyped
  <2>2. item[o][v].price \in Int
    BY <2>1, NumbersAssumption DEF TypeInv, Types, Items, ItemRow
  <2> QED BY <2>1, <2>2 DEF Revenues
<1>16. ASSUME NEW v \in DOMAIN products
       PROVE  products[v].revenue = col[v]
  <2>1. v \in Variants
    BY <1>14
  <2>2. PICK f, T : f = Revenues(v) /\ T = {o \in O : item[o][v].qty > 0}
    OBVIOUS
  <2>3. f \in [Orders -> Int] /\ T \in SUBSET O /\ \A o \in O \ T : f[o] = 0
    BY <1>11, <1>15, <2>1, <2>2
  <2>4. SumOver(f, T) = SumOver(f, O)
    BY <1>2, <2>3, SumZeros
  <2>5. products[v].revenue = SumOver(f, T)
    BY <1>1, <1>14, <2>2 DEF ProductRows
  <2> QED BY <1>11, <2>1, <2>2, <2>4, <2>5
<1>17. ASSUME NEW v \in Variants \ DOMAIN products
       PROVE  col[v] = 0
  <2>1. PICK f : f = Revenues(v)
    OBVIOUS
  <2>2. f \in [Orders -> Int] /\ {} \in SUBSET O /\ \A o \in O \ {} : f[o] = 0
    BY <1>11, <1>14, <1>15, <2>1
  <2>3. SumOver(f, {}) = SumOver(f, O)
    BY <1>2, <2>2, SumZeros
  <2> QED BY <1>11, <2>1, <2>3, SumOfNothing
<1>18. best = SumOver(col, P)
  <2>1. PICK b : b = [v \in DOMAIN products |-> products[v].revenue]
    OBVIOUS
  <2>2. P \subseteq DOMAIN b /\ P \subseteq DOMAIN col /\ \A v \in P : b[v] = col[v]
    BY <1>13, <1>14, <1>16, <2>1
  <2>3. SumOver(b, P) = SumOver(col, P)
    BY <2>2, SumSame
  <2> QED BY <2>1, <2>3
<1>19. P \in SUBSET Variants
  BY <1>14
<1>20. SumOver(col, P) <= SumOver(col, Variants)
  BY <1>2, <1>12, <1>13, <1>19, SumSubset
<1>21. P = DOMAIN products => SumOver(col, P) = SumOver(col, Variants)
  <2> SUFFICES ASSUME P = DOMAIN products PROVE SumOver(col, P) = SumOver(col, Variants)
    OBVIOUS
  <2>1. \A v \in Variants \ P : col[v] = 0
    BY <1>17
  <2> QED BY <1>13, <1>19, <2>1, SumZeros
<1> QED BY <1>10, <1>18, <1>20, <1>21

--------------------------------------------------------------------------------
(* Months.                                                                 *)

LEMMA RangeEnds ==
    ASSUME NEW a \in Int, NEW b \in Int, a <= b
    PROVE  Min(a..b) = a /\ Max(a..b) = b
<1>1. PICK R : R = a..b
  OBVIOUS
<1>2. a \in R /\ b \in R /\ \A y \in R : y \in Int /\ a <= y /\ y <= b
  BY <1>1
<1>3. Min(R) \in R /\ \A y \in R : Min(R) <= y
  BY <1>2 DEF Min
<1>4. Max(R) \in R /\ \A y \in R : Max(R) >= y
  BY <1>2 DEF Max
<1>5. PICK n, x \in R : n = Min(R) /\ x = Max(R)
  BY <1>3, <1>4
<1>6. n <= a /\ x >= b
  BY <1>2, <1>3, <1>4, <1>5
<1>7. n = a /\ x = b
  BY <1>2, <1>5, <1>6
<1> QED BY <1>1, <1>5, <1>7

LEMMA MonthBounds ==
    ASSUME NEW m \in Int
    PROVE  \E a, b \in Int : a <= b /\ MonthRange(m) = a..b
<1>1. PICK k \in Nat \ {0} : k = MonthDays
  BY CalendarAssumption
<1>2. m * k \in Int /\ (m + 1) * k = m * k + k
  OBVIOUS
<1>3. PICK x \in Int : x = m * k
  BY <1>2
<1>4. MonthStart(m) = x * 48 - 7 /\ MonthStart(m + 1) = (x + k) * 48 - 7
  BY <1>1, <1>2, <1>3 DEF MonthStart, Day, TehranOffset
<1>5. PICK a, b \in Int : a = x * 48 - 7 /\ b = (x + k) * 48 - 7 - 1
  OBVIOUS
<1>6. a <= b /\ MonthRange(m) = a..b
  BY <1>4, <1>5 DEF MonthRange
<1> QED BY <1>6

LEMMA DaysInMonth ==
    ASSUME NEW m \in Int
    PROVE  /\ IsFiniteSet(DaysOf(m)) /\ \A d \in DaysOf(m) : MonthOfDay(d) = m
           /\ m \in (m \div YearMonths) * YearMonths..((m \div YearMonths + 1) * YearMonths - 1)
<1>1. PICK k, n \in Nat \ {0} : k = MonthDays /\ n = YearMonths
  BY CalendarAssumption
<1>2. m * k \in Int /\ (m + 1) * k = m * k + k
  OBVIOUS
<1>3. PICK x \in Int : x = m * k
  BY <1>2
<1>4. DaysOf(m) = x..(x + k - 1)
  BY <1>1, <1>2, <1>3 DEF DaysOf
<1>5. IsFiniteSet(DaysOf(m))
  BY <1>4, FS_Interval
<1>6. ASSUME NEW d \in DaysOf(m) PROVE MonthOfDay(d) = m
  <2>1. d \in Int /\ m * k <= d /\ d <= m * k + k - 1
    BY <1>3, <1>4
  <2>2. d \div k = m
    BY <2>1
  <2> QED BY <1>1, <2>2 DEF MonthOfDay
<1>7. PICK y \in Int : y = m \div n
  OBVIOUS
<1>8. y * n <= m /\ m <= (y + 1) * n - 1 /\ y * n \in Int /\ (y + 1) * n \in Int
  BY <1>7
<1>9. m \in y * n..((y + 1) * n - 1)
  BY <1>8
<1> QED BY <1>1, <1>5, <1>6, <1>7, <1>9

(* The days of a month sum up to no more than the months of the year say.  *)
LEMMA DaysWithin ==
    ASSUME NEW D, NEW f \in [D -> Int], NEW S \in SUBSET D, IsFiniteSet(S), \A x \in S : f[x] \in Nat,
           NEW k, NEW C, IsFiniteSet(C), NEW M, M \in SUBSET D, \A x \in M : k[x] \in C => x \in S,
           NEW g, g = [c \in C |-> SumOver(f, Part(k, M, c))]
    PROVE  SumOver(g, C) <= SumOver(f, S)
<1>1. PICK T : T = {x \in M : k[x] \in C}
  OBVIOUS
<1>2. T \in SUBSET S /\ T \in SUBSET D /\ IsFiniteSet(T) /\ \A x \in T : k[x] \in C
  BY <1>1, FS_Subset
<1>3. SumOver(PartSums(f, k, C, T), C) = SumOver(f, T)
  BY <1>2, SumOfParts
<1>4. \A c \in C : Part(k, T, c) = Part(k, M, c)
  BY <1>1 DEF Part
<1>5. g = PartSums(f, k, C, T)
  BY <1>4 DEF PartSums
<1>6. SumOver(f, T) <= SumOver(f, S)
  BY <1>2, SumSubset
<1> QED BY <1>3, <1>5, <1>6

LEMMA OnlineDaysWithin ==
    ASSUME TypeInv, NEW m \in Int
    PROVE  SumOver([d \in DaysOf(m) |-> DailyJalali(m)[d].payableAmount], DaysOf(m))
                <= Bucket(m \div YearMonths, m).payableAmount
<1>1. PICK f, k, C, M : /\ f = Payables /\ k = [o \in Orders |-> RowDay(order[o].paidAt)]
                        /\ C = DaysOf(m) /\ M = InMonth(m)
  OBVIOUS
<1>2. PICK y : y = m \div YearMonths
  OBVIOUS
<1>3. PICK S : S = {o \in UNION {InMonth(i) : i \in y * YearMonths..((y + 1) * YearMonths - 1)} :
                        MonthOfDay(RowDay(order[o].paidAt)) = m}
  OBVIOUS
<1>4. S \in SUBSET Orders /\ IsFiniteSet(S) /\ M \in SUBSET Orders
  BY <1>1, <1>3, RowsAssumption, FS_Subset DEF InMonth
<1>5. f \in [Orders -> Int] /\ \A o \in S : f[o] \in Nat
  BY <1>1, <1>4, OrderFiguresTyped
<1>6. IsFiniteSet(C) /\ \A d \in C : MonthOfDay(d) = m
  BY <1>1, DaysInMonth
<1>7. \A o \in M : k[o] \in C => o \in S
  <2> SUFFICES ASSUME NEW o \in M, k[o] \in C PROVE o \in S
    OBVIOUS
  <2>1. m \in y * YearMonths..((y + 1) * YearMonths - 1)
    BY <1>2, DaysInMonth
  <2>2. o \in UNION {InMonth(i) : i \in y * YearMonths..((y + 1) * YearMonths - 1)}
    BY <1>1, <2>1
  <2>3. k[o] = RowDay(order[o].paidAt)
    BY <1>1, <1>4
  <2> QED BY <1>3, <1>6, <2>2, <2>3
<1>8. ASSUME NEW d \in C
      PROVE  DailyJalali(m)[d].payableAmount = SumOver(f, Part(k, M, d))
  <2>1. Part(k, M, d) = OnDay(m, d)
    BY <1>1, <1>4 DEF Part, OnDay
  <2> QED BY <1>1, <2>1 DEF DailyJalali
<1>9. PICK g : g = [d \in C |-> DailyJalali(m)[d].payableAmount]
  OBVIOUS
<1>10. g = [d \in C |-> SumOver(f, Part(k, M, d))]
  BY <1>8, <1>9
<1>11. SumOver(g, C) <= SumOver(f, S)
  BY <1>4, <1>5, <1>6, <1>7, <1>10, DaysWithin
<1>12. Bucket(y, m).payableAmount = SumOver(f, S)
  BY <1>1, <1>3 DEF Bucket, Entry
<1> QED BY <1>1, <1>2, <1>9, <1>11, <1>12

LEMMA OfflineDaysWithin ==
    ASSUME TypeInv, NEW m \in Int
    PROVE  SumOver([d \in DaysOf(m) |-> OfflineDailyJalali(m)[d].netAmount], DaysOf(m))
                <= OfflineBucket(m \div YearMonths, m).netAmount
<1>1. PICK f, k, C, M : /\ f = Nets /\ k = [s \in Sales |-> RowDay(sale[s].soldAt)]
                        /\ C = DaysOf(m) /\ M = SoldInMonth(m)
  OBVIOUS
<1>2. PICK y : y = m \div YearMonths
  OBVIOUS
<1>3. PICK S : S = {s \in UNION {SoldInMonth(i) : i \in y * YearMonths..((y + 1) * YearMonths - 1)} :
                        MonthOfDay(RowDay(sale[s].soldAt)) = m}
  OBVIOUS
<1>4. S \in SUBSET Sales /\ IsFiniteSet(S) /\ M \in SUBSET Sales
  BY <1>1, <1>3, RowsAssumption, FS_Subset DEF SoldInMonth
<1>5. f \in [Sales -> Int] /\ \A s \in S : f[s] \in Nat
  BY <1>1, <1>4, SaleFiguresTyped
<1>6. IsFiniteSet(C) /\ \A d \in C : MonthOfDay(d) = m
  BY <1>1, DaysInMonth
<1>7. \A s \in M : k[s] \in C => s \in S
  <2> SUFFICES ASSUME NEW s \in M, k[s] \in C PROVE s \in S
    OBVIOUS
  <2>1. m \in y * YearMonths..((y + 1) * YearMonths - 1)
    BY <1>2, DaysInMonth
  <2>2. s \in UNION {SoldInMonth(i) : i \in y * YearMonths..((y + 1) * YearMonths - 1)}
    BY <1>1, <2>1
  <2>3. k[s] = RowDay(sale[s].soldAt)
    BY <1>1, <1>4
  <2> QED BY <1>3, <1>6, <2>2, <2>3
<1>8. ASSUME NEW d \in C
      PROVE  OfflineDailyJalali(m)[d].netAmount = SumOver(f, Part(k, M, d))
  <2>1. Part(k, M, d) = SoldOnDay(m, d)
    BY <1>1, <1>4 DEF Part, SoldOnDay
  <2> QED BY <1>1, <2>1 DEF OfflineDailyJalali
<1>9. PICK g : g = [d \in C |-> OfflineDailyJalali(m)[d].netAmount]
  OBVIOUS
<1>10. g = [d \in C |-> SumOver(f, Part(k, M, d))]
  BY <1>8, <1>9
<1>11. SumOver(g, C) <= SumOver(f, S)
  BY <1>4, <1>5, <1>6, <1>7, <1>10, DaysWithin
<1>12. OfflineBucket(y, m).netAmount = SumOver(f, S)
  BY <1>1, <1>3 DEF OfflineBucket
<1> QED BY <1>1, <1>2, <1>9, <1>11, <1>12

LEMMA MonthsAgree ==
    ASSUME NEW m \in Int
    PROVE  MonthTotals(m).total = CombinedSummary(Min(MonthRange(m)), Max(MonthRange(m))).total
<1>1. PICK a, b \in Int : a <= b /\ MonthRange(m) = a..b
  BY MonthBounds
<1>2. Min(MonthRange(m)) = a /\ Max(MonthRange(m)) = b
  BY <1>1, RangeEnds
<1>3. InMonth(m) = PaidBetween(a, b) /\ SoldInMonth(m) = SoldBetween(a, b)
  BY <1>1 DEF InMonth, PaidBetween, SoldInMonth, SoldBetween
<1>4. MonthTotals(m).total = CombinedSummary(a, b).total
  BY <1>3 DEF MonthTotals, CombinedSummary, Entry
<1> QED BY <1>2, <1>4

LEMMA ReportsFit ==
    ASSUME TypeInv, TotalsMatchItems
    PROVE  ReportsAgree
<1>1. ASSUME NEW from \in Instants, NEW to \in Instants
      PROVE  LET summary == Summary(from, to)
                 combined == CombinedSummary(from, to)
                 channels == ByChannel(from, to)
                 products == ProductRows(from, to)
                 O == PaidBetween(from, to)
             IN  /\ summary.netProfit = SumOver([o \in Orders |-> Detail(o).netProfit], O)
                 /\ \A P \in SUBSET Variants : IsTopProducts(P, from, to) =>
                         LET best == SumOver([v \in DOMAIN products |-> products[v].revenue], P)
                         IN  /\ best <= summary.totalAmount
                             /\ P = DOMAIN products => best = summary.totalAmount
                 /\ LET days == Daily(from, to)
                    IN  summary.payableAmount =
                             SumOver([d \in DOMAIN days |-> days[d].payableAmount], DOMAIN days)
                 /\ summary.netProfit = combined.online.netProfit
                 /\ OfflineSummary(from, to).netProfit = combined.offline.netProfit
                 /\ combined.offline.netProfit =
                         SumOver([c \in DOMAIN channels |-> channels[c].netProfit], DOMAIN channels)
                 /\ \A o \in O : Financials(o).netProfit = Detail(o).netProfit
  <2>1. Summary(from, to).netProfit = SumOver([o \in Orders |-> Detail(o).netProfit], PaidBetween(from, to))
    BY DetailsAgree
  <2>2. PICK products, days, channels : /\ products = ProductRows(from, to) /\ days = Daily(from, to)
                                        /\ channels = ByChannel(from, to)
    OBVIOUS
  <2>3. ASSUME NEW P \in SUBSET Variants, IsTopProducts(P, from, to), NEW best,
               best = SumOver([v \in DOMAIN products |-> products[v].revenue], P)
        PROVE  /\ best <= Summary(from, to).totalAmount
               /\ P = DOMAIN products => best = Summary(from, to).totalAmount
    <3>1. P \in SUBSET DOMAIN products
      BY <2>2, <2>3 DEF IsTopProducts
    <3> QED BY <2>2, <2>3, <3>1, ProductsAgree
  <2>4. Summary(from, to).payableAmount = SumOver([d \in DOMAIN days |-> days[d].payableAmount], DOMAIN days)
    BY <2>2, DaysAgree
  <2>5. CombinedSummary(from, to).offline.netProfit =
            SumOver([c \in DOMAIN channels |-> channels[c].netProfit], DOMAIN channels)
    BY <2>2, ChannelsAgree
  <2>6. Summary(from, to).netProfit = CombinedSummary(from, to).online.netProfit
    BY DEF Summary, CombinedSummary, Entry
  <2>7. OfflineSummary(from, to).netProfit = CombinedSummary(from, to).offline.netProfit
    BY DEF OfflineSummary, CombinedSummary, Entry
  <2>8. \A o \in PaidBetween(from, to) : Financials(o).netProfit = Detail(o).netProfit
    BY DEF Financials, Detail, NetProfit
  <2>9. \A P \in SUBSET Variants : IsTopProducts(P, from, to) =>
            /\ SumOver([v \in DOMAIN products |-> products[v].revenue], P) <= Summary(from, to).totalAmount
            /\ P = DOMAIN products => SumOver([v \in DOMAIN products |-> products[v].revenue], P)
                                        = Summary(from, to).totalAmount
    BY <2>3
  <2> QED BY <2>1, <2>2, <2>4, <2>5, <2>6, <2>7, <2>8, <2>9
<1>2. ASSUME NEW m \in Int
      PROVE  /\ MonthTotals(m).total = CombinedSummary(Min(MonthRange(m)), Max(MonthRange(m))).total
             /\ \A d \in DaysOf(m) :
                    CombinedDailyJalali(m)[d].count =
                        DailyJalali(m)[d].ordersCount + OfflineDailyJalali(m)[d].salesCount
             /\ SumOver([d \in DaysOf(m) |-> OfflineDailyJalali(m)[d].netAmount], DaysOf(m))
                    <= OfflineBucket(m \div YearMonths, m).netAmount
             /\ SumOver([d \in DaysOf(m) |-> DailyJalali(m)[d].payableAmount], DaysOf(m))
                    <= Bucket(m \div YearMonths, m).payableAmount
  <2>1. \A d \in DaysOf(m) : CombinedDailyJalali(m)[d].count =
                                DailyJalali(m)[d].ordersCount + OfflineDailyJalali(m)[d].salesCount
    BY DEF CombinedDailyJalali, DailyJalali, OfflineDailyJalali
  <2>2. MonthTotals(m).total = CombinedSummary(Min(MonthRange(m)), Max(MonthRange(m))).total
    BY MonthsAgree
  <2>3. SumOver([d \in DaysOf(m) |-> OfflineDailyJalali(m)[d].netAmount], DaysOf(m))
            <= OfflineBucket(m \div YearMonths, m).netAmount
    BY OfflineDaysWithin
  <2>4. SumOver([d \in DaysOf(m) |-> DailyJalali(m)[d].payableAmount], DaysOf(m))
            <= Bucket(m \div YearMonths, m).payableAmount
    BY OnlineDaysWithin
  <2> QED BY <2>1, <2>2, <2>3, <2>4
<1>3. \A m \in 0..(Max(Instants) \div Day) : m \in Int
  OBVIOUS
<1> QED BY <1>1, <1>2, <1>3 DEF ReportsAgree

(* With one operation at a time the endpoints agree in every state: what   *)
(* was edited, deleted or sold before leaves the same figures in all the   *)
(* reports (report.service.ts, offline-sale.service.ts).                   *)
THEOREM ReportsAlwaysAgree ==
    ASSUME Serial
    PROVE  Spec => []ReportsAgree
<1>1. EditInv => ReportsAgree
  BY ReportsFit DEF EditInv
<1> QED BY <1>1, EditAlways, PTL

================================================================================
