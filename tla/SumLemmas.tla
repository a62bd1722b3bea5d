------------------------------ MODULE SumLemmas ------------------------------
(***************************************************************************)
(* Sums over finite sets, as the community modules define them: the        *)
(* equation that SumFunctionOnSet satisfies, and what it yields; the least *)
(* and greatest element of a set of numbers; and the powers of a base.     *)
(*                                                                        *)
(* SumFunctionOnSet is a recursive function over the subsets of a set, and *)
(* so are powers over the numbers. Their existence and what they compute   *)
(* are shown without an induction over predicates: a set of                *)
(* counterexamples has a least element in the order of strict inclusion    *)
(* (WFMin).                                                                *)
(***************************************************************************)
EXTENDS Integers, FiniteSets, FiniteSetsExt, FiniteSetTheorems, TLAPS

\* The least element of a collection of subsets of a finite set.
LEMMA LeastSubset ==
  ASSUME NEW S, IsFiniteSet(S), NEW C \in SUBSET SUBSET S, C # {}
  PROVE  \E s \in C : \A t \in C : t \subseteq s => t = s
<1>1. IsWellFoundedOn(StrictSubsetOrdering(S), SUBSET S)
  BY FS_StrictSubsetOrderingWellFounded, FS_FiniteSubsetsOfFinite
<1>2. C \subseteq SUBSET S
  OBVIOUS
<1>3. \E s \in C : \A t \in C : <<t, s>> \notin StrictSubsetOrdering(S)
  <2> HIDE DEF StrictSubsetOrdering
  <2> QED
    BY <1>1, <1>2, WFMin, Zenon
<1>4. ASSUME NEW s \in C, NEW t \in C, t \subseteq s, t # s
      PROVE  <<t, s>> \in StrictSubsetOrdering(S)
  BY <1>4 DEF StrictSubsetOrdering
<1> QED
  BY <1>3, <1>4

-----------------------------------------------------------------------------
(* The recursive function. *)

Some(s) == CHOOSE x \in s : TRUE
Term(f, g, s) == IF s = {} THEN 0 ELSE f[Some(s)] + g[s \ {Some(s)}]
Sums(f, D, g) == g = [s \in SUBSET D |-> Term(f, g, s)]

LEMMA SomeIn == \A s : s # {} => Some(s) \in s
BY DEF Some

LEMMA SumsUnique ==
  ASSUME NEW f, NEW D, IsFiniteSet(D), NEW g, NEW h, Sums(f, D, g), Sums(f, D, h)
  PROVE  g = h
<1> DEFINE C == {s \in SUBSET D : g[s] # h[s]}
<1>1. ASSUME C # {} PROVE FALSE
  <2>0. C \in SUBSET SUBSET D
    OBVIOUS
  <2>1. PICK s \in C : \A t \in C : t \subseteq s => t = s
    <3> HIDE DEF C
    <3> QED BY <1>1, <2>0, LeastSubset
  <2>2. s \in SUBSET D /\ g[s] # h[s]
    OBVIOUS
  <2>3. g[s] = Term(f, g, s) /\ h[s] = Term(f, h, s)
    BY <2>2 DEF Sums
  <2>4. s # {}
    BY <2>2, <2>3 DEF Term
  <2>5. Some(s) \in s
    BY <2>4, SomeIn
  <2>6. s \ {Some(s)} \notin C
    BY <2>1, <2>5
  <2>7. g[s \ {Some(s)}] = h[s \ {Some(s)}]
    BY <2>2, <2>6
  <2> QED
    BY <2>2, <2>3, <2>4, <2>7 DEF Term
<1>2. \A s \in SUBSET D : g[s] = h[s]
  BY <1>1
<1> QED
  BY <1>2 DEF Sums

LEMMA SumsRestrict ==
  ASSUME NEW f, NEW D, NEW g, Sums(f, D, g), NEW E \in SUBSET D
  PROVE  Sums(f, E, [s \in SUBSET E |-> g[s]])
<1> DEFINE h == [s \in SUBSET E |-> g[s]]
<1>1. ASSUME NEW s \in SUBSET E PROVE h[s] = Term(f, h, s)
  <2>1. h[s] = Term(f, g, s)
    BY DEF Sums
  <2>2. CASE s = {}
    BY <2>1, <2>2 DEF Term
  <2>3. CASE s # {}
    <3>1. s \ {Some(s)} \in SUBSET E
      OBVIOUS
    <3>2. h[s \ {Some(s)}] = g[s \ {Some(s)}]
      BY <3>1
    <3> QED
      BY <2>1, <2>3, <3>2 DEF Term
  <2> QED
    BY <2>2, <2>3
<1>2. h = [s \in SUBSET E |-> h[s]]
  OBVIOUS
<1> HIDE DEF h
<1>3. h = [s \in SUBSET E |-> Term(f, h, s)]
  BY <1>1, <1>2
<1>4. Sums(f, E, h)
  BY <1>3 DEF Sums
<1> QED
  BY <1>4 DEF h

\* The value of the function at the whole of its set.
Result(f, u) == (CHOOSE g : Sums(f, u, g))[u]

LEMMA SumsExist ==
  ASSUME NEW f, NEW D, IsFiniteSet(D)
  PROVE  \E g : Sums(f, D, g)
<1> DEFINE C == {s \in SUBSET D : ~ \E g : Sums(f, s, g)}
<1>1. ASSUME C # {} PROVE FALSE
  <2>0. C \in SUBSET SUBSET D
    OBVIOUS
  <2>1. PICK s \in C : \A t \in C : t \subseteq s => t = s
    <3> HIDE DEF C
    <3> QED BY <1>1, <2>0, LeastSubset
  <2>2. s \in SUBSET D /\ ~ \E g : Sums(f, s, g)
    OBVIOUS
  <2>3. \A t \in SUBSET s : t # s => \E g : Sums(f, t, g)
    BY <2>1, <2>2
  <2>4. \A t \in SUBSET s : IsFiniteSet(t)
    BY <2>2, FS_Subset
  <2>5. ASSUME NEW t \in SUBSET s, t # s, NEW u \in SUBSET t
        PROVE  (CHOOSE g : Sums(f, t, g))[u] = Result(f, u)
    <3> DEFINE G == CHOOSE g : Sums(f, t, g)
               H == CHOOSE g : Sums(f, u, g)
               R == [v \in SUBSET u |-> G[v]]
    <3>1. Sums(f, t, G)
      BY <2>3, <2>5
    <3>2. u # s /\ u \in SUBSET s
      BY <2>5
    <3>3. Sums(f, u, H)
      BY <2>3, <3>2
    <3>4. Sums(f, u, R)
      <4> HIDE DEF G
      <4> QED BY <3>1, SumsRestrict
    <3>5. R = H
      <4> HIDE DEF R, H
      <4> QED BY <2>4, <3>2, <3>3, <3>4, SumsUnique
    <3>6. R[u] = G[u]
      OBVIOUS
    <3> QED
      BY <3>5, <3>6 DEF Result
  <2>6. ASSUME NEW t \in SUBSET s, t # s, t # {}
        PROVE  Result(f, t) = f[Some(t)] + Result(f, t \ {Some(t)})
    <3> DEFINE G == CHOOSE g : Sums(f, t, g)
    <3>1. Sums(f, t, G)
      BY <2>3, <2>6
    <3>2. G[t] = Term(f, G, t)
      <4> HIDE DEF G
      <4> QED BY <3>1 DEF Sums
    <3>3. G[t \ {Some(t)}] = Result(f, t \ {Some(t)})
      BY <2>5, <2>6
    <3>4. G[t] = Result(f, t)
      BY DEF Result
    <3> HIDE DEF G
    <3> QED
      BY <2>6, <3>2, <3>3, <3>4 DEF Term
  <2>7. ASSUME {} # s PROVE Result(f, {}) = 0
    <3> DEFINE G == CHOOSE g : Sums(f, {}, g)
    <3>1. Sums(f, {}, G)
      BY <2>3, <2>7
    <3>2. G[{}] = Term(f, G, {})
      <4> HIDE DEF G
      <4> QED BY <3>1 DEF Sums
    <3> QED
      BY <3>2 DEF Result, Term
  <2> DEFINE val(t) == IF t = {} THEN 0
                       ELSE IF t = s THEN f[Some(s)] + Result(f, s \ {Some(s)})
                       ELSE Result(f, t)
             h == [t \in SUBSET s |-> val(t)]
  <2>8. ASSUME NEW t \in SUBSET s PROVE h[t] = Term(f, h, t)
    <3>0. h[t] = val(t)
      OBVIOUS
    <3>1. CASE t = {}
      BY <3>0, <3>1 DEF Term
    <3>2. CASE t # {}
      <4>1. Some(t) \in t
        BY <3>2, SomeIn
      <4>2. t \ {Some(t)} \in SUBSET s /\ t \ {Some(t)} # s
        BY <4>1
      <4>3. h[t \ {Some(t)}] = val(t \ {Some(t)})
        BY <4>2
      <4>4. val(t \ {Some(t)}) = Result(f, t \ {Some(t)})
        <5>1. CASE t \ {Some(t)} = {}
          <6>1. {} # s
            BY <4>2, <5>1
          <6> QED BY <2>7, <5>1, <6>1
        <5>2. CASE t \ {Some(t)} # {}
          BY <4>2, <5>2
        <5> QED BY <5>1, <5>2
      <4>5. val(t) = f[Some(t)] + Result(f, t \ {Some(t)})
        BY <2>6, <3>2
      <4> HIDE DEF val, h
      <4> QED
        BY <3>0, <3>2, <4>3, <4>4, <4>5 DEF Term
    <3> QED
      BY <3>1, <3>2
  <2>9. h = [t \in SUBSET s |-> h[t]]
    OBVIOUS
  <2> HIDE DEF h
  <2>10. h = [t \in SUBSET s |-> Term(f, h, t)]
    BY <2>8, <2>9
  <2> QED
    BY <2>2, <2>10 DEF Sums
<1> QED
  BY <1>1

LEMMA SumValue ==
  ASSUME NEW f, NEW D
  PROVE  SumFunctionOnSet(f, D) = Result(f, D)
BY DEF SumFunctionOnSet, FoldFunctionOnSet, MapThenFoldSet, Result, Sums, Term, Some

-----------------------------------------------------------------------------
(* What a sum is. *)

LEMMA SumEmpty ==
  ASSUME NEW f
  PROVE  SumFunctionOnSet(f, {}) = 0
<1>1. PICK g : Sums(f, {}, g)
  BY SumsExist, FS_EmptySet
<1> DEFINE G == CHOOSE h : Sums(f, {}, h)
<1>2. Sums(f, {}, G)
  BY <1>1
<1> HIDE DEF G
<1>3. G[{}] = 0
  BY <1>2 DEF Sums, Term
<1> QED
  BY <1>3, SumValue DEF Result, G

LEMMA SumUnfold ==
  ASSUME NEW f, NEW D, IsFiniteSet(D), D # {}
  PROVE  SumFunctionOnSet(f, D) = f[Some(D)] + SumFunctionOnSet(f, D \ {Some(D)})
<1> DEFINE E == D \ {Some(D)}
           G == CHOOSE g : Sums(f, D, g)
           H == CHOOSE g : Sums(f, E, g)
           R == [v \in SUBSET E |-> G[v]]
<1>0. E \in SUBSET D /\ IsFiniteSet(E)
  BY FS_Subset
<1>1. Sums(f, D, G) /\ Sums(f, E, H)
  <2> HIDE DEF E
  <2> QED BY <1>0, SumsExist
<1>2. Sums(f, E, R)
  <2> HIDE DEF G, E
  <2> QED BY <1>0, <1>1, SumsRestrict
<1>3. R = H
  <2> HIDE DEF R, H, E
  <2> QED BY <1>0, <1>1, <1>2, SumsUnique
<1>4. G[E] = H[E]
  BY <1>3
<1>5. G[D] = f[Some(D)] + G[E]
  <2> HIDE DEF G
  <2> QED BY <1>1 DEF Sums, Term
<1> HIDE DEF G, H, E
<1> QED
  BY <1>4, <1>5, SumValue DEF Result, G, H, E

\* Integers add up to an integer.
LEMMA SumType ==
  ASSUME NEW f, NEW D, IsFiniteSet(D), \A d \in D : f[d] \in Int
  PROVE  SumFunctionOnSet(f, D) \in Int
<1> DEFINE C == {s \in SUBSET D : SumFunctionOnSet(f, s) \notin Int}
<1>1. ASSUME C # {} PROVE FALSE
  <2>0. C \in SUBSET SUBSET D
    OBVIOUS
  <2>1. PICK s \in C : \A t \in C : t \subseteq s => t = s
    <3> HIDE DEF C
    <3> QED BY <1>1, <2>0, LeastSubset
  <2>2. s \in SUBSET D /\ IsFiniteSet(s) /\ SumFunctionOnSet(f, s) \notin Int
    BY FS_Subset
  <2>3. s # {}
    BY <2>2, SumEmpty
  <2>4. Some(s) \in s
    BY <2>3, SomeIn
  <2>5. SumFunctionOnSet(f, s \ {Some(s)}) \in Int
    BY <2>1, <2>2, <2>4
  <2> QED
    BY <2>2, <2>3, <2>4, <2>5, SumUnfold
<1>2. D \in SUBSET D
  OBVIOUS
<1> QED
  BY <1>1, <1>2

\* Any element may be taken out first.
LEMMA SumRemove ==
  ASSUME NEW f, NEW D, IsFiniteSet(D), \A d \in D : f[d] \in Int, NEW x \in D
  PROVE  SumFunctionOnSet(f, D) = f[x] + SumFunctionOnSet(f, D \ {x})
<1> DEFINE S(s) == SumFunctionOnSet(f, s)
           C == {s \in SUBSET D : \E y \in s : S(s) # f[y] + S(s \ {y})}
<1>0. \A s \in SUBSET D : IsFiniteSet(s) /\ S(s) \in Int
  BY FS_Subset, SumType
<1>1. ASSUME C # {} PROVE FALSE
  <2>0. C \in SUBSET SUBSET D
    OBVIOUS
  <2>1. PICK s \in C : \A t \in C : t \subseteq s => t = s
    <3> HIDE DEF C
    <3> QED BY <1>1, <2>0, LeastSubset
  <2>2. PICK y \in s : S(s) # f[y] + S(s \ {y})
    OBVIOUS
  <2>3. s \in SUBSET D
    OBVIOUS
  <2>4. ASSUME NEW t \in SUBSET s, t # s, NEW z \in t PROVE S(t) = f[z] + S(t \ {z})
    BY <2>1, <2>3, <2>4
  <2> DEFINE z == Some(s)
  <2>5. z \in s /\ S(s) = f[z] + S(s \ {z})
    BY <1>0, <2>3, SomeIn, SumUnfold
  <2>6. z # y
    BY <2>2, <2>5
  <2> HIDE DEF z, C, S
  <2>7. S(s \ {z}) = f[y] + S((s \ {z}) \ {y})
    BY <2>4, <2>5, <2>6
  <2>8. S(s \ {y}) = f[z] + S((s \ {y}) \ {z})
    BY <2>4, <2>5, <2>6
  <2>9. S((s \ {z}) \ {y}) = S((s \ {y}) \ {z})
    <3>1. (s \ {z}) \ {y} = (s \ {y}) \ {z}
      OBVIOUS
    <3> QED
      BY <3>1
  <2>10. S((s \ {y}) \ {z}) \in Int /\ f[y] \in Int /\ f[z] \in Int
    BY <1>0, <2>3, <2>5
  <2> QED
    BY <2>2, <2>5, <2>7, <2>8, <2>9, <2>10
<1>2. D \in SUBSET D
  OBVIOUS
<1> QED
  BY <1>1, <1>2

\* A new element adds its value.
LEMMA SumInsert ==
  ASSUME NEW f, NEW D, IsFiniteSet(D), \A d \in D : f[d] \in Int,
         NEW x, x \notin D, f[x] \in Int
  PROVE  SumFunctionOnSet(f, D \cup {x}) = f[x] + SumFunctionOnSet(f, D)
<1>1. IsFiniteSet(D \cup {x})
  BY FS_AddElement
<1>2. (D \cup {x}) \ {x} = D
  OBVIOUS
<1>3. \A d \in D \cup {x} : f[d] \in Int
  OBVIOUS
<1>4. x \in D \cup {x}
  OBVIOUS
<1> DEFINE E == D \cup {x}
<1> HIDE DEF E
<1>5. SumFunctionOnSet(f, E) = f[x] + SumFunctionOnSet(f, E \ {x})
  BY <1>1, <1>3, <1>4, SumRemove DEF E
<1> QED
  BY <1>2, <1>5 DEF E

\* A sum grows with its terms.
LEMMA SumMonotone ==
  ASSUME NEW f, NEW g, NEW D, IsFiniteSet(D),
         \A d \in D : f[d] \in Int /\ g[d] \in Int /\ f[d] =< g[d]
  PROVE  SumFunctionOnSet(f, D) =< SumFunctionOnSet(g, D)
<1> DEFINE F(s) == SumFunctionOnSet(f, s)
           G(s) == SumFunctionOnSet(g, s)
           C == {s \in SUBSET D : ~(F(s) =< G(s))}
<1>0. \A s \in SUBSET D : IsFiniteSet(s) /\ F(s) \in Int /\ G(s) \in Int
  BY FS_Subset, SumType
<1>1. ASSUME C # {} PROVE FALSE
  <2>0. C \in SUBSET SUBSET D
    OBVIOUS
  <2>1. PICK s \in C : \A t \in C : t \subseteq s => t = s
    <3> HIDE DEF C
    <3> QED BY <1>1, <2>0, LeastSubset
  <2>2. s \in SUBSET D /\ ~(F(s) =< G(s))
    OBVIOUS
  <2>3. s # {}
    BY <2>2, SumEmpty
  <2> DEFINE z == Some(s)
  <2>4. z \in s /\ F(s) = f[z] + F(s \ {z}) /\ G(s) = g[z] + G(s \ {z})
    BY <1>0, <2>2, <2>3, SomeIn, SumUnfold
  <2>5. s \ {z} \in SUBSET D /\ s \ {z} \notin C
    BY <2>1, <2>2, <2>4
  <2>6. F(s \ {z}) =< G(s \ {z})
    BY <2>5
  <2> HIDE DEF z, C, F, G
  <2>7. F(s \ {z}) \in Int /\ G(s \ {z}) \in Int /\ f[z] \in Int /\ g[z] \in Int /\ f[z] =< g[z]
    BY <1>0, <2>2, <2>4
  <2> QED
    BY <2>2, <2>4, <2>6, <2>7
<1>2. D \in SUBSET D
  OBVIOUS
<1> QED
  BY <1>1, <1>2

\* Nothing adds up to nothing.
LEMMA SumZero ==
  ASSUME NEW f, NEW D, IsFiniteSet(D), \A d \in D : f[d] = 0
  PROVE  SumFunctionOnSet(f, D) = 0
<1> DEFINE C == {s \in SUBSET D : SumFunctionOnSet(f, s) # 0}
<1>1. ASSUME C # {} PROVE FALSE
  <2>0. C \in SUBSET SUBSET D
    OBVIOUS
  <2>1. PICK s \in C : \A t \in C : t \subseteq s => t = s
    <3> HIDE DEF C
    <3> QED BY <1>1, <2>0, LeastSubset
  <2>2. s \in SUBSET D /\ IsFiniteSet(s) /\ SumFunctionOnSet(f, s) # 0
    BY FS_Subset
  <2>3. s # {}
    BY <2>2, SumEmpty
  <2>4. Some(s) \in s
    BY <2>3, SomeIn
  <2>5. SumFunctionOnSet(f, s \ {Some(s)}) = 0
    BY <2>1, <2>2, <2>4
  <2> QED
    BY <2>2, <2>3, <2>4, <2>5, SumUnfold
<1>2. D \in SUBSET D
  OBVIOUS
<1> QED
  BY <1>1, <1>2

\* A sum is a matter of its terms.
LEMMA SumEqual ==
  ASSUME NEW f, NEW g, NEW D, IsFiniteSet(D), \A d \in D : f[d] \in Int /\ f[d] = g[d]
  PROVE  SumFunctionOnSet(f, D) = SumFunctionOnSet(g, D)
<1>1. /\ SumFunctionOnSet(f, D) =< SumFunctionOnSet(g, D)
      /\ SumFunctionOnSet(g, D) =< SumFunctionOnSet(f, D)
  BY SumMonotone
<1>2. SumFunctionOnSet(f, D) \in Int /\ SumFunctionOnSet(g, D) \in Int
  BY SumType
<1> QED
  BY <1>1, <1>2

\* The change of one term is the change of the sum.
LEMMA SumChange ==
  ASSUME NEW f, NEW g, NEW D, IsFiniteSet(D), \A d \in D : f[d] \in Int /\ g[d] \in Int,
         NEW x \in D, \A d \in D \ {x} : f[d] = g[d]
  PROVE  SumFunctionOnSet(g, D) = SumFunctionOnSet(f, D) - f[x] + g[x]
<1> DEFINE E == D \ {x}
<1>1. IsFiniteSet(E) /\ \A d \in E : f[d] \in Int /\ f[d] = g[d]
  BY FS_Subset
<1>2. SumFunctionOnSet(f, E) = SumFunctionOnSet(g, E) /\ SumFunctionOnSet(f, E) \in Int
  <2> HIDE DEF E
  <2> QED BY <1>1, SumEqual, SumType
<1>3. /\ SumFunctionOnSet(f, D) = f[x] + SumFunctionOnSet(f, E)
      /\ SumFunctionOnSet(g, D) = g[x] + SumFunctionOnSet(g, E)
  BY SumRemove
<1> QED
  BY <1>2, <1>3

\* A sum is the sum of a part and of the rest.
LEMMA SumSplit ==
  ASSUME NEW f, NEW D, IsFiniteSet(D), \A d \in D : f[d] \in Int, NEW S \in SUBSET D
  PROVE  SumFunctionOnSet(f, D) = SumFunctionOnSet(f, S) + SumFunctionOnSet(f, D \ S)
<1> DEFINE rest == D \ S
           Splits(s) == SumFunctionOnSet(f, rest \cup s)
                          = SumFunctionOnSet(f, s) + SumFunctionOnSet(f, rest)
           C == {s \in SUBSET S : ~Splits(s)}
<1>1. IsFiniteSet(S) /\ IsFiniteSet(rest) /\ rest \subseteq D /\ S \cap rest = {}
  BY FS_Subset
<1>2. \A s \in SUBSET S : /\ IsFiniteSet(s) /\ IsFiniteSet(rest \cup s)
                          /\ SumFunctionOnSet(f, s) \in Int
  <2>1. \A s \in SUBSET S : IsFiniteSet(s) /\ IsFiniteSet(rest \cup s)
    BY <1>1, FS_Subset
  <2> QED BY <2>1, SumType
<1>3. SumFunctionOnSet(f, rest) \in Int
  BY <1>1, SumType
<1> HIDE DEF rest
<1>4. ASSUME C # {} PROVE FALSE
  <2>0. C \in SUBSET SUBSET S
    OBVIOUS
  <2>1. PICK s \in C : \A t \in C : t \subseteq s => t = s
    <3> HIDE DEF C
    <3> QED BY <1>1, <1>4, <2>0, LeastSubset
  <2>2. s \in SUBSET S /\ ~Splits(s)
    OBVIOUS
  <2>3. CASE s = {}
    <3>1. rest \cup s = rest
      BY <2>3
    <3> QED BY <2>2, <2>3, <3>1, <1>3, SumEmpty
  <2>4. CASE s # {}
    <3>1. PICK x \in s : TRUE
      BY <2>4
    <3> DEFINE t == s \ {x}
    <3>2. t \in SUBSET S /\ t \subseteq s /\ t # s /\ x \notin t /\ x \notin rest
      BY <1>1, <2>2, <3>1
    <3>3. Splits(t)
      <4> HIDE DEF t, Splits
      <4> QED BY <2>1, <3>2 DEF C
    <3>4. f[x] \in Int /\ \A d \in rest \cup s : f[d] \in Int
      BY <1>1, <2>2, <3>1
    <3>5. SumFunctionOnSet(f, t \cup {x}) = f[x] + SumFunctionOnSet(f, t)
      BY <1>2, <3>2, <3>4, SumInsert
    <3>6. SumFunctionOnSet(f, (rest \cup t) \cup {x}) = f[x] + SumFunctionOnSet(f, rest \cup t)
      <4>1. x \notin rest \cup t /\ IsFiniteSet(rest \cup t) /\ \A d \in rest \cup t : f[d] \in Int
        BY <1>2, <3>2, <3>4
      <4> HIDE DEF t
      <4> QED BY <3>4, <4>1, SumInsert
    <3>7. t \cup {x} = s /\ (rest \cup t) \cup {x} = rest \cup s
      BY <3>1
    <3>8. SumFunctionOnSet(f, s) = f[x] + SumFunctionOnSet(f, t)
      BY <3>5, <3>7
    <3>9. SumFunctionOnSet(f, rest \cup s) = f[x] + SumFunctionOnSet(f, rest \cup t)
      BY <3>6, <3>7
    <3>10. SumFunctionOnSet(f, t) \in Int
      BY <1>2, <3>2
    <3> HIDE DEF t
    <3>11. SumFunctionOnSet(f, rest \cup s) = SumFunctionOnSet(f, s) + SumFunctionOnSet(f, rest)
      BY <1>3, <3>3, <3>4, <3>8, <3>9, <3>10
    <3> QED BY <2>2, <3>11
  <2> QED BY <2>3, <2>4
<1>5. rest \cup S = D
  BY DEF rest
<1> QED
  BY <1>4, <1>5 DEF rest

\* Terms that are not negative do not exceed their sum.
LEMMA SumCovers ==
  ASSUME NEW f, NEW D, IsFiniteSet(D), \A d \in D : f[d] \in Nat
  PROVE  /\ SumFunctionOnSet(f, D) \in Nat
         /\ \A x \in D : f[x] =< SumFunctionOnSet(f, D)
<1> DEFINE C == {s \in SUBSET D : SumFunctionOnSet(f, s) \notin Nat}
<1>1. ASSUME C # {} PROVE FALSE
  <2>0. C \in SUBSET SUBSET D
    OBVIOUS
  <2>1. PICK s \in C : \A t \in C : t \subseteq s => t = s
    <3> HIDE DEF C
    <3> QED BY <1>1, <2>0, LeastSubset
  <2>2. s \in SUBSET D /\ IsFiniteSet(s) /\ SumFunctionOnSet(f, s) \notin Nat
    BY FS_Subset
  <2>3. s # {}
    BY <2>2, SumEmpty
  <2>4. Some(s) \in s
    BY <2>3, SomeIn
  <2>5. SumFunctionOnSet(f, s \ {Some(s)}) \in Nat
    BY <2>1, <2>2, <2>4
  <2> QED
    BY <2>2, <2>3, <2>4, <2>5, SumUnfold
<1>2. \A s \in SUBSET D : SumFunctionOnSet(f, s) \in Nat
  BY <1>1
<1>3. ASSUME NEW x \in D PROVE f[x] =< SumFunctionOnSet(f, D)
  <2>1. SumFunctionOnSet(f, D) = f[x] + SumFunctionOnSet(f, D \ {x})
    BY SumRemove
  <2>2. SumFunctionOnSet(f, D \ {x}) \in Nat
    BY <1>2
  <2> QED
    BY <2>1, <2>2
<1> QED
  BY <1>2, <1>3

-----------------------------------------------------------------------------
(* The greatest element, by the same induction. *)

LEMMA GreatestOfSubsets ==
  ASSUME NEW D, IsFiniteSet(D), \A x \in D : x \in Int
  PROVE  \A s \in SUBSET D : s # {} => \E x \in s : \A y \in s : x >= y
<1> DEFINE Greatest(s) == \E x \in s : \A y \in s : x >= y
           C == {s \in SUBSET D : ~ (s # {} => Greatest(s))}
<1>1. ASSUME C # {} PROVE FALSE
  <2>0. C \in SUBSET SUBSET D
    OBVIOUS
  <2>1. PICK s \in C : \A t \in C : t \subseteq s => t = s
    <3> HIDE DEF C
    <3> QED BY <1>1, <2>0, LeastSubset
  <2>2. s \in SUBSET D /\ s # {} /\ ~ Greatest(s)
    OBVIOUS
  <2>3. PICK x \in s : TRUE
    BY <2>2
  <2> DEFINE t == s \ {x}
  <2>4. t \in SUBSET D /\ t \subseteq s /\ t # s
    BY <2>2, <2>3
  <2>5. t \notin C
    <3> HIDE DEF C, t
    <3> QED BY <2>1, <2>4
  <2>6. CASE t = {}
    <3>1. \A y \in s : x >= y
      BY <2>2, <2>6
    <3> QED BY <2>2, <3>1
  <2>7. CASE t # {}
    <3>0. Greatest(t)
      BY <2>4, <2>5, <2>7
    <3>1. PICK y \in t : \A z \in t : y >= z
      BY <3>0
    <3>2. x \in Int /\ y \in Int /\ y \in s
      BY <2>2, <2>3
    <3>3. CASE x >= y
      <4>1. \A z \in s : x >= z
        BY <2>2, <3>1, <3>2, <3>3
      <4> QED BY <2>2, <4>1
    <3>4. CASE ~(x >= y)
      <4>1. \A z \in s : y >= z
        BY <2>2, <3>1, <3>2, <3>4
      <4> QED BY <2>2, <3>2, <4>1
    <3> QED BY <3>3, <3>4
  <2> QED BY <2>6, <2>7
<1> QED
  BY <1>1

LEMMA GreatestExists ==
  ASSUME NEW D, IsFiniteSet(D), D # {}, D \subseteq Int
  PROVE  Max(D) \in D /\ \A x \in D : Max(D) >= x
<1>1. \E x \in D : \A y \in D : x >= y
  BY GreatestOfSubsets
<1> QED
  BY <1>1 DEF Max

\* A set of numbers that is not empty has a least one.
LEMMA LeastNat ==
  ASSUME NEW C \in SUBSET Nat, C # {}
  PROVE  \E n \in C : \A m \in C : n =< m
<1>1. PICK c \in C : TRUE
  OBVIOUS
<1> DEFINE D == {m \in C : m =< c}
           Upto(m) == 0 .. m
           F == {Upto(m) : m \in D}
           E == 0 .. c
<1>2. IsFiniteSet(E)
  <2>1. c \in Int /\ 0 \in Int
    OBVIOUS
  <2> QED BY <2>1, FS_Interval
<1>3. F \in SUBSET SUBSET E /\ F # {}
  <2>1. c \in D
    OBVIOUS
  <2>2. ASSUME NEW m \in D PROVE Upto(m) \subseteq 0 .. c
    <3>1. m \in Nat /\ m =< c /\ c \in Nat
      OBVIOUS
    <3> QED BY <3>1
  <2> HIDE DEF D, Upto
  <2>3. F \subseteq SUBSET E /\ Upto(c) \in F
    BY <2>1, <2>2
  <2>4. F # {}
    BY <2>3
  <2> HIDE DEF F
  <2> QED BY <2>3, <2>4
<1>4. PICK s \in F : \A t \in F : t \subseteq s => t = s
  <2> HIDE DEF E, F
  <2> QED BY <1>2, <1>3, LeastSubset
<1>5. PICK n \in D : s = Upto(n)
  OBVIOUS
<1>6. ASSUME NEW m \in C, m < n PROVE FALSE
  <2>1. m \in D
    BY <1>5, <1>6
  <2>2. Upto(m) \subseteq s /\ n \in s /\ n \notin Upto(m)
    BY <1>5, <1>6
  <2>3. Upto(m) \in F
    BY <2>1
  <2> HIDE DEF F, D, Upto
  <2> QED BY <1>4, <2>2, <2>3
<1>7. n \in C /\ n \in Nat
  BY <1>5
<1> QED BY <1>6, <1>7

-----------------------------------------------------------------------------
(* The powers of a base, as a recursive function: a least exponent at which  *)
(* there were none, or at which a law fails, would not be zero, and the one  *)
(* before it would be no such exponent.                                      *)

PowersUpTo(b, m, f) ==
  f \in [0 .. m -> Nat \ {0}] /\ f[0] = 1 /\ \A i \in 1 .. m : f[i] = b * f[i - 1]
ArePowers(b, t) ==
  t \in [Nat -> Nat \ {0}] /\ t[0] = 1 /\ \A n \in Nat : t[n + 1] = b * t[n]

LEMMA PowersExist ==
  ASSUME NEW b \in Nat \ {0}
  PROVE  \A m \in Nat : \E f : PowersUpTo(b, m, f)
<1> DEFINE C == {m \in Nat : ~ \E f : PowersUpTo(b, m, f)}
<1>1. ASSUME C # {} PROVE FALSE
  <2>1. C \in SUBSET Nat
    OBVIOUS
  <2>2. PICK m \in C : \A k \in C : m =< k
    <3> HIDE DEF C
    <3> QED BY <1>1, <2>1, LeastNat
  <2>3. m \in Nat
    OBVIOUS
  <2>4. CASE m = 0
    <3>1. PowersUpTo(b, 0, [i \in 0 .. 0 |-> 1])
      BY DEF PowersUpTo
    <3> QED BY <2>4, <3>1
  <2>5. CASE m # 0
    <3>1. m - 1 \in Nat /\ m - 1 \notin C
      <4>1. m - 1 \in Nat /\ ~(m =< m - 1)
        BY <2>3, <2>5
      <4> HIDE DEF C
      <4> QED BY <2>2, <4>1
    <3>2. PICK f : PowersUpTo(b, m - 1, f)
      BY <3>1
    <3> DEFINE g == [i \in 0 .. m |-> IF i = m THEN b * f[m - 1] ELSE f[i]]
    <3>3. f \in [0 .. m - 1 -> Nat \ {0}] /\ f[0] = 1 /\ \A i \in 1 .. m - 1 : f[i] = b * f[i - 1]
      BY <3>2 DEF PowersUpTo
    <3>4. g \in [0 .. m -> Nat \ {0}]
      BY <2>3, <2>5, <3>3
    <3>5. g[0] = 1
      BY <2>3, <2>5, <3>3
    <3>6. \A i \in 1 .. m : g[i] = b * g[i - 1]
      <4> SUFFICES ASSUME NEW i \in 1 .. m PROVE g[i] = b * g[i - 1]
        OBVIOUS
      <4>1. g[i - 1] = f[i - 1]
        BY <2>3
      <4>2. CASE i = m
        BY <2>3, <4>1, <4>2
      <4>3. CASE i # m
        BY <2>3, <3>3, <4>1, <4>3
      <4> QED BY <4>2, <4>3
    <3> HIDE DEF g
    <3> QED BY <3>4, <3>5, <3>6 DEF PowersUpTo
  <2> QED BY <2>4, <2>5
<1> QED BY <1>1

LEMMA PowersAgree ==
  ASSUME NEW b \in Nat \ {0}, NEW m \in Nat, NEW k \in Nat, NEW f, NEW g, PowersUpTo(b, m, f), PowersUpTo(b, k, g)
  PROVE  \A i \in Nat : i =< m /\ i =< k => f[i] = g[i]
<1> DEFINE C == {i \in Nat : i =< m /\ i =< k /\ f[i] # g[i]}
<1>1. ASSUME C # {} PROVE FALSE
  <2>1. C \in SUBSET Nat
    OBVIOUS
  <2>2. PICK i \in C : \A j \in C : i =< j
    <3> HIDE DEF C
    <3> QED BY <1>1, <2>1, LeastNat
  <2>3. i \in Nat /\ i =< m /\ i =< k /\ f[i] # g[i]
    OBVIOUS
  <2>4. i # 0
    BY <2>3 DEF PowersUpTo
  <2>5. i - 1 \in Nat /\ f[i - 1] = g[i - 1]
    <3>1. i - 1 \in Nat /\ i - 1 =< m /\ i - 1 =< k /\ ~(i =< i - 1)
      BY <2>3, <2>4
    <3> HIDE DEF C
    <3>2. i - 1 \notin C
      BY <2>2, <3>1
    <3> QED BY <3>1, <3>2 DEF C
  <2>6. f[i] = b * f[i - 1] /\ g[i] = b * g[i - 1]
    BY <2>3, <2>4 DEF PowersUpTo
  <2> QED BY <2>3, <2>5, <2>6
<1> QED BY <1>1

LEMMA PowersUnfold ==
  ASSUME NEW b \in Nat \ {0}, NEW t,
         t = CHOOSE f : f = [n \in Nat |-> IF n = 0 THEN 1 ELSE b * f[n - 1]]
  PROVE  ArePowers(b, t)
<1> DEFINE Unfolds(f) == f = [n \in Nat |-> IF n = 0 THEN 1 ELSE b * f[n - 1]]
           P(m) == CHOOSE f : PowersUpTo(b, m, f)
           T == [n \in Nat |-> P(n)[n]]
<1>1. \A m \in Nat : PowersUpTo(b, m, P(m))
  BY PowersExist
<1> HIDE DEF P
<1>2. T[0] = 1 /\ \A n \in Nat : n # 0 => T[n] = b * T[n - 1]
  <2>1. T[0] = 1
    BY <1>1 DEF PowersUpTo
  <2>2. ASSUME NEW n \in Nat, n # 0 PROVE T[n] = b * T[n - 1]
    <3>1. n - 1 \in Nat /\ n \in 1 .. n /\ n - 1 =< n /\ n - 1 =< n - 1
      BY <2>2
    <3>2. PowersUpTo(b, n, P(n)) /\ PowersUpTo(b, n - 1, P(n - 1))
      BY <1>1, <3>1
    <3>3. P(n)[n] = b * P(n)[n - 1]
      BY <3>1, <3>2 DEF PowersUpTo
    <3>4. P(n)[n - 1] = P(n - 1)[n - 1]
      BY <3>1, <3>2, PowersAgree
    <3> QED BY <3>1, <3>3, <3>4
  <2> QED BY <2>1, <2>2
<1>3. Unfolds(T)
  <2> DEFINE U == [n \in Nat |-> IF n = 0 THEN 1 ELSE b * T[n - 1]]
  <2>1. \A n \in Nat : T[n] = U[n]
    <3> HIDE DEF T
    <3> QED BY <1>2
  <2>2. T = [n \in Nat |-> T[n]] /\ U = [n \in Nat |-> U[n]]
    OBVIOUS
  <2> HIDE DEF T
  <2> QED BY <2>1, <2>2
<1>4. Unfolds(t)
  <2> HIDE DEF T
  <2> QED BY <1>3
<1>5. DOMAIN t = Nat /\ t = [n \in Nat |-> t[n]]
  BY <1>4
<1>6. t[0] = 1 /\ \A n \in Nat : n # 0 => t[n] = b * t[n - 1]
  BY <1>4
<1> DEFINE C == {n \in Nat : t[n] \notin Nat \ {0}}
<1>7. ASSUME C # {} PROVE FALSE
  <2>1. C \in SUBSET Nat
    OBVIOUS
  <2>2. PICK n \in C : \A k \in C : n =< k
    <3> HIDE DEF C
    <3> QED BY <1>7, <2>1, LeastNat
  <2>3. n \in Nat /\ t[n] \notin Nat \ {0}
    OBVIOUS
  <2>4. n # 0
    BY <1>6, <2>3
  <2>5. n - 1 \in Nat /\ ~(n =< n - 1)
    BY <2>3, <2>4
  <2>6. t[n - 1] \in Nat \ {0}
    <3> HIDE DEF C
    <3>1. n - 1 \notin C
      BY <2>2, <2>5
    <3> QED BY <2>5, <3>1 DEF C
  <2> QED BY <1>6, <2>3, <2>4, <2>6
<1>8. \A n \in Nat : t[n] \in Nat \ {0}
  BY <1>7
<1>9. ASSUME NEW n \in Nat PROVE t[n + 1] = b * t[n]
  <2>1. n + 1 \in Nat /\ n + 1 # 0 /\ (n + 1) - 1 = n
    OBVIOUS
  <2> QED BY <1>6, <2>1
<1> HIDE DEF Unfolds
<1> QED BY <1>5, <1>6, <1>8, <1>9 DEF ArePowers

LEMMA PowersOfSum ==
  ASSUME NEW b \in Nat \ {0}, NEW t, ArePowers(b, t)
  PROVE  \A m, n \in Nat : t[m + n] = t[m] * t[n]
<1> SUFFICES ASSUME NEW m \in Nat PROVE \A n \in Nat : t[m + n] = t[m] * t[n]
  OBVIOUS
<1> DEFINE C == {n \in Nat : t[m + n] # t[m] * t[n]}
<1>1. ASSUME C # {} PROVE FALSE
  <2>1. C \in SUBSET Nat
    OBVIOUS
  <2>2. PICK n \in C : \A k \in C : n =< k
    <3> HIDE DEF C
    <3> QED BY <1>1, <2>1, LeastNat
  <2>3. n \in Nat /\ t[m + n] # t[m] * t[n] /\ t[m] \in Nat
    BY DEF ArePowers
  <2>4. n # 0
    <3>1. t[m] * 1 = t[m] /\ m + 0 = m
      BY <2>3
    <3> QED BY <2>3, <3>1 DEF ArePowers
  <2>5. n - 1 \in Nat /\ ~(n =< n - 1) /\ (m + (n - 1)) + 1 = m + n /\ (n - 1) + 1 = n
        /\ m + (n - 1) \in Nat
    BY <2>3, <2>4
  <2>6. t[m + (n - 1)] = t[m] * t[n - 1]
    <3> HIDE DEF C
    <3>1. n - 1 \notin C
      BY <2>2, <2>5
    <3> QED BY <2>5, <3>1 DEF C
  <2>7. t[m + n] = b * t[m + (n - 1)] /\ t[n] = b * t[n - 1]
    <3>1. t[(m + (n - 1)) + 1] = b * t[m + (n - 1)] /\ t[(n - 1) + 1] = b * t[n - 1]
      BY <2>5 DEF ArePowers
    <3> QED BY <2>5, <3>1
  <2>8. t[n - 1] \in Nat
    BY <2>5 DEF ArePowers
  <2>9. \A x, y \in Nat : b * (x * y) = x * (b * y)
    OBVIOUS
  <2> QED BY <2>3, <2>6, <2>7, <2>8, <2>9
<1> QED BY <1>1

LEMMA PowersGrow ==
  ASSUME NEW b \in Nat \ {0}, NEW t, ArePowers(b, t)
  PROVE  \A m, n \in Nat : m =< n => t[m] =< t[n]
<1> SUFFICES ASSUME NEW m \in Nat, NEW n \in Nat, m =< n PROVE t[m] =< t[n]
  OBVIOUS
<1>1. n - m \in Nat /\ m + (n - m) = n
  OBVIOUS
<1>2. t[m + (n - m)] = t[m] * t[n - m]
  BY <1>1, PowersOfSum
<1>3. t[m] \in Nat \ {0} /\ t[n - m] \in Nat \ {0}
  BY <1>1 DEF ArePowers
<1>4. \A x, y \in Nat \ {0} : x =< x * y
  OBVIOUS
<1> QED BY <1>1, <1>2, <1>3, <1>4
=============================================================================
