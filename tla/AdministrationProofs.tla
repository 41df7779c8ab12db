------------------------- MODULE AdministrationProofs -----------------------
(* Theorems about the services of Administration, each for any values of its *)
(* constants, and about Directory: the types, one account per address, and   *)
(* permissions within the tenant, for any tenants, addresses, users and      *)
(* handlers; and to whom tokens are issued, where a single handler serves    *)
(* the requests.                                                             *)
EXTENDS Administration, Directory, Sequences, Functions, FiniteSetTheorems, TLAPS

----------------------------------------------------------------------------
(* Least counterexamples, and the sums that are made of them *)

(* A collection of subsets of a finite set, if there are any, has a minimal  *)
(* one: a least counterexample, of which proofs by induction on finite sets  *)
(* are made.                                                                 *)
LEMMA MinimalSet ==
    ASSUME NEW S, IsFiniteSet(S), NEW C \in SUBSET SUBSET S, C # {}
    PROVE \E T \in C : \A U \in C : U \subseteq T => U = T
<1>1. IsWellFoundedOn(StrictSubsetOrdering(S), FiniteSubsetsOf(S))
    BY FS_StrictSubsetOrderingWellFounded
<1>2. C \subseteq FiniteSubsetsOf(S)
    BY FS_FiniteSubsetsOfFinite
<1>3. PICK T \in C : \A U \in C : <<U, T>> \notin StrictSubsetOrdering(S)
    BY <1>1, <1>2, WFMin
<1>4. ASSUME NEW U \in C, U \subseteq T, U # T PROVE FALSE
    <2>1. <<U, T>> \in (SUBSET S) \X (SUBSET S)
        OBVIOUS
    <2> QED
        BY <2>1, <1>3, <1>4 DEF StrictSubsetOrdering
<1> QED
    BY <1>4, <1>3

(* What holds of the empty set, and is kept by one more element, holds of a  *)
(* finite set.                                                               *)
LEMMA SetInduction ==
    ASSUME NEW S, IsFiniteSet(S), NEW C, {} \in C,
           \A T \in SUBSET S : \A x \in S \ T : T \in C => T \cup {x} \in C
    PROVE S \in C
<1> SUFFICES ASSUME S \notin C PROVE FALSE
    OBVIOUS
<1> DEFINE D == {U \in SUBSET S : S \ U \in C}
<1>1. S \in D
    <2>1. S \ S = {}
        OBVIOUS
    <2> QED
        BY <2>1
<1>0. D \in SUBSET SUBSET S
    OBVIOUS
<1>2. PICK T \in D : \A U \in D : U \subseteq T => U = T
    <2> HIDE DEF D
    <2> QED
        BY <1>0, <1>1, MinimalSet
<1>7. T \in SUBSET S /\ S \ T \in C
    BY <1>2
<1>3. T # {}
    <2>1. S \ {} = S
        OBVIOUS
    <2> QED
        BY <2>1, <1>7
<1>4. PICK x \in T : TRUE
    BY <1>3
<1>5. S \ (T \ {x}) = (S \ T) \cup {x}
    BY <1>7
<1>6. S \ (T \ {x}) \in C
    BY <1>5, <1>7
<1>8. T \ {x} \in D
    BY <1>6, <1>7
<1>9. T \ {x} # T
    BY <1>4
<1> HIDE DEF D
<1> QED
    BY <1>8, <1>9, <1>2

(* The equation that SumFunctionOnSet's recursion solves.                    *)
IsSum(g, f, S) ==
    g = [s \in SUBSET S |-> IF s = {} THEN 0
                            ELSE LET x == CHOOSE x \in s : TRUE IN f[x] + g[s \ {x}]]

FirstOf(s) == CHOOSE x \in s : TRUE

(* What a sum is defined as.                                                 *)
LEMMA SumIs ==
    ASSUME NEW f, NEW S
    PROVE SumFunctionOnSet(f, S) = (CHOOSE g : IsSum(g, f, S))[S]
    BY DEF SumFunctionOnSet, FoldFunctionOnSet, MapThenFoldSet, IsSum

(* There is an element to take first.                                        *)
LEMMA FirstIsIn == ASSUME NEW s, s # {} PROVE FirstOf(s) \in s
    BY DEF FirstOf

(* A solution adds the first element to the sum of the rest.                 *)
LEMMA SumStep ==
    ASSUME NEW f, NEW S, NEW g, IsSum(g, f, S), NEW s \in SUBSET S, s # {}
    PROVE  g[s] = f[FirstOf(s)] + g[s \ {FirstOf(s)}]
    BY DEF IsSum, FirstOf

(* A solution is 0 for nothing.                                              *)
LEMMA SumBase ==
    ASSUME NEW f, NEW S, NEW g, IsSum(g, f, S)
    PROVE  g[{}] = 0
    BY DEF IsSum

(* A solution for a set is one for its subsets.                              *)
LEMMA SumRestricts ==
    ASSUME NEW f, NEW S, NEW g, IsSum(g, f, S), NEW T \in SUBSET S
    PROVE  IsSum([s \in SUBSET T |-> g[s]], f, T)
<1> DEFINE h == [s \in SUBSET T |-> g[s]]
<1> DEFINE k == [s \in SUBSET T |-> IF s = {} THEN 0
                            ELSE LET x == CHOOSE x \in s : TRUE IN f[x] + h[s \ {x}]]
<1>1. ASSUME NEW s \in SUBSET T PROVE h[s] = k[s]
    <2>1. s \in SUBSET S
        OBVIOUS
    <2>2. CASE s = {}
        <3>1. g[{}] = 0
            BY SumBase
        <3>2. h[s] = 0
            BY <2>2, <3>1
        <3> QED
            BY <2>2, <3>2
    <2>3. CASE s # {}
        <3>1. g[s] = f[FirstOf(s)] + g[s \ {FirstOf(s)}]
            <4> HIDE DEF h, k
            <4>1. IsSum(g, f, S)
                OBVIOUS
            <4> QED
                BY ONLY <4>1, <2>1, <2>3 DEF IsSum, FirstOf
        <3>2. s \ {FirstOf(s)} \in SUBSET T
            OBVIOUS
        <3>3. h[s] = f[FirstOf(s)] + h[s \ {FirstOf(s)}]
            BY <3>1, <3>2
        <3> QED
            BY <2>3, <3>3 DEF FirstOf
    <2> QED
        BY <2>2, <2>3
<1>2. h = k
    BY <1>1
<1> QED
    BY <1>2 DEF IsSum

(* There is no other solution.                                               *)
LEMMA SumUnique ==
    ASSUME NEW f, NEW S, IsFiniteSet(S), NEW g, IsSum(g, f, S), NEW h, IsSum(h, f, S)
    PROVE  g = h
<1> DEFINE C == {s \in SUBSET S : g[s] # h[s]}
<1>1. C = {}
    <2> SUFFICES ASSUME C # {} PROVE FALSE
        OBVIOUS
    <2>0. C \in SUBSET SUBSET S
        OBVIOUS
    <2>1. PICK s \in C : \A t \in C : t \subseteq s => t = s
        <3> HIDE DEF C
        <3> QED
            BY <2>0, MinimalSet
    <2>2. s \in SUBSET S /\ g[s] # h[s]
        BY <2>1
    <2>3. s # {}
        BY <2>2, SumBase
    <2>4. s \ {FirstOf(s)} \in SUBSET S /\ FirstOf(s) \in s
        BY <2>2, <2>3, FirstIsIn
    <2>5. s \ {FirstOf(s)} \notin C
        <3> HIDE DEF C
        <3> QED
            BY <2>1, <2>4
    <2>6. g[s \ {FirstOf(s)}] = h[s \ {FirstOf(s)}]
        BY <2>4, <2>5
    <2>7. g[s] = f[FirstOf(s)] + g[s \ {FirstOf(s)}]
        BY <2>2, <2>3, SumStep
    <2>8. h[s] = f[FirstOf(s)] + h[s \ {FirstOf(s)}]
        BY <2>2, <2>3, SumStep
    <2> QED
        BY <2>2, <2>6, <2>7, <2>8
<1>2. \A s \in SUBSET S : g[s] = h[s]
    BY <1>1
<1>3. g = [s \in SUBSET S |-> g[s]] /\ h = [s \in SUBSET S |-> h[s]]
    BY DEF IsSum
<1> QED
    BY <1>2, <1>3

(* What is summed over a smaller set is the same part of a larger sum.       *)
LEMMA SumWithin ==
    ASSUME NEW f, NEW S, IsFiniteSet(S), NEW g, IsSum(g, f, S), NEW T \in SUBSET S
    PROVE  SumFunctionOnSet(f, T) = g[T]
<1> DEFINE h == [s \in SUBSET T |-> g[s]]
<1>1. IsSum(h, f, T)
    BY SumRestricts
<1>2. IsFiniteSet(T)
    BY FS_Subset
<1> HIDE DEF h
<1>3. IsSum((CHOOSE k : IsSum(k, f, T)), f, T)
    BY <1>1
<1>4. (CHOOSE k : IsSum(k, f, T)) = h
    BY <1>1, <1>2, <1>3, SumUnique
<1> QED
    BY <1>4, SumIs DEF h

(* There is a solution: the sums of the smaller sets make up that of the     *)
(* next.                                                                     *)
LEMMA SumExists ==
    ASSUME NEW f, NEW S, IsFiniteSet(S)
    PROVE  \E g : IsSum(g, f, S)
<1> DEFINE C == {s \in SUBSET S : ~ \E g : IsSum(g, f, s)}
<1>1. C = {}
    <2> SUFFICES ASSUME C # {} PROVE FALSE
        OBVIOUS
    <2>0. C \in SUBSET SUBSET S
        OBVIOUS
    <2>1. PICK T \in C : \A t \in C : t \subseteq T => t = T
        <3> HIDE DEF C
        <3> QED
            BY <2>0, MinimalSet
    <2>2. T \in SUBSET S /\ ~ \E g : IsSum(g, f, T)
        BY <2>1
    <2> DEFINE G == [s \in SUBSET T |-> IF s = {} THEN 0
                       ELSE LET x == CHOOSE x \in s : TRUE IN f[x] + SumFunctionOnSet(f, s \ {x})]
    <2>3. ASSUME NEW t \in SUBSET T, t # T PROVE SumFunctionOnSet(f, t) = G[t]
        <3>1. t \in SUBSET S /\ t \notin C
            <4> HIDE DEF C
            <4> QED
                BY <2>1, <2>2, <2>3
        <3>2. PICK g : IsSum(g, f, t)
            BY <3>1
        <3>3. IsFiniteSet(t)
            BY <3>1, FS_Subset
        <3>4. SumFunctionOnSet(f, t) = g[t]
            BY <3>2, <3>3, SumWithin
        <3>5. CASE t = {}
            BY <3>5, <3>4, <3>2, SumBase
        <3>6. CASE t # {}
            <4>1. FirstOf(t) \in t
                BY <3>6, FirstIsIn
            <4>2. SumFunctionOnSet(f, t \ {FirstOf(t)}) = g[t \ {FirstOf(t)}]
                BY <3>2, <3>3, SumWithin
            <4>3. g[t] = f[FirstOf(t)] + g[t \ {FirstOf(t)}]
                <5>1. t \in SUBSET t
                    OBVIOUS
                <5> QED
                    BY <5>1, <3>2, <3>6, SumStep
            <4>4. G[t] = f[FirstOf(t)] + SumFunctionOnSet(f, t \ {FirstOf(t)})
                BY <3>6 DEF FirstOf
            <4> HIDE DEF G
            <4> QED
                BY <3>4, <4>2, <4>3, <4>4
        <3> QED
            BY <3>5, <3>6
    <2> DEFINE K == [s \in SUBSET T |-> IF s = {} THEN 0
                       ELSE LET x == CHOOSE x \in s : TRUE IN f[x] + G[s \ {x}]]
    <2>4. ASSUME NEW s \in SUBSET T PROVE G[s] = K[s]
        <3>1. CASE s = {}
            BY <3>1
        <3>2. CASE s # {}
            <4>1. FirstOf(s) \in s
                BY <3>2, FirstIsIn
            <4>2. SumFunctionOnSet(f, s \ {FirstOf(s)}) = G[s \ {FirstOf(s)}]
                <5> HIDE DEF G
                <5> QED
                    BY <2>3, <4>1
            <4>3. G[s] = f[FirstOf(s)] + SumFunctionOnSet(f, s \ {FirstOf(s)})
                BY <3>2 DEF FirstOf
            <4>4. K[s] = f[FirstOf(s)] + G[s \ {FirstOf(s)}]
                <5> HIDE DEF G
                <5> QED
                    BY <3>2 DEF FirstOf
            <4> HIDE DEF G, K
            <4> QED
                BY <4>2, <4>3, <4>4
        <3> QED
            BY <3>1, <3>2
    <2>5. G = K
        <3>1. DOMAIN G = DOMAIN K
            OBVIOUS
        <3> QED
            BY <2>4
    <2>6. IsSum(G, f, T)
        BY <2>5 DEF IsSum
    <2> QED
        BY <2>2, <2>6
<1>2. S \notin C
    BY <1>1
<1> QED
    BY <1>2

(* The equation of a sum.                                                    *)
LEMMA SumEquation ==
    ASSUME NEW f, NEW S, IsFiniteSet(S)
    PROVE  /\ SumFunctionOnSet(f, {}) = 0
           /\ S # {} => SumFunctionOnSet(f, S) = f[FirstOf(S)] + SumFunctionOnSet(f, S \ {FirstOf(S)})
<1>1. PICK g : IsSum(g, f, S)
    BY SumExists
<1>2. SumFunctionOnSet(f, {}) = g[{}]
    BY <1>1, SumWithin
<1>3. SumFunctionOnSet(f, S) = g[S]
    BY <1>1, SumWithin
<1>4. SumFunctionOnSet(f, S \ {FirstOf(S)}) = g[S \ {FirstOf(S)}]
    BY <1>1, SumWithin
<1>5. g[{}] = 0
    BY <1>1, SumBase
<1>6. S \in SUBSET S
    OBVIOUS
<1>7. S # {} => g[S] = f[FirstOf(S)] + g[S \ {FirstOf(S)}]
    BY <1>1, <1>6, SumStep
<1> QED
    BY <1>2, <1>3, <1>4, <1>5, <1>7

(* A sum of natural numbers is one.                                          *)
LEMMA SumIsNatural ==
    ASSUME NEW f, NEW S, IsFiniteSet(S), \A x \in S : f[x] \in Nat
    PROVE  SumFunctionOnSet(f, S) \in Nat
<1> DEFINE C == {s \in SUBSET S : SumFunctionOnSet(f, s) \notin Nat}
<1> SUFFICES ASSUME C # {} PROVE FALSE
    OBVIOUS
<1>0. C \in SUBSET SUBSET S
    OBVIOUS
<1>1. PICK s \in C : \A t \in C : t \subseteq s => t = s
    <2> HIDE DEF C
    <2> QED
        BY <1>0, MinimalSet
<1>2. s \in SUBSET S /\ SumFunctionOnSet(f, s) \notin Nat /\ IsFiniteSet(s)
    BY <1>1, FS_Subset
<1>3. s # {}
    <2> SUFFICES ASSUME s = {} PROVE FALSE
        OBVIOUS
    <2>1. SumFunctionOnSet(f, {}) = 0
        BY SumEquation
    <2> QED
        BY <2>1, <1>2
<1>4. FirstOf(s) \in s
    BY <1>3, FirstIsIn
<1>5. s \ {FirstOf(s)} \notin C
    <2> HIDE DEF C
    <2> QED
        BY <1>1, <1>4
<1>6. SumFunctionOnSet(f, s \ {FirstOf(s)}) \in Nat
    BY <1>5, <1>2
<1>7. SumFunctionOnSet(f, s) = f[FirstOf(s)] + SumFunctionOnSet(f, s \ {FirstOf(s)})
    BY <1>2, <1>3, SumEquation
<1>8. f[FirstOf(s)] \in Nat
    BY <1>4, <1>2
<1> QED
    BY <1>2, <1>6, <1>7, <1>8

(* Any element may be taken out first.                                       *)
LEMMA SumTakesOut ==
    ASSUME NEW f, NEW S, IsFiniteSet(S), \A x \in S : f[x] \in Nat, NEW y \in S
    PROVE  SumFunctionOnSet(f, S) = f[y] + SumFunctionOnSet(f, S \ {y})
<1> DEFINE Wrong(s) == \E x \in s : SumFunctionOnSet(f, s) # f[x] + SumFunctionOnSet(f, s \ {x})
<1> DEFINE C == {s \in SUBSET S : Wrong(s)}
<1> SUFFICES ASSUME C # {} PROVE FALSE
    OBVIOUS
<1>0. C \in SUBSET SUBSET S
    OBVIOUS
<1>1. PICK s \in C : \A t \in C : t \subseteq s => t = s
    <2> HIDE DEF C
    <2> QED
        BY <1>0, MinimalSet
<1>2. s \in SUBSET S /\ IsFiniteSet(s)
    BY <1>1, FS_Subset
<1>3. PICK x \in s : SumFunctionOnSet(f, s) # f[x] + SumFunctionOnSet(f, s \ {x})
    BY <1>1
<1>4. FirstOf(s) \in s
    BY <1>3, FirstIsIn
<1> DEFINE c == FirstOf(s)
<1>5. SumFunctionOnSet(f, s) = f[c] + SumFunctionOnSet(f, s \ {c})
    BY <1>2, <1>3, SumEquation
<1>6. c # x
    BY <1>5, <1>3
<1> HIDE DEF c
<1>7. s \ {c} \notin C /\ s \ {x} \notin C
    <2> HIDE DEF C
    <2> QED
        BY <1>1, <1>3, <1>4 DEF c
<1>8. SumFunctionOnSet(f, s \ {c}) = f[x] + SumFunctionOnSet(f, (s \ {c}) \ {x})
    BY <1>7, <1>2, <1>3, <1>6
<1>9. SumFunctionOnSet(f, s \ {x}) = f[c] + SumFunctionOnSet(f, (s \ {x}) \ {c})
    BY <1>7, <1>2, <1>4, <1>6 DEF c
<1>10. (s \ {x}) \ {c} = (s \ {c}) \ {x}
    OBVIOUS
<1>11. f[x] \in Nat /\ f[c] \in Nat
    BY <1>2, <1>3, <1>4 DEF c
<1>12. SumFunctionOnSet(f, (s \ {c}) \ {x}) \in Nat
    <2>1. IsFiniteSet((s \ {c}) \ {x})
        BY <1>2, FS_Subset
    <2>2. \A z \in (s \ {c}) \ {x} : f[z] \in Nat
        BY <1>2
    <2> QED
        BY <2>1, <2>2, SumIsNatural
<1>13. SumFunctionOnSet(f, s) = f[c] + (f[x] + SumFunctionOnSet(f, (s \ {c}) \ {x}))
    BY <1>5, <1>8 DEF c
<1>14. SumFunctionOnSet(f, s \ {x}) = f[c] + SumFunctionOnSet(f, (s \ {c}) \ {x})
    BY <1>9, <1>10
<1> DEFINE rest == SumFunctionOnSet(f, (s \ {c}) \ {x})
<1>15. rest \in Nat /\ SumFunctionOnSet(f, s) = f[c] + (f[x] + rest)
       /\ SumFunctionOnSet(f, s \ {x}) = f[c] + rest
    BY <1>12, <1>13, <1>14
<1> HIDE DEF C, rest
<1>16. f[c] + (f[x] + rest) = f[x] + (f[c] + rest)
    BY <1>11, <1>15
<1> QED
    BY <1>3, <1>15, <1>16

(* A sum is split into the sums over a part and over the rest.               *)
LEMMA SumSplits ==
    ASSUME NEW f, NEW S, IsFiniteSet(S), \A x \in S : f[x] \in Nat, NEW T \in SUBSET S
    PROVE  SumFunctionOnSet(f, S) = SumFunctionOnSet(f, T) + SumFunctionOnSet(f, S \ T)
<1> DEFINE C == {U \in SUBSET S :
                   SumFunctionOnSet(f, S) = SumFunctionOnSet(f, U) + SumFunctionOnSet(f, S \ U)}
<1>1. {} \in C
    <2>1. SumFunctionOnSet(f, {}) = 0 /\ S \ {} = S
        BY SumEquation
    <2>2. SumFunctionOnSet(f, S) \in Nat
        BY SumIsNatural
    <2> QED
        BY <2>1, <2>2
<1>2. ASSUME NEW U \in SUBSET T, NEW x \in T \ U, U \in C PROVE U \cup {x} \in C
    <2>1. /\ IsFiniteSet(U \cup {x}) /\ IsFiniteSet(S \ U) /\ IsFiniteSet(U)
          /\ IsFiniteSet(S \ (U \cup {x}))
        BY FS_Subset
    <2>2. (U \cup {x}) \ {x} = U /\ (S \ U) \ {x} = S \ (U \cup {x}) /\ x \in S \ U
        OBVIOUS
    <2>3. SumFunctionOnSet(f, U \cup {x}) = f[x] + SumFunctionOnSet(f, U)
        <3>1. \A y \in U \cup {x} : f[y] \in Nat
            OBVIOUS
        <3>2. x \in U \cup {x}
            OBVIOUS
        <3> QED
            BY <2>1, <2>2, <3>1, <3>2, SumTakesOut
    <2>4. SumFunctionOnSet(f, S \ U) = f[x] + SumFunctionOnSet(f, S \ (U \cup {x}))
        <3>1. \A y \in S \ U : f[y] \in Nat
            OBVIOUS
        <3> QED
            BY <2>1, <2>2, <3>1, SumTakesOut
    <2>5. SumFunctionOnSet(f, U) \in Nat /\ SumFunctionOnSet(f, S \ (U \cup {x})) \in Nat
        <3>1. \A y \in U : f[y] \in Nat
            OBVIOUS
        <3>2. \A y \in S \ (U \cup {x}) : f[y] \in Nat
            OBVIOUS
        <3> QED
            BY <2>1, <3>1, <3>2, SumIsNatural
    <2>6. SumFunctionOnSet(f, S) = SumFunctionOnSet(f, U) + SumFunctionOnSet(f, S \ U)
        BY <1>2
    <2>7. f[x] \in Nat /\ U \cup {x} \in SUBSET S
        OBVIOUS
    <2> QED
        BY <2>3, <2>4, <2>5, <2>6, <2>7
<1>3. IsFiniteSet(T)
    BY FS_Subset
<1> HIDE DEF C
<1>4. T \in C
    BY <1>1, <1>2, <1>3, SetInduction
<1> QED
    BY <1>4 DEF C

(* Larger summands give a larger sum, equal ones the same.                   *)
LEMMA SumGrows ==
    ASSUME NEW f, NEW g, NEW S, IsFiniteSet(S),
           \A x \in S : f[x] \in Nat /\ g[x] \in Nat /\ f[x] <= g[x]
    PROVE  SumFunctionOnSet(f, S) <= SumFunctionOnSet(g, S)
<1> DEFINE C == {U \in SUBSET S : SumFunctionOnSet(f, U) <= SumFunctionOnSet(g, U)}
<1>1. {} \in C
    <2>1. SumFunctionOnSet(f, {}) = 0 /\ SumFunctionOnSet(g, {}) = 0
        BY SumEquation
    <2> QED
        BY <2>1
<1>2. ASSUME NEW U \in SUBSET S, NEW x \in S \ U, U \in C PROVE U \cup {x} \in C
    <2>1. IsFiniteSet(U \cup {x}) /\ IsFiniteSet(U)
        BY FS_Subset
    <2>2. (U \cup {x}) \ {x} = U /\ x \in U \cup {x}
        OBVIOUS
    <2>3. \A y \in U \cup {x} : f[y] \in Nat /\ g[y] \in Nat
        OBVIOUS
    <2>4. SumFunctionOnSet(f, U \cup {x}) = f[x] + SumFunctionOnSet(f, U)
        BY <2>1, <2>2, <2>3, SumTakesOut
    <2>5. SumFunctionOnSet(g, U \cup {x}) = g[x] + SumFunctionOnSet(g, U)
        BY <2>1, <2>2, <2>3, SumTakesOut
    <2>6. SumFunctionOnSet(f, U) \in Nat /\ SumFunctionOnSet(g, U) \in Nat
        BY <2>1, <2>3, SumIsNatural
    <2>7. SumFunctionOnSet(f, U) <= SumFunctionOnSet(g, U)
        BY <1>2
    <2>8. f[x] \in Nat /\ g[x] \in Nat /\ f[x] <= g[x] /\ U \cup {x} \in SUBSET S
        OBVIOUS
    <2> QED
        BY <2>4, <2>5, <2>6, <2>7, <2>8
<1> HIDE DEF C
<1>4. S \in C
    BY <1>1, <1>2, SetInduction
<1> QED
    BY <1>4 DEF C

(* Equal summands give the same sum.                                         *)
LEMMA SumIsSame ==
    ASSUME NEW f, NEW g, NEW S, IsFiniteSet(S),
           \A x \in S : f[x] \in Nat /\ f[x] = g[x]
    PROVE  SumFunctionOnSet(f, S) = SumFunctionOnSet(g, S)
<1>1. \A x \in S : f[x] \in Nat /\ g[x] \in Nat /\ f[x] <= g[x] /\ g[x] <= f[x]
    OBVIOUS
<1>2. SumFunctionOnSet(f, S) <= SumFunctionOnSet(g, S)
    BY <1>1, SumGrows
<1>3. SumFunctionOnSet(g, S) <= SumFunctionOnSet(f, S)
    BY <1>1, SumGrows
<1>4. SumFunctionOnSet(f, S) \in Nat /\ SumFunctionOnSet(g, S) \in Nat
    BY <1>1, SumIsNatural
<1> QED
    BY <1>2, <1>3, <1>4

----------------------------------------------------------------------------
(* The rate limiter *)

(* The inductive invariant.  The instants of the last window at which a      *)
(* request was let through were counted, and are still among the entries: so *)
(* the next request sees them.                                               *)
LimitInv ==
    /\ rateEntries \subseteq 0 .. Limiter!Window
    /\ rateAdmitted \subseteq Nat \X ApiProcesses
    /\ Limiter!Instants \subseteq Limiter!Kept
    /\ Cardinality(Limiter!Instants) <= Limiter!Limit

(* The limiter counts with the operator the library speaks of.               *)
LEMMA RateCardinality == \A S : Limiter!Cardinality(S) = Cardinality(S)
    BY DEF Limiter!Cardinality, Cardinality

(* Entries are at most as many as there are instants in the window.          *)
LEMMA RateSetsAreFinite ==
    ASSUME LimitInv
    PROVE  /\ IsFiniteSet(Limiter!Kept) /\ Cardinality(Limiter!Kept) \in Nat
           /\ IsFiniteSet(Limiter!Instants) /\ Cardinality(Limiter!Instants) \in Nat
           /\ Cardinality(Limiter!Instants) <= Cardinality(Limiter!Kept)
<1>1. IsFiniteSet(0 .. Limiter!Window)
    BY RateAssumption, FS_Interval DEF RateAssumption
<1>2. Limiter!Kept \in SUBSET (0 .. Limiter!Window)
    BY DEF RateAssumption, LimitInv, Limiter!Kept
<1>3. IsFiniteSet(Limiter!Kept)
    BY <1>1, <1>2, FS_Subset
<1>4. Limiter!Instants \in SUBSET Limiter!Kept
    BY DEF LimitInv
<1>5. IsFiniteSet(Limiter!Instants) /\ Cardinality(Limiter!Instants) <= Cardinality(Limiter!Kept)
    BY <1>3, <1>4, FS_Subset
<1> QED
    BY <1>3, <1>5, FS_CardinalityType

(* One process asks once in an instant: it has no more requests let through  *)
(* than there are instants at which any is.                                  *)
LEMMA RequestsOfOneProcess ==
    ASSUME LimitInv, NEW p \in ApiProcesses
    PROVE  /\ Cardinality(Limiter!By(p)) \in Nat
           /\ Cardinality(Limiter!By(p)) <= Cardinality(Limiter!Instants)
<1> DEFINE S == {a \in Limiter!Instants : <<a, p>> \in rateAdmitted}
           f == [a \in S |-> <<a, p>>]
<1>1. S \in SUBSET Limiter!Instants
    OBVIOUS
<1>2. f \in [S -> Limiter!By(p)]
    BY DEF Limiter!By
<1>3. \A r \in Limiter!By(p) : r[1] \in S /\ f[r[1]] = r
    BY DEF Limiter!By, Limiter!Instants, LimitInv
<1>4. f \in Surjection(S, Limiter!By(p))
    BY <1>2, <1>3 DEF Surjection
<1> HIDE DEF S, f
<1>5. IsFiniteSet(S) /\ Cardinality(S) <= Cardinality(Limiter!Instants) /\ Cardinality(S) \in Nat
    BY <1>1, RateSetsAreFinite, FS_Subset, FS_CardinalityType
<1>6. IsFiniteSet(Limiter!By(p)) /\ Cardinality(Limiter!By(p)) <= Cardinality(S)
    BY <1>4, <1>5, FS_Surjection
<1>7. Cardinality(Limiter!By(p)) \in Nat
    BY <1>6, FS_CardinalityType
<1> QED
    BY <1>5, <1>6, <1>7, RateSetsAreFinite

(* A request is counted, and let through when the limit allows it.           *)
LEMMA RateCounted ==
    ASSUME LimitInv, NEW p \in ApiProcesses, Limiter!Decide(p)
    PROVE  LimitInv'
<1>1. rateEntries' \subseteq 0 .. Limiter!Window
    <2>1. 0 \in 0 .. Limiter!Window
        BY RateAssumption DEF RateAssumption
    <2>2. Limiter!Kept \subseteq 0 .. Limiter!Window
        BY DEF LimitInv, Limiter!Kept
    <2> QED
        BY <2>1, <2>2 DEF Limiter!Decide, Limiter!Count
<1>2. rateAdmitted' \subseteq Nat \X ApiProcesses
    BY DEF LimitInv, Limiter!Decide
<1>3. Limiter!Instants' = IF Limiter!Allowed THEN Limiter!Instants \cup {0} ELSE Limiter!Instants
    <2>1. CASE Limiter!Allowed
        <3>1. rateAdmitted' = rateAdmitted \cup {<<0, p>>}
            BY <2>1 DEF Limiter!Decide
        <3>2. {r[1] : r \in rateAdmitted \cup {<<0, p>>}} = {r[1] : r \in rateAdmitted} \cup {0}
            <4>1. {r[1] : r \in {<<0, p>>}} = {0}
                OBVIOUS
            <4>2. {r[1] : r \in rateAdmitted \cup {<<0, p>>}}
                      = {r[1] : r \in rateAdmitted} \cup {r[1] : r \in {<<0, p>>}}
                BY Zenon
            <4> QED
                BY <4>1, <4>2
        <3> QED
            BY <2>1, <3>1, <3>2 DEF Limiter!Instants
    <2>2. CASE ~Limiter!Allowed
        BY <2>2 DEF Limiter!Decide, Limiter!Instants
    <2> QED
        BY <2>1, <2>2
<1>4. Limiter!Instants' \subseteq Limiter!Kept'
    BY <1>3, RateAssumption DEF RateAssumption, LimitInv, Limiter!Decide, Limiter!Count, Limiter!Kept
<1>5. Cardinality(Limiter!Instants') <= Limiter!Limit
    <2>1. CASE Limiter!Allowed
        <3>1. Cardinality(Limiter!Instants \cup {0})
                  = IF 0 \in Limiter!Instants THEN Cardinality(Limiter!Instants)
                    ELSE Cardinality(Limiter!Instants) + 1
            BY RateSetsAreFinite, FS_AddElement
        <3>2. Cardinality(Limiter!Kept) < Limiter!Limit
            BY <2>1, RateCardinality DEF Limiter!Allowed
        <3> QED
            BY <2>1, <1>3, <3>1, <3>2, RateSetsAreFinite, RateAssumption DEF RateAssumption
    <2>2. CASE ~Limiter!Allowed
        BY <1>3, <2>2 DEF LimitInv
    <2> QED
        BY <2>1, <2>2
<1> QED
    BY <1>1, <1>2, <1>4, <1>5 DEF LimitInv, Limiter!Limit, Limiter!Window

(* A second passes: what leaves the window is no longer counted, and no      *)
(* other request becomes one of those let through.                           *)
LEMMA RateTick ==
    ASSUME LimitInv, Limiter!Tick
    PROVE  LimitInv'
<1> DEFINE S == {a \in Limiter!Instants : a + 1 < Limiter!Window}
           f == [a \in S |-> a + 1]
<1>1. rateEntries' \subseteq 0 .. Limiter!Window
    BY RateAssumption DEF RateAssumption, LimitInv, Limiter!Tick, Limiter!Older
<1>2. rateAdmitted' \subseteq Nat \X ApiProcesses
    BY DEF LimitInv, Limiter!Tick
<1>3. Limiter!Instants' = {a + 1 : a \in S}
    <2>1. rateAdmitted' = {<<r[1] + 1, r[2]>> : r \in {r \in rateAdmitted : r[1] + 1 < Limiter!Window}}
        BY DEF Limiter!Tick
    <2>2. ASSUME NEW b \in Limiter!Instants' PROVE b \in {a + 1 : a \in S}
        <3>1. PICK q \in rateAdmitted' : q[1] = b
            BY <2>2 DEF Limiter!Instants
        <3>2. PICK r \in rateAdmitted : r[1] + 1 < Limiter!Window /\ q = <<r[1] + 1, r[2]>>
            BY <2>1, <3>1
        <3> QED
            BY <3>1, <3>2 DEF Limiter!Instants
    <2>3. ASSUME NEW a \in S PROVE a + 1 \in Limiter!Instants'
        <3>1. PICK r \in rateAdmitted : r[1] = a
            BY DEF Limiter!Instants
        <3>2. <<r[1] + 1, r[2]>> \in rateAdmitted'
            BY <2>1, <3>1
        <3> QED
            BY <3>1, <3>2 DEF Limiter!Instants
    <2> QED
        BY <2>2, <2>3
<1>4. Limiter!Instants' \subseteq Limiter!Kept'
    BY <1>3, RateAssumption DEF RateAssumption, LimitInv, Limiter!Tick, Limiter!Older, Limiter!Kept, Limiter!Window
<1>5. f \in Surjection(S, Limiter!Instants')
    BY <1>3 DEF Surjection
<1>6. S \in SUBSET Limiter!Instants
    OBVIOUS
<1> HIDE DEF S, f
<1>7. IsFiniteSet(S) /\ Cardinality(S) <= Cardinality(Limiter!Instants) /\ Cardinality(S) \in Nat
    BY <1>6, RateSetsAreFinite, FS_Subset, FS_CardinalityType
<1>8. IsFiniteSet(Limiter!Instants') /\ Cardinality(Limiter!Instants') <= Cardinality(S)
    BY <1>5, <1>7, FS_Surjection
<1>9. Cardinality(Limiter!Instants') \in Nat
    BY <1>8, FS_CardinalityType
<1>10. Cardinality(Limiter!Instants') <= Limiter!Limit
    BY <1>7, <1>8, <1>9, RateSetsAreFinite, RateAssumption DEF RateAssumption, LimitInv
<1> QED
    BY <1>1, <1>2, <1>4, <1>10 DEF LimitInv, Limiter!Limit, Limiter!Window

(* While Redis answers, at no more instants of a window of the configured    *)
(* length than the limit says is a request let through, and no API process   *)
(* lets through more requests (rate_limit.py:87), whatever the refused ones  *)
(* in between left behind, for every limit, every window and any processes.  *)
THEOREM AdmittedAreBounded == Limiter!Spec => []AdmittedBounded
<1>1. Limiter!Init => LimitInv
    <2> SUFFICES ASSUME Limiter!Init PROVE LimitInv
        OBVIOUS
    <2>1. Limiter!Instants = {}
        BY DEF Limiter!Init, Limiter!Instants
    <2> QED
        BY <2>1, RateAssumption, FS_EmptySet DEF RateAssumption, Limiter!Init, LimitInv, Limiter!Kept
<1>2. LimitInv /\ [Limiter!Next]_(Limiter!vars) => LimitInv'
    <2> SUFFICES ASSUME LimitInv, [Limiter!Next]_(Limiter!vars)
                 PROVE  LimitInv'
        OBVIOUS
    <2>1. CASE Limiter!Hasty
        BY <2>1, RateCounted DEF Limiter!Hasty
    <2>2. CASE Limiter!Patient
        BY <2>2, RateCounted DEF Limiter!Patient
    <2>3. CASE Limiter!FailOpen
        BY <2>3 DEF Limiter!FailOpen, LimitInv, Limiter!Instants, Limiter!Kept, Limiter!Limit, Limiter!Window
    <2>4. CASE Limiter!Tick
        BY <2>4, RateTick
    <2>5. CASE UNCHANGED Limiter!vars
        BY <2>5 DEF Limiter!vars, LimitInv, Limiter!Instants, Limiter!Kept, Limiter!Limit, Limiter!Window
    <2> QED
        BY <2>1, <2>2, <2>3, <2>4, <2>5 DEF Limiter!Next
<1>3. LimitInv => AdmittedBounded
    <2> SUFFICES ASSUME LimitInv PROVE AdmittedBounded
        OBVIOUS
    <2>1. ASSUME NEW p \in ApiProcesses PROVE Cardinality(Limiter!By(p)) <= Limiter!Limit
        <3>1. /\ Cardinality(Limiter!By(p)) \in Nat
              /\ Cardinality(Limiter!By(p)) <= Cardinality(Limiter!Instants)
            BY RequestsOfOneProcess
        <3> QED
            BY <3>1, RateSetsAreFinite, RateAssumption DEF RateAssumption, LimitInv
    <2> QED
        BY <2>1, RateCardinality DEF LimitInv, AdmittedBounded, Limiter!AdmittedBounded
<1> QED
    BY <1>1, <1>2, <1>3, PTL DEF Limiter!Spec

----------------------------------------------------------------------------
(* Licences *)

(* The inductive invariant: the licence in force is one that is made, and    *)
(* was acceptable where and when it was loaded.                              *)
LicenceInv ==
    /\ today \in Nat /\ loadedOn \in Nat
    /\ licenceFile \in Keygen!Licences \cup {Keygen!NoLicence}
    /\ licence \in Keygen!Licences \cup {Keygen!NoLicence, Keygen!developer}
    /\ Keygen!InForceWasAccepted

(* A licence ends on a day and has days of grace after it, or never ends.    *)
LEMMA LicencesEnd ==
    ASSUME NEW l \in Keygen!Licences
    PROVE  \/ l.expires_at = Keygen!Perpetual
           \/ l.expires_at \in Nat /\ l.grace_period_days \in Nat
<1>1. PICK d \in IssueDays, k \in TrustedKeys \cup OtherKeys :
          l \in {Keygen!issue_license(d, LicenceTerm, k), Keygen!issue_trial(d, k),
                 Keygen!issue_air_gapped(d, Issuer, k),
                 Keygen!issue_air_gapped(d, Keygen!NoMachine, k)}
    BY DEF Keygen!Licences
<1>2. d \in Nat /\ LicenceTerm \in Nat
    BY LicenceAssumption DEF LicenceAssumption
<1>3. CASE l = Keygen!issue_license(d, LicenceTerm, k)
    BY <1>2, <1>3 DEF Keygen!issue_license, Keygen!Licence
<1>4. CASE l = Keygen!issue_trial(d, k)
    BY <1>2, <1>4 DEF Keygen!issue_trial, Keygen!Licence
<1>5. CASE \/ l = Keygen!issue_air_gapped(d, Issuer, k)
           \/ l = Keygen!issue_air_gapped(d, Keygen!NoMachine, k)
    BY <1>5 DEF Keygen!issue_air_gapped, Keygen!Licence
<1> QED
    BY <1>1, <1>3, <1>4, <1>5

(* The last day of a licence is a day of grace, or one of the thirty before  *)
(* it expires; then a warning is shown.                                      *)
LEMMA LastDayIsWarned ==
    ASSUME NEW l \in Keygen!Licences \cup {Keygen!developer}, NEW d \in Nat,
           Keygen!is_valid(l, d), ~Keygen!is_valid(l, d + 1)
    PROVE  Keygen!Warnings(l, d) \cap {"in grace period", "expires soon"} # {}
<1>1. l.expires_at # Keygen!Perpetual
    BY DEF Keygen!is_valid, Keygen!is_expired
<1>2. l # Keygen!developer
    BY <1>1 DEF Keygen!developer, Keygen!Licence
<1>3. l.expires_at \in Nat /\ l.grace_period_days \in Nat
    BY <1>1, <1>2, LicencesEnd
<1>4. Keygen!is_in_grace_period(l, d) \/ l.expires_at = d
    BY <1>1, <1>3 DEF Keygen!is_valid, Keygen!is_expired, Keygen!is_in_grace_period
<1>5. l.expires_at = d => Keygen!DaysLeft(l, d) = 0
    BY <1>3 DEF Keygen!DaysLeft
<1>6. CASE Keygen!is_in_grace_period(l, d)
    BY <1>6 DEF Keygen!Warnings, Keygen!ExpiryWarnings
<1>7. CASE ~Keygen!is_in_grace_period(l, d)
    <2>1. Keygen!DaysLeft(l, d) <= 30
        BY <1>4, <1>5, <1>7
    <2> QED
        BY <1>1, <1>7, <2>1 DEF Keygen!Warnings, Keygen!ExpiryWarnings
<1> QED
    BY <1>6, <1>7

(* "Verified offline" (license.py:8) and "days after expiry before hard      *)
(* cutoff" (license.py:19): whatever was installed, moved or restarted in    *)
(* whatever order, the licence in force was signed with a trusted key, for   *)
(* this machine, had not ended when it was loaded, and does not end without  *)
(* a warning, for every term and any keys and machines.                      *)
THEOREM LicencesInForceHold == Keygen!Spec => []InForce
<1>1. Keygen!Init => LicenceInv
    BY DEF Keygen!Init, LicenceInv, Keygen!InForceWasAccepted
<1>2. LicenceInv /\ [Keygen!Next]_(Keygen!vars) => LicenceInv'
    <2> SUFFICES ASSUME LicenceInv, [Keygen!Next]_(Keygen!vars)
                 PROVE  LicenceInv'
        OBVIOUS
    <2>1. CASE Keygen!Install
        BY <2>1 DEF Keygen!Install, LicenceInv, Keygen!InForceWasAccepted
    <2>2. CASE Keygen!Restart
        BY <2>2 DEF Keygen!Restart, LicenceInv, Keygen!InForceWasAccepted
    <2>3. CASE Keygen!NextDay
        BY <2>3 DEF Keygen!NextDay, LicenceInv, Keygen!InForceWasAccepted
    <2>4. CASE Keygen!Ask
        <3>1. CASE licence # Keygen!NoLicence
            BY <2>4, <3>1 DEF Keygen!Ask, Keygen!get_license, LicenceInv, Keygen!InForceWasAccepted
        <3>2. CASE licence = Keygen!NoLicence /\ licenceFile = Keygen!NoLicence
            BY <2>4, <3>2 DEF Keygen!Ask, Keygen!get_license, Keygen!Load, LicenceInv,
                              Keygen!InForceWasAccepted
        <3>3. CASE licence = Keygen!NoLicence /\ licenceFile # Keygen!NoLicence
            BY <2>4, <3>3 DEF Keygen!Ask, Keygen!Available, Keygen!Loadable, Keygen!Verified,
                              Keygen!BoundElsewhere, Keygen!get_license, Keygen!Load, LicenceInv,
                              Keygen!InForceWasAccepted
        <3> QED
            BY <3>1, <3>2, <3>3
    <2>5. CASE UNCHANGED Keygen!vars
        BY <2>5 DEF Keygen!vars, LicenceInv, Keygen!InForceWasAccepted
    <2> QED
        BY <2>1, <2>2, <2>3, <2>4, <2>5 DEF Keygen!Next
<1>3. LicenceInv => InForce
    BY LastDayIsWarned DEF LicenceInv, InForce, Keygen!InForce, Keygen!NeverCutOffUnwarned
<1> QED
    BY <1>1, <1>2, <1>3, PTL DEF Keygen!Spec

----------------------------------------------------------------------------
(* Alert rules and webhook endpoints *)

(* What an install no longer has to look up is there or will be added.       *)
LookedUp(f) ==
    \A n \in Alerts!ToSet(Alerts!BUILTIN_RULES) :
        \/ n \in f.new
        \/ rules[f.tenant][n] > 0
        \/ n \in Alerts!ToSet(f.todo)
InstallsCover == \A h \in RuleHandlers : installs[h].busy => LookedUp(installs[h])

(* The inductive invariant.                                                  *)
RulesInv ==
    /\ Alerts!TypeOK /\ InstallsCover
    /\ \A t \in installedFor : \A n \in Alerts!ToSet(Alerts!BUILTIN_RULES) : rules[t][n] > 0
    /\ \A t \in RuleTenants : Alerts!ListWebhooks(t) = ownHooks[t]

(* A handler is idle, or installs the templates for a tenant.                *)
LEMMA InstallTypes ==
    /\ ~Alerts!Idle.busy /\ Alerts!Idle.todo = <<>> /\ Alerts!Idle \notin Alerts!Install
    /\ \A f \in Alerts!Install :
         /\ f.busy /\ f.todo \in Seq(Alerts!ToSet(Alerts!BUILTIN_RULES)) /\ f.tenant \in RuleTenants
         /\ f.new \subseteq Alerts!ToSet(Alerts!BUILTIN_RULES)
    /\ Alerts!Absent \notin Alerts!Webhook
<1>1. ~Alerts!Idle.busy /\ Alerts!Idle.todo = <<>>
    BY DEF Alerts!Idle
<1>2. \A f \in Alerts!Install :
         /\ f.busy /\ f.todo \in Seq(Alerts!ToSet(Alerts!BUILTIN_RULES)) /\ f.tenant \in RuleTenants
         /\ f.new \subseteq Alerts!ToSet(Alerts!BUILTIN_RULES)
    BY DEF Alerts!Install
<1>3. Alerts!Absent \notin Alerts!Webhook
    BY DEF Alerts!Absent, Alerts!Webhook
<1> QED
    BY <1>1, <1>2, <1>3

(* The templates are names of rules; taking the first away leaves the rest.  *)
LEMMA TemplatesAreNames == Alerts!ToSet(Alerts!BUILTIN_RULES) \subseteq Alerts!AlertNames
    BY DEF Alerts!AlertNames
(* What is not the first of a sequence is in the rest of it.                 *)
LEMMA TailToSet ==
    ASSUME NEW S, NEW s \in Seq(S), s # <<>>
    PROVE  /\ Head(s) \in S /\ Tail(s) \in Seq(S)
           /\ Alerts!ToSet(s) \subseteq {Head(s)} \cup Alerts!ToSet(Tail(s))
<1>1. Head(s) \in S /\ Tail(s) \in Seq(S)
    OBVIOUS
<1>2. ASSUME NEW i \in DOMAIN s
      PROVE  s[i] \in {Head(s)} \cup Alerts!ToSet(Tail(s))
    <2>1. CASE i = 1
        BY <2>1
    <2>2. CASE i # 1
        <3>1. i - 1 \in DOMAIN Tail(s) /\ Tail(s)[i - 1] = s[i]
            BY <2>2
        <3> QED
            BY <3>1 DEF Alerts!ToSet
    <2> QED
        BY <2>1, <2>2
<1> QED
    BY <1>1, <1>2 DEF Alerts!ToSet

(* Rules are only ever added: what was looked up or installed stays so.      *)
LEMMA RulesGrow ==
    ASSUME RulesInv, rules' \in [RuleTenants -> [Alerts!AlertNames -> Nat]],
           \A t \in RuleTenants : \A n \in Alerts!AlertNames : rules'[t][n] >= rules[t][n],
           NEW h \in RuleHandlers,
           \/ installs' = installs
           \/ /\ installs' = [installs EXCEPT ![h] = installs'[h]]
              /\ \/ installs'[h] = Alerts!Idle
                 \/ installs'[h] \in Alerts!Install /\ LookedUp(installs'[h])
    PROVE  installs' \in [RuleHandlers -> {Alerts!Idle} \cup Alerts!Install] /\ InstallsCover'
<1>1. installs \in [RuleHandlers -> {Alerts!Idle} \cup Alerts!Install] /\ InstallsCover
      /\ rules \in [RuleTenants -> [Alerts!AlertNames -> Nat]]
    BY DEF RulesInv, Alerts!TypeOK
<1>2. installs' \in [RuleHandlers -> {Alerts!Idle} \cup Alerts!Install]
    BY <1>1
<1>3. ASSUME NEW g \in RuleHandlers, installs'[g].busy
      PROVE  installs'[g] \in Alerts!Install /\ LookedUp(installs'[g])
    BY <1>1, <1>2, <1>3, InstallTypes DEF InstallsCover
<1>4. ASSUME NEW g \in RuleHandlers, installs'[g].busy
      PROVE  LookedUp(installs[g])'
    <2>1. installs'[g].tenant \in RuleTenants
        BY <1>3, <1>4, InstallTypes
    <2> QED
        BY <1>1, <1>3, <1>4, <2>1, TemplatesAreNames DEF LookedUp
<1> QED
    BY <1>2, <1>4 DEF InstallsCover

(* A handler looks templates up and adds what was missing.                   *)
LEMMA InstallStep ==
    ASSUME RulesInv, NEW h \in RuleHandlers,
           Alerts!LookUp(h) \/ Alerts!CommitInstall(h) \/ Alerts!Rollback(h)
    PROVE  RulesInv'
<1> DEFINE f == installs[h]
<1>1. /\ rules \in [RuleTenants -> [Alerts!AlertNames -> Nat]]
      /\ installs \in [RuleHandlers -> {Alerts!Idle} \cup Alerts!Install]
      /\ installedFor \subseteq RuleTenants
    BY DEF RulesInv, Alerts!TypeOK
<1>2. CASE Alerts!LookUp(h)
    <2>1. f \in Alerts!Install /\ f.todo # <<>> /\ LookedUp(f)
        BY <1>1, <1>2, InstallTypes DEF Alerts!LookUp, RulesInv, InstallsCover
    <2>2. /\ f.todo \in Seq(Alerts!ToSet(Alerts!BUILTIN_RULES)) /\ f.tenant \in RuleTenants
          /\ f.new \subseteq Alerts!ToSet(Alerts!BUILTIN_RULES)
        BY <2>1, InstallTypes
    <2>3. /\ Head(f.todo) \in Alerts!ToSet(Alerts!BUILTIN_RULES)
          /\ Tail(f.todo) \in Seq(Alerts!ToSet(Alerts!BUILTIN_RULES))
          /\ Alerts!ToSet(f.todo) \subseteq {Head(f.todo)} \cup Alerts!ToSet(Tail(f.todo))
        BY <2>1, <2>2, TailToSet
    <2>4. /\ installs' = [installs EXCEPT ![h] = installs'[h]]
          /\ \/ installs'[h] = Alerts!Idle
             \/ installs'[h] \in Alerts!Install /\ LookedUp(installs'[h])
        <3> DEFINE n == Head(f.todo)
                   found == rules[f.tenant][n]
                   g == [f EXCEPT !.todo = Tail(f.todo), !.new = IF found = 0 THEN f.new \cup {n} ELSE f.new]
        <3>1. installs' = [installs EXCEPT ![h] = IF found > 1 THEN Alerts!Idle ELSE g]
            BY <1>2 DEF Alerts!LookUp, Alerts!Existing
        <3>2. g \in Alerts!Install
            BY <2>1, <2>2, <2>3 DEF Alerts!Install
        <3>3. found \in Nat
            BY <1>1, <2>2, <2>3, TemplatesAreNames
        <3>4. LookedUp(g)
            BY <2>1, <2>2, <2>3, <3>3 DEF LookedUp, Alerts!Install
        <3> QED
            BY <1>1, <3>1, <3>2, <3>4
    <2>5. UNCHANGED <<rules, webhooks, installedFor, ownHooks>>
        BY <1>2 DEF Alerts!LookUp
    <2> QED
        BY <1>1, <2>4, <2>5, RulesGrow DEF RulesInv, Alerts!TypeOK, Alerts!ListWebhooks
<1>3. CASE Alerts!CommitInstall(h)
    <2>1. f \in Alerts!Install /\ f.todo = <<>> /\ LookedUp(f)
        BY <1>1, <1>3, InstallTypes DEF Alerts!CommitInstall, RulesInv, InstallsCover
    <2>2. f.tenant \in RuleTenants
        BY <2>1, InstallTypes
    <2>3. /\ rules' = [rules EXCEPT ![f.tenant] =
                         [n \in Alerts!AlertNames |->
                            rules[f.tenant][n] + (IF n \in f.new THEN 1 ELSE 0)]]
          /\ installedFor' = installedFor \cup {f.tenant}
          /\ installs' = [installs EXCEPT ![h] = Alerts!Idle]
          /\ UNCHANGED <<webhooks, ownHooks>>
        BY <1>3 DEF Alerts!CommitInstall
    <2>4. /\ rules' \in [RuleTenants -> [Alerts!AlertNames -> Nat]]
          /\ \A t \in RuleTenants : \A n \in Alerts!AlertNames : rules'[t][n] >= rules[t][n]
        BY <1>1, <2>2, <2>3
    <2>5. \A n \in Alerts!ToSet(Alerts!BUILTIN_RULES) : rules'[f.tenant][n] > 0
        <3>1. Alerts!ToSet(f.todo) = {}
            BY <2>1 DEF Alerts!ToSet
        <3> QED
            BY <1>1, <2>1, <2>2, <2>3, <3>1, TemplatesAreNames DEF LookedUp
    <2>6. \A t \in installedFor' : \A n \in Alerts!ToSet(Alerts!BUILTIN_RULES) : rules'[t][n] > 0
        BY <1>1, <2>3, <2>4, <2>5, TemplatesAreNames DEF RulesInv
    <2>7. installs' \in [RuleHandlers -> {Alerts!Idle} \cup Alerts!Install] /\ InstallsCover'
        BY <1>1, <2>3, <2>4, RulesGrow
    <2> QED
        BY <1>1, <2>2, <2>3, <2>4, <2>6, <2>7 DEF RulesInv, Alerts!TypeOK, Alerts!ListWebhooks
<1>4. CASE Alerts!Rollback(h)
    <2>1. UNCHANGED <<rules, webhooks, installedFor, ownHooks>>
          /\ installs' = [installs EXCEPT ![h] = Alerts!Idle]
        BY <1>4 DEF Alerts!Rollback
    <2>2. /\ rules' \in [RuleTenants -> [Alerts!AlertNames -> Nat]]
          /\ \A s \in RuleTenants : \A n \in Alerts!AlertNames : rules'[s][n] >= rules[s][n]
        BY <1>1, <2>1
    <2>3. installs'[h] = Alerts!Idle /\ installs' = [installs EXCEPT ![h] = installs'[h]]
        BY <1>1, <2>1
    <2>4. installs' \in [RuleHandlers -> {Alerts!Idle} \cup Alerts!Install] /\ InstallsCover'
        BY <2>2, <2>3, RulesGrow
    <2> QED
        BY <2>1, <2>4 DEF RulesInv, Alerts!TypeOK, Alerts!ListWebhooks
<1> QED
    BY <1>2, <1>3, <1>4

(* Rules and endpoints are created, endpoints deleted, installs begun.       *)
LEMMA RuleRequestStep ==
    ASSUME RulesInv, NEW t \in RuleTenants,
           \/ \E n \in RuleNames : Alerts!CreateRule(t, n)
           \/ \E h \in RuleHandlers : Alerts!InstallDefaultRules(h, t)
           \/ \E w \in Hooks : Alerts!CreateWebhook(t, w) \/ Alerts!DeleteWebhook(t, w)
    PROVE  RulesInv'
<1>1. /\ rules \in [RuleTenants -> [Alerts!AlertNames -> Nat]]
      /\ installs \in [RuleHandlers -> {Alerts!Idle} \cup Alerts!Install]
      /\ webhooks \in [Hooks -> Alerts!Webhook \cup {Alerts!Absent}]
      /\ installedFor \subseteq RuleTenants
      /\ ownHooks \in [RuleTenants -> SUBSET Hooks]
    BY DEF RulesInv, Alerts!TypeOK
<1>2. ASSUME NEW n \in RuleNames, Alerts!CreateRule(t, n)
      PROVE  RulesInv'
    <2>1. /\ rules' = [rules EXCEPT ![t][n] = rules[t][n] + 1]
          /\ UNCHANGED <<installs, webhooks, installedFor, ownHooks>>
        BY <1>2 DEF Alerts!CreateRule
    <2>2. n \in Alerts!AlertNames
        BY DEF Alerts!AlertNames
    <2>3. /\ rules' \in [RuleTenants -> [Alerts!AlertNames -> Nat]]
          /\ \A s \in RuleTenants : \A m \in Alerts!AlertNames : rules'[s][m] >= rules[s][m]
        BY <1>1, <2>1, <2>2
    <2>4. InstallsCover'
        <3> SUFFICES ASSUME NEW g \in RuleHandlers, installs[g].busy
                     PROVE  LookedUp(installs[g])'
            BY <2>1 DEF InstallsCover
        <3>1. installs[g] \in Alerts!Install
            BY <1>1, InstallTypes
        <3>2. installs[g].tenant \in RuleTenants /\ LookedUp(installs[g])
            BY <3>1, InstallTypes DEF RulesInv, InstallsCover
        <3> QED
            BY <1>1, <2>1, <2>3, <3>2, TemplatesAreNames DEF LookedUp
    <2> QED
        BY <1>1, <2>1, <2>3, <2>4, TemplatesAreNames DEF RulesInv, Alerts!TypeOK, Alerts!ListWebhooks
<1>3. ASSUME NEW h \in RuleHandlers, Alerts!InstallDefaultRules(h, t)
      PROVE  RulesInv'
    <2> DEFINE f == [todo |-> Alerts!BUILTIN_RULES, busy |-> TRUE, tenant |-> t, new |-> {}]
    <2>1. installs' = [installs EXCEPT ![h] = f] /\ UNCHANGED <<rules, webhooks, installedFor, ownHooks>>
        BY <1>3 DEF Alerts!InstallDefaultRules
    <2>2. f \in Alerts!Install
        <3>1. Alerts!BUILTIN_RULES \in Seq(Alerts!ToSet(Alerts!BUILTIN_RULES))
            BY DEF Alerts!BUILTIN_RULES, Alerts!ToSet
        <3> QED
            BY <3>1 DEF Alerts!Install
    <2>3. LookedUp(f)
        BY DEF LookedUp
    <2> HIDE DEF f
    <2>4. /\ rules' \in [RuleTenants -> [Alerts!AlertNames -> Nat]]
          /\ \A s \in RuleTenants : \A n \in Alerts!AlertNames : rules'[s][n] >= rules[s][n]
        BY <1>1, <2>1
    <2>5. installs'[h] = f /\ installs' = [installs EXCEPT ![h] = installs'[h]]
        BY <1>1, <2>1
    <2>6. installs' \in [RuleHandlers -> {Alerts!Idle} \cup Alerts!Install] /\ InstallsCover'
        BY <2>2, <2>3, <2>4, <2>5, RulesGrow
    <2> QED
        BY <2>1, <2>6 DEF RulesInv, Alerts!TypeOK, Alerts!ListWebhooks
<1>4. ASSUME NEW w \in Hooks, Alerts!CreateWebhook(t, w) \/ Alerts!DeleteWebhook(t, w)
      PROVE  RulesInv'
    <2>1. UNCHANGED <<rules, installs, installedFor>>
        BY <1>4 DEF Alerts!CreateWebhook, Alerts!DeleteWebhook
    <2>2. CASE Alerts!CreateWebhook(t, w)
        <3>1. [tenant |-> t, is_active |-> TRUE] \in Alerts!Webhook
            BY DEF Alerts!Webhook
        <3>2. /\ webhooks' \in [Hooks -> Alerts!Webhook \cup {Alerts!Absent}]
              /\ ownHooks' \in [RuleTenants -> SUBSET Hooks]
            BY <1>1, <2>2, <3>1 DEF Alerts!CreateWebhook
        <3>3. \A s \in RuleTenants : Alerts!ListWebhooks(s)' = ownHooks'[s]
            BY ZenonT(30), <1>1, <2>2, <3>1, InstallTypes DEF Alerts!CreateWebhook, RulesInv, Alerts!ListWebhooks
        <3> QED
            BY <2>1, <3>2, <3>3 DEF RulesInv, Alerts!TypeOK, InstallsCover, LookedUp
    <2>3. CASE Alerts!DeleteWebhook(t, w)
        <3>1. webhooks[w] # Alerts!Absent =>
                  [webhooks[w] EXCEPT !.is_active = FALSE] \in Alerts!Webhook
            BY <1>1 DEF Alerts!Webhook
        <3>2. /\ webhooks' \in [Hooks -> Alerts!Webhook \cup {Alerts!Absent}]
              /\ ownHooks' \in [RuleTenants -> SUBSET Hooks]
            BY <1>1, <2>3, <3>1 DEF Alerts!DeleteWebhook
        <3>3. \A s \in RuleTenants : Alerts!ListWebhooks(s)' = ownHooks'[s]
            BY <1>1, <2>3, <3>1, InstallTypes
            DEF Alerts!DeleteWebhook, RulesInv, Alerts!ListWebhooks, Alerts!Webhook
        <3> QED
            BY <2>1, <3>2, <3>3 DEF RulesInv, Alerts!TypeOK, InstallsCover, LookedUp
    <2> QED
        BY <1>4, <2>2, <2>3
<1> QED
    BY <1>2, <1>3, <1>4

(* However installs overlap with each other, with rules of the same names    *)
(* and with other tenants: a tenant whose install was answered lists every   *)
(* template (alerts.py:64), and it lists the endpoints it created and did    *)
(* not delete itself, for any tenants and any number of requests.            *)
THEOREM OwnRulesStayListed == Alerts!Spec => []OwnRulesListed
<1>1. Alerts!Init => RulesInv
    <2> SUFFICES ASSUME Alerts!Init PROVE RulesInv
        OBVIOUS
    <2>1. /\ rules = [t \in RuleTenants |-> [n \in Alerts!AlertNames |-> 0]]
          /\ installs = [h \in RuleHandlers |-> Alerts!Idle]
          /\ webhooks = [w \in Hooks |-> Alerts!Absent] /\ installedFor = {}
          /\ ownHooks = [t \in RuleTenants |-> {}]
        BY DEF Alerts!Init
    <2> QED
        BY <2>1, InstallTypes DEF RulesInv, Alerts!TypeOK, InstallsCover, Alerts!ListWebhooks
<1>2. RulesInv /\ [Alerts!Next]_(Alerts!vars) => RulesInv'
    <2> SUFFICES ASSUME RulesInv, [Alerts!Next]_(Alerts!vars)
                 PROVE  RulesInv'
        OBVIOUS
    <2>1. CASE UNCHANGED Alerts!vars
        BY <2>1 DEF Alerts!vars, RulesInv, Alerts!TypeOK, InstallsCover, LookedUp, Alerts!ListWebhooks
    <2> QED
        BY <2>1, InstallStep, RuleRequestStep DEF Alerts!Next
<1>3. RulesInv => OwnRulesListed
    BY TemplatesAreNames
    DEF RulesInv, OwnRulesListed, Alerts!OwnRulesListed, Alerts!ListRules, Alerts!TypeOK
<1> QED
    BY <1>1, <1>2, <1>3, PTL DEF Alerts!Spec

----------------------------------------------------------------------------
(* Saved queries, their runs and exports *)

(* What a run read bounds what it will count: nothing that was answered      *)
(* alone came after it, and it has counted nothing yet.  Once it has written *)
(* its count, its query stays.                                               *)
RunOps == {"run", "counted"}
RunStands(h) ==
    queryFlight[h].op \in RunOps =>
        /\ queryFlight[h].row \in Saved!SavedQuery
        /\ queryFlight[h].row.run_count
               \in queryRuns[queryFlight[h].q.id].alone .. queryRuns[queryFlight[h].q.id].answered
        /\ queryFlight[h].op = "counted" => queries[queryFlight[h].q.id] # Saved!Absent

(* A handler serves what it was asked; a run that is alone has no other of   *)
(* its query beside it.                                                      *)
HandlerStands(h) ==
    /\ queryFlight[h] # Saved!Idle =>
           queryFlight[h].q.op = IF queryFlight[h].op = "counted" THEN "run" ELSE queryFlight[h].op
    /\ h \in runsAlone =>
           /\ queryFlight[h].op \in RunOps
           /\ \A g \in Saved!Runs(queryFlight[h].q.id) : g = h

(* The inductive invariant: an export's query is there, and with it the user *)
(* that owns it.                                                             *)
QueriesInv ==
    /\ Saved!TypeOK
    /\ \A h \in QueryHandlers : HandlerStands(h) /\ RunStands(h)
    /\ \A i \in Saved!Rows(queries) :
           queries[i].run_count \in queryRuns[i].alone .. queryRuns[i].answered
    /\ \A e \in Saved!Rows(exports) : exports[e].query \in Saved!Rows(queries)

(* The fields of the request that a handler serves.                          *)
LEMMA QueryRequestTypes ==
    /\ Saved!Idle \notin Saved!Served /\ Saved!Idle.op = "idle"
    /\ Saved!Absent \notin Saved!SavedQuery /\ Saved!Absent \notin Saved!QueryExport
    /\ \A q \in Saved!Requests :
         /\ q.op \in {"save", "rename", "share", "format", "delete", "run", "export"}
         /\ q.user \in QueryUsers
         /\ q.op # "save" => q.id \in QueryIds
         /\ q.op \in {"save", "rename"} => q.name \in QueryNames
         /\ q.op \in {"save", "share"} => q.is_public \in BOOLEAN
         /\ q.op = "save" => q.export_format \in BOOLEAN
<1>1. \A q \in Saved!Requests :
         /\ q.op \in {"save", "rename", "share", "format", "delete", "run", "export"}
         /\ q.user \in QueryUsers
         /\ q.op # "save" => q.id \in QueryIds
         /\ q.op \in {"save", "rename"} => q.name \in QueryNames
         /\ q.op \in {"save", "share"} => q.is_public \in BOOLEAN
         /\ q.op = "save" => q.export_format \in BOOLEAN
    BY DEF Saved!Requests
<1>2. Saved!Idle \notin Saved!Served /\ Saved!Idle.op = "idle"
    BY <1>1 DEF Saved!Idle, Saved!Served
<1>3. Saved!Absent \notin Saved!SavedQuery /\ Saved!Absent \notin Saved!QueryExport
    BY DEF Saved!Absent, Saved!SavedQuery, Saved!QueryExport
<1> QED
    BY <1>1, <1>2, <1>3

(* What a handler that is not idle holds.                                    *)
LEMMA QueryServed ==
    ASSUME QueriesInv, NEW h \in QueryHandlers, queryFlight[h].op # "idle"
    PROVE  /\ queryFlight[h] \in Saved!Served /\ queryFlight[h].q \in Saved!Requests
           /\ queryFlight[h].q.op = IF queryFlight[h].op = "counted" THEN "run" ELSE queryFlight[h].op
           /\ queryFlight[h].op # "save" => queryFlight[h].q.id \in QueryIds
<1>1. queryFlight[h] \in Saved!Served /\ queryFlight[h] # Saved!Idle
    BY QueryRequestTypes DEF QueriesInv, Saved!TypeOK
<1>2. queryFlight[h].q \in Saved!Requests
    BY <1>1 DEF Saved!Served
<1>3. queryFlight[h].q.op = IF queryFlight[h].op = "counted" THEN "run" ELSE queryFlight[h].op
    BY <1>1 DEF QueriesInv, HandlerStands
<1> QED
    BY <1>1, <1>2, <1>3, QueryRequestTypes

(* A handler ends; what the other runs read still stands.                    *)
LEMMA QueryHandlerEnds ==
    ASSUME QueriesInv, NEW h \in QueryHandlers, Saved!Ends(h),
           \A g \in QueryHandlers \ {h} : RunStands(g)'
    PROVE  /\ queryFlight' \in [QueryHandlers -> {Saved!Idle} \cup Saved!Served]
           /\ runsAlone' \subseteq QueryHandlers
           /\ \A g \in QueryHandlers : HandlerStands(g)' /\ RunStands(g)'
<1>1. /\ queryFlight \in [QueryHandlers -> {Saved!Idle} \cup Saved!Served]
      /\ runsAlone \subseteq QueryHandlers
    BY DEF QueriesInv, Saved!TypeOK
<1>2. /\ queryFlight' = [queryFlight EXCEPT ![h] = Saved!Idle]
      /\ runsAlone' = runsAlone \ {h}
    BY DEF Saved!Ends
<1>3. /\ queryFlight'[h] = Saved!Idle
      /\ \A g \in QueryHandlers \ {h} : queryFlight'[g] = queryFlight[g]
    BY <1>1, <1>2
<1>4. HandlerStands(h)' /\ RunStands(h)'
    BY <1>2, <1>3, QueryRequestTypes DEF HandlerStands, RunStands, RunOps
<1>5. ASSUME NEW g \in QueryHandlers \ {h} PROVE HandlerStands(g)'
    <2>1. queryFlight'[g] = queryFlight[g] /\ (g \in runsAlone' => g \in runsAlone)
        BY <1>2, <1>3
    <2>2. HandlerStands(g)
        BY DEF QueriesInv
    <2>3. \A i : Saved!Runs(i)' \subseteq Saved!Runs(i)
        BY <1>3, QueryRequestTypes DEF Saved!Runs
    <2> QED
        BY <2>1, <2>2, <2>3 DEF HandlerStands
<1> QED
    BY <1>1, <1>2, <1>4, <1>5

(* What the other runs read stands, when counts and rows stay.               *)
LEMMA OtherRunsStand ==
    ASSUME QueriesInv, NEW h \in QueryHandlers, Saved!Ends(h), UNCHANGED queryRuns,
           \A i : Saved!Locked(i) /\ queries[i] # Saved!Absent => queries'[i] # Saved!Absent
    PROVE  \A g \in QueryHandlers \ {h} : RunStands(g)'
<1> SUFFICES ASSUME NEW g \in QueryHandlers \ {h} PROVE RunStands(g)'
    OBVIOUS
<1>1. queryFlight'[g] = queryFlight[g]
    BY DEF QueriesInv, Saved!TypeOK, Saved!Ends
<1>2. RunStands(g)
    BY DEF QueriesInv
<1>3. queryFlight[g].op = "counted" => Saved!Locked(queryFlight[g].q.id)
    BY DEF Saved!Locked
<1> QED
    BY <1>1, <1>2, <1>3 DEF RunStands

(* An export is pending for a query that is there.                           *)
LEMMA ExportPends ==
    ASSUME QueriesInv, NEW i \in QueryIds, Saved!Pending(i)
    PROVE  /\ exports' \in [ExportIds -> Saved!QueryExport \cup {Saved!Absent}]
           /\ exportTasks' \subseteq ExportIds
           /\ \A e \in Saved!Rows(exports') :
                \/ exports'[e].query = i
                \/ e \in Saved!Rows(exports) /\ exports'[e] = exports[e]
<1>1. exports \in [ExportIds -> Saved!QueryExport \cup {Saved!Absent}] /\ exportTasks \subseteq ExportIds
    BY DEF QueriesInv, Saved!TypeOK
<1>2. PICK e \in ExportIds :
          /\ exports' = [exports EXCEPT ![e] = [query |-> i, status |-> "pending"]]
          /\ exportTasks' = exportTasks \cup {e}
    BY <1>1 DEF Saved!Pending, Saved!Free, Saved!Rows
<1>3. [query |-> i, status |-> "pending"] \in Saved!QueryExport
    BY DEF Saved!QueryExport
<1>4. exports' \in [ExportIds -> Saved!QueryExport \cup {Saved!Absent}] /\ exportTasks' \subseteq ExportIds
    BY <1>1, <1>2, <1>3
<1>5. exports'[e].query = i
    BY <1>1, <1>2
<1>6. \A x \in Saved!Rows(exports') :
          x = e \/ (x \in Saved!Rows(exports) /\ exports'[x] = exports[x])
    <2> SUFFICES ASSUME NEW x \in Saved!Rows(exports'), x # e
                 PROVE  x \in Saved!Rows(exports) /\ exports'[x] = exports[x]
        OBVIOUS
    <2>1. x \in ExportIds /\ exports'[x] # Saved!Absent
        BY <1>4 DEF Saved!Rows
    <2>2. exports'[x] = exports[x]
        BY <1>1, <1>2, <2>1
    <2> QED
        BY <1>1, <2>1, <2>2 DEF Saved!Rows
<1> QED
    BY <1>4, <1>5, <1>6

(* What the handlers write.                                                  *)
LEMMA QueryHandlerStep ==
    ASSUME QueriesInv, NEW h \in QueryHandlers, Saved!Handler(h)
    PROVE  QueriesInv'
<1> DEFINE f == queryFlight[h]
<1>1. /\ queries \in [QueryIds -> Saved!SavedQuery \cup {Saved!Absent}]
      /\ exports \in [ExportIds -> Saved!QueryExport \cup {Saved!Absent}]
      /\ queryFlight \in [QueryHandlers -> {Saved!Idle} \cup Saved!Served]
      /\ queryRuns \in [QueryIds -> [answered: Nat, alone: Nat]]
      /\ exportTasks \subseteq ExportIds /\ exportFiles \subseteq ExportIds
      /\ runsAlone \subseteq QueryHandlers
    BY DEF QueriesInv, Saved!TypeOK
<1>2. ASSUME NEW ops, Saved!Serve(h, ops), "idle" \notin ops
      PROVE  /\ f \in Saved!Served /\ f.q \in Saved!Requests /\ f.op \in ops
             /\ f.q.op = IF f.op = "counted" THEN "run" ELSE f.op
             /\ f.op # "save" => f.q.id \in QueryIds
             /\ Saved!Accepts(f) /\ ~Saved!Waits(f) /\ Saved!Ends(h)
    BY <1>2, QueryServed DEF Saved!Serve
<1>a. \A g : Saved!Accepts(g) /\ g.op \in {"rename", "share", "format", "run", "export"}
             => queries[g.q.id] # Saved!Absent
    BY DEF Saved!Accepts
<1>4. CASE Saved!SaveQuery(h)
    <2>1. f.q \in Saved!Requests /\ f.q.op = "save" /\ Saved!Ends(h)
        BY <1>2, <1>4 DEF Saved!SaveQuery
    <2> DEFINE row == [owner |-> f.q.user, name |-> f.q.name, is_public |-> f.q.is_public,
                       export_format |-> f.q.export_format, run_count |-> 0]
    <2>2. row \in Saved!SavedQuery
        BY <2>1, QueryRequestTypes DEF Saved!SavedQuery
    <2>3. row.run_count = 0
        OBVIOUS
    <2>4. PICK i \in QueryIds : /\ queries[i] = Saved!Absent /\ queries' = [queries EXCEPT ![i] = row]
                                /\ queryRuns' = [queryRuns EXCEPT ![i] = Saved!NoRuns]
                                /\ \A g \in QueryHandlers : queryFlight[g].op \in RunOps => queryFlight[g].q.id # i
        <3>1. PICK i \in Saved!FreeIds : /\ queries' = [queries EXCEPT ![i] = row]
                                         /\ queryRuns' = [queryRuns EXCEPT ![i] = Saved!NoRuns]
            BY <1>4 DEF Saved!SaveQuery
        <3>2. i \in QueryIds /\ queries[i] = Saved!Absent
            BY <1>1 DEF Saved!FreeIds, Saved!Free, Saved!Rows
        <3>3. \A g \in QueryHandlers : queryFlight[g].op \in RunOps => queryFlight[g].q.id # i
            BY DEF Saved!FreeIds, RunOps
        <3> QED
            BY <3>1, <3>2, <3>3
    <2>5. UNCHANGED <<exports, exportTasks, exportFiles>>
        BY <1>4 DEF Saved!SaveQuery
    <2> HIDE DEF row
    <2>a. Saved!NoRuns \in [answered: Nat, alone: Nat] /\ Saved!NoRuns.alone = 0 /\ Saved!NoRuns.answered = 0
        BY DEF Saved!NoRuns
    <2>6. queries' \in [QueryIds -> Saved!SavedQuery \cup {Saved!Absent}]
          /\ queryRuns' \in [QueryIds -> [answered: Nat, alone: Nat]]
        BY <1>1, <2>2, <2>4, <2>a
    <2>7. ASSUME NEW j \in Saved!Rows(queries')
          PROVE  queries'[j].run_count \in queryRuns'[j].alone .. queryRuns'[j].answered
        <3>1. j \in QueryIds /\ queries'[j] # Saved!Absent
            BY <2>6 DEF Saved!Rows
        <3>2. CASE j = i
            BY <1>1, <2>3, <2>4, <2>a, <3>2
        <3>3. CASE j # i
            BY <1>1, <2>4, <3>1, <3>3 DEF Saved!Rows, QueriesInv
        <3> QED
            BY <3>2, <3>3
    <2>8. \A e \in Saved!Rows(exports) : exports[e].query \in Saved!Rows(queries')
        BY <1>1, <2>2, <2>4, QueryRequestTypes DEF Saved!Rows, QueriesInv
    <2>9. ASSUME NEW g \in QueryHandlers \ {h} PROVE RunStands(g)'
        <3>1. queryFlight'[g] = queryFlight[g] /\ RunStands(g)
            BY <1>1, <2>1 DEF Saved!Ends, QueriesInv
        <3>2. SUFFICES ASSUME queryFlight[g].op \in RunOps PROVE RunStands(g)'
            BY <3>1 DEF RunStands
        <3>3. queryFlight[g].q.id \in QueryIds \ {i}
            BY <2>4, <3>2, QueryServed DEF RunOps
        <3>4. queryRuns'[queryFlight[g].q.id] = queryRuns[queryFlight[g].q.id]
              /\ queries'[queryFlight[g].q.id] = queries[queryFlight[g].q.id]
            BY <1>1, <2>4, <3>3
        <3> QED
            BY <3>1, <3>4 DEF RunStands
    <2> QED
        BY <1>1, <2>1, <2>5, <2>6, <2>7, <2>8, <2>9, QueryHandlerEnds
        DEF QueriesInv, Saved!TypeOK, Saved!Rows
<1>5. CASE Saved!UpdateQuery(h)
    <2>1. /\ f.q \in Saved!Requests /\ f.q.id \in QueryIds /\ f.q.op \in {"rename", "share", "format"}
          /\ queries[f.q.id] # Saved!Absent /\ Saved!Ends(h)
        BY <1>2, <1>a, <1>5 DEF Saved!UpdateQuery
    <2>2. PICK row \in Saved!SavedQuery :
              queries' = [queries EXCEPT ![f.q.id] = row] /\ row.run_count = queries[f.q.id].run_count
        <3>1. queries[f.q.id] \in Saved!SavedQuery
            BY <1>1, <2>1
        <3>2. CASE Saved!Serve(h, {"rename"}) /\ queries' = [queries EXCEPT ![f.q.id].name = f.q.name]
            <4>1. f.q.name \in QueryNames
                BY <1>2, <3>2, QueryRequestTypes
            <4>2. [queries[f.q.id] EXCEPT !.name = f.q.name] \in Saved!SavedQuery
                BY <3>1, <4>1 DEF Saved!SavedQuery
            <4>3. [queries[f.q.id] EXCEPT !.name = f.q.name].run_count = queries[f.q.id].run_count
                BY <3>1 DEF Saved!SavedQuery
            <4> QED
                BY <3>2, <4>2, <4>3
        <3>3. CASE Saved!Serve(h, {"share"}) /\ queries' = [queries EXCEPT ![f.q.id].is_public = f.q.is_public]
            <4>1. f.q.is_public \in BOOLEAN
                BY <1>2, <3>3, QueryRequestTypes
            <4>2. [queries[f.q.id] EXCEPT !.is_public = f.q.is_public] \in Saved!SavedQuery
                BY <3>1, <4>1 DEF Saved!SavedQuery
            <4>3. [queries[f.q.id] EXCEPT !.is_public = f.q.is_public].run_count = queries[f.q.id].run_count
                BY <3>1 DEF Saved!SavedQuery
            <4> QED
                BY <3>3, <4>2, <4>3
        <3>4. CASE Saved!Serve(h, {"format"}) /\ queries' = [queries EXCEPT ![f.q.id].export_format = TRUE]
            <4>1. [queries[f.q.id] EXCEPT !.export_format = TRUE] \in Saved!SavedQuery
                BY <3>1 DEF Saved!SavedQuery
            <4>2. [queries[f.q.id] EXCEPT !.export_format = TRUE].run_count = queries[f.q.id].run_count
                BY <3>1 DEF Saved!SavedQuery
            <4> QED
                BY <3>4, <4>1, <4>2
        <3> QED
            BY <1>5, <3>2, <3>3, <3>4 DEF Saved!UpdateQuery
    <2>3. UNCHANGED <<exports, exportTasks, exportFiles, queryRuns>>
        BY <1>5 DEF Saved!UpdateQuery
    <2>4. queries' \in [QueryIds -> Saved!SavedQuery \cup {Saved!Absent}]
          /\ Saved!Rows(queries') = Saved!Rows(queries)
        BY <1>1, <2>1, <2>2, QueryRequestTypes DEF Saved!Rows
    <2>5. \A j \in Saved!Rows(queries') :
              queries'[j].run_count \in queryRuns[j].alone .. queryRuns[j].answered
        BY <1>1, <2>1, <2>2, <2>4 DEF Saved!Rows, QueriesInv
    <2>6. \A i : queries[i] # Saved!Absent => queries'[i] # Saved!Absent
        BY <1>1, <2>1, <2>2, QueryRequestTypes
    <2>7. \A g \in QueryHandlers \ {h} : RunStands(g)'
        BY <2>1, <2>3, <2>6, OtherRunsStand
    <2> QED
        BY <1>1, <2>1, <2>3, <2>4, <2>5, <2>7, QueryHandlerEnds
        DEF QueriesInv, Saved!TypeOK, Saved!Rows
<1>6. CASE Saved!DeleteQuery(h)
    <2>1. f.q.id \in QueryIds /\ Saved!Ends(h) /\ ~Saved!Locked(f.q.id)
        BY <1>2, <1>6 DEF Saved!DeleteQuery, Saved!Waits, Saved!OwnerOnly
    <2>2. /\ queries' = [queries EXCEPT ![f.q.id] = Saved!Absent]
          /\ exports' = [e \in ExportIds |->
                IF exports[e] # Saved!Absent /\ exports[e].query = f.q.id THEN Saved!Absent
                ELSE exports[e]]
          /\ UNCHANGED <<exportTasks, exportFiles, queryRuns>>
        BY <1>6 DEF Saved!DeleteQuery
    <2>3. \A e \in Saved!Rows(exports') : exports'[e].query \in Saved!Rows(queries')
        BY <1>1, <2>1, <2>2 DEF Saved!Rows, QueriesInv
    <2>4. \A j \in Saved!Rows(queries') :
              queries'[j].run_count \in queryRuns'[j].alone .. queryRuns'[j].answered
        BY <1>1, <2>1, <2>2 DEF Saved!Rows, QueriesInv
    <2>5. \A i : Saved!Locked(i) /\ queries[i] # Saved!Absent => queries'[i] # Saved!Absent
        BY <1>1, <2>1, <2>2
    <2>6. \A g \in QueryHandlers \ {h} : RunStands(g)'
        BY <2>1, <2>2, <2>5, OtherRunsStand
    <2>7. exports' \in [ExportIds -> Saved!QueryExport \cup {Saved!Absent}]
          /\ queries' \in [QueryIds -> Saved!SavedQuery \cup {Saved!Absent}]
        BY <1>1, <2>2
    <2> QED
        BY <1>1, <2>1, <2>2, <2>3, <2>4, <2>6, <2>7, QueryHandlerEnds DEF QueriesInv, Saved!TypeOK
<1>b. CASE Saved!CountRun(h)
    <2>1. /\ f.op = "run" /\ f \in Saved!Served /\ f.q \in Saved!Requests /\ f.q.op = "run"
          /\ f.q.id \in QueryIds /\ queries[f.q.id] # Saved!Absent
        BY <1>a, <1>b, QueryServed DEF Saved!CountRun
    <2>2. /\ queryFlight' = [queryFlight EXCEPT ![h].op = "counted"]
          /\ UNCHANGED <<queries, exports, exportTasks, exportFiles, queryRuns, runsAlone>>
        BY <1>b DEF Saved!CountRun
    <2> DEFINE c == [f EXCEPT !.op = "counted"]
    <2>3. /\ c \in Saved!Served /\ c.op = "counted" /\ c.q = f.q /\ c.row = f.row
        BY <2>1 DEF Saved!Served
    <2>4. queryFlight' = [queryFlight EXCEPT ![h] = c]
        BY <1>1, <2>2
    <2> HIDE DEF c
    <2>5. queryFlight' \in [QueryHandlers -> {Saved!Idle} \cup Saved!Served]
        BY <1>1, <2>3, <2>4
    <2>6. queryFlight'[h] = c /\ \A g \in QueryHandlers \ {h} : queryFlight'[g] = queryFlight[g]
        BY <1>1, <2>4
    <2>7. \A i : Saved!Runs(i)' = Saved!Runs(i)
        BY <2>1, <2>3, <2>6 DEF Saved!Runs
    <2>8. ASSUME NEW g \in QueryHandlers PROVE HandlerStands(g)' /\ RunStands(g)'
        <3>1. HandlerStands(g) /\ RunStands(g)
            BY DEF QueriesInv
        <3>2. CASE g = h
            <4>1. RunStands(h)'
                BY <2>1, <2>2, <2>3, <2>6, <3>1, <3>2 DEF RunStands, RunOps
            <4>2. HandlerStands(h)'
                BY <2>1, <2>2, <2>3, <2>6, <2>7, <3>1, <3>2 DEF HandlerStands, RunOps
            <4> QED
                BY <3>2, <4>1, <4>2
        <3>3. CASE g # h
            BY <2>2, <2>6, <2>7, <3>1, <3>3 DEF HandlerStands, RunStands
        <3> QED
            BY <3>2, <3>3
    <2> QED
        BY <1>1, <2>2, <2>5, <2>8 DEF QueriesInv, Saved!TypeOK, Saved!Rows
<1>7. CASE Saved!RunQuery(h)
    <2>1. /\ f.op = "counted" /\ f.q.id \in QueryIds /\ Saved!Ends(h)
        BY <1>2, <1>7 DEF Saved!RunQuery
    <2>a. /\ queries[f.q.id] \in Saved!SavedQuery /\ queries[f.q.id] # Saved!Absent
          /\ f.row \in Saved!SavedQuery
          /\ f.row.run_count \in queryRuns[f.q.id].alone .. queryRuns[f.q.id].answered
        BY <1>1, <2>1 DEF QueriesInv, RunStands, RunOps
    <2>2. /\ queries' = [queries EXCEPT ![f.q.id].run_count = f.row.run_count + 1]
          /\ queryRuns' = [queryRuns EXCEPT ![f.q.id] =
                 [answered |-> queryRuns[f.q.id].answered + 1,
                  alone |-> queryRuns[f.q.id].alone + IF h \in runsAlone THEN 1 ELSE 0]]
          /\ Saved!Pending(f.q.id) \/ UNCHANGED <<exports, exportTasks>>
          /\ UNCHANGED exportFiles
        BY <1>7 DEF Saved!RunQuery
    <2> DEFINE row == [queries[f.q.id] EXCEPT !.run_count = f.row.run_count + 1]
               new == [answered |-> queryRuns[f.q.id].answered + 1,
                       alone |-> queryRuns[f.q.id].alone + IF h \in runsAlone THEN 1 ELSE 0]
    <2>3. queryRuns[f.q.id].alone \in Nat /\ queryRuns[f.q.id].answered \in Nat /\ f.row.run_count \in Nat
        BY <1>1, <2>1, <2>a DEF Saved!SavedQuery
    <2>4. row \in Saved!SavedQuery /\ row.run_count = f.row.run_count + 1
        BY <2>a, <2>3 DEF Saved!SavedQuery
    <2>b. /\ new \in [answered: Nat, alone: Nat] /\ row.run_count \in new.alone .. new.answered
          /\ new.answered = queryRuns[f.q.id].answered + 1
          /\ h \notin runsAlone => new.alone = queryRuns[f.q.id].alone
        BY <2>a, <2>3, <2>4
    <2>5. queries' = [queries EXCEPT ![f.q.id] = row] /\ queryRuns' = [queryRuns EXCEPT ![f.q.id] = new]
        BY <1>1, <2>1, <2>2
    <2> HIDE DEF row, new
    <2>6. /\ queries' \in [QueryIds -> Saved!SavedQuery \cup {Saved!Absent}]
          /\ queryRuns' \in [QueryIds -> [answered: Nat, alone: Nat]]
          /\ Saved!Rows(queries') = Saved!Rows(queries)
        BY <1>1, <2>1, <2>a, <2>b, <2>4, <2>5, QueryRequestTypes DEF Saved!Rows
    <2>7. ASSUME NEW j \in Saved!Rows(queries')
          PROVE  queries'[j].run_count \in queryRuns'[j].alone .. queryRuns'[j].answered
        <3>1. j \in QueryIds /\ j \in Saved!Rows(queries)
            BY <1>1, <2>6 DEF Saved!Rows
        <3>2. CASE j = f.q.id
            BY <1>1, <2>1, <2>b, <2>5, <3>2
        <3>3. CASE j # f.q.id
            <4>1. queries'[j] = queries[j] /\ queryRuns'[j] = queryRuns[j]
                BY <1>1, <2>5, <3>1, <3>3
            <4> QED
                BY <3>1, <4>1 DEF QueriesInv
        <3> QED
            BY <3>2, <3>3
    <2>8. /\ exports' \in [ExportIds -> Saved!QueryExport \cup {Saved!Absent}]
          /\ exportTasks' \subseteq ExportIds
          /\ \A e \in Saved!Rows(exports') : exports'[e].query \in Saved!Rows(queries')
        <3>1. CASE Saved!Pending(f.q.id)
            <4>1. f.q.id \in Saved!Rows(queries)
                BY <1>1, <2>1, <2>a DEF Saved!Rows
            <4> HIDE DEF f
            <4> QED
                BY <2>1, <2>6, <3>1, <4>1, ExportPends DEF QueriesInv
        <3>2. CASE UNCHANGED <<exports, exportTasks>>
            BY <1>1, <2>6, <3>2 DEF QueriesInv
        <3> QED
            BY <2>2, <3>1, <3>2
    <2>9. ASSUME NEW g \in QueryHandlers \ {h} PROVE RunStands(g)'
        <3>1. queryFlight'[g] = queryFlight[g] /\ RunStands(g)
            BY <1>1, <2>1 DEF Saved!Ends, QueriesInv
        <3>2. SUFFICES ASSUME queryFlight[g].op \in RunOps PROVE RunStands(g)'
            BY <3>1 DEF RunStands
        <3> DEFINE i == queryFlight[g].q.id
        <3>3. i \in QueryIds
            BY <3>2, QueryServed DEF RunOps
        <3>4. queries[i] # Saved!Absent => queries'[i] # Saved!Absent
            BY <1>1, <2>6, <3>3 DEF Saved!Rows
        <3>5. /\ queryFlight[g].row.run_count \in queryRuns[i].alone .. queryRuns[i].answered
              /\ queryFlight[g].row \in Saved!SavedQuery
            BY <3>1, <3>2 DEF RunStands
        <3>6. queryFlight[g].row.run_count \in queryRuns'[i].alone .. queryRuns'[i].answered
            <4>1. CASE i = f.q.id
                <5>1. g \in Saved!Runs(f.q.id) /\ h # g
                    BY <3>2, <4>1 DEF Saved!Runs, RunOps
                <5>2. h \notin runsAlone
                    BY <2>1, <5>1 DEF QueriesInv, HandlerStands, RunOps
                <5>3. queryRuns'[i] = new
                    BY <1>1, <2>1, <2>5, <4>1
                <5>4. queryFlight[g].row.run_count \in Nat
                    BY <3>5 DEF Saved!SavedQuery
                <5> QED
                    BY <2>3, <2>b, <3>5, <4>1, <5>2, <5>3, <5>4
            <4>2. CASE i # f.q.id
                BY <1>1, <2>5, <3>3, <3>5, <4>2
            <4> QED
                BY <4>1, <4>2
        <3> QED
            BY <3>1, <3>4, <3>5, <3>6 DEF RunStands
    <2> QED
        BY <1>1, <2>1, <2>2, <2>6, <2>7, <2>8, <2>9, QueryHandlerEnds DEF QueriesInv, Saved!TypeOK
<1>8. CASE Saved!ExportQuery(h)
    <2>1. /\ f.q.id \in QueryIds /\ queries[f.q.id] # Saved!Absent /\ Saved!Ends(h)
        BY <1>2, <1>a, <1>8 DEF Saved!ExportQuery
    <2>2. Saved!Pending(f.q.id) /\ UNCHANGED <<queries, exportFiles, queryRuns>>
        BY <1>8 DEF Saved!ExportQuery
    <2>3. /\ exports' \in [ExportIds -> Saved!QueryExport \cup {Saved!Absent}]
          /\ exportTasks' \subseteq ExportIds
          /\ \A e \in Saved!Rows(exports') : exports'[e].query \in Saved!Rows(queries)
        BY <1>1, <2>1, <2>2, ExportPends DEF Saved!Rows, QueriesInv
    <2>4. \A g \in QueryHandlers \ {h} : RunStands(g)'
        BY <2>1, <2>2, OtherRunsStand
    <2> QED
        BY <1>1, <2>1, <2>2, <2>3, <2>4, QueryHandlerEnds DEF QueriesInv, Saved!TypeOK, Saved!Rows
<1>9. CASE Saved!Refuse(h)
    <2>1. Saved!Ends(h) /\ UNCHANGED <<queries, exports, exportTasks, exportFiles, queryRuns>>
        BY <1>9 DEF Saved!Refuse, Saved!Fails
    <2>2. \A g \in QueryHandlers \ {h} : RunStands(g)'
        BY <2>1, OtherRunsStand
    <2> QED
        BY <1>1, <2>1, <2>2, QueryHandlerEnds DEF QueriesInv, Saved!TypeOK, Saved!Rows
<1> QED
    BY <1>4, <1>5, <1>6, <1>b, <1>7, <1>8, <1>9 DEF Saved!Handler

(* A request reads its query; a run that finds another beside it is not      *)
(* alone, nor is that one any more.                                          *)
LEMMA QueryArrives ==
    ASSUME QueriesInv, NEW h \in QueryHandlers, NEW q \in Saved!Requests, Saved!Arrive(h, q)
    PROVE  QueriesInv'
<1>1. /\ queries \in [QueryIds -> Saved!SavedQuery \cup {Saved!Absent}]
      /\ queryFlight \in [QueryHandlers -> {Saved!Idle} \cup Saved!Served]
      /\ runsAlone \subseteq QueryHandlers
    BY DEF QueriesInv, Saved!TypeOK
<1>2. PICK row \in Saved!SavedQuery \cup {Saved!Absent} :
          /\ queryFlight' = [queryFlight EXCEPT ![h] = Saved!Read(q, row)]
          /\ q.op # "save" => row = queries[q.id] /\ row # Saved!Absent /\ q.id \in QueryIds
    BY <1>1, QueryRequestTypes DEF Saved!Arrive, Saved!Reaches
<1>3. /\ Saved!Read(q, row) \in Saved!Served /\ Saved!Read(q, row).op = q.op
      /\ Saved!Read(q, row).q = q /\ Saved!Read(q, row).row = row
    BY DEF Saved!Read, Saved!Served
<1>4. /\ queryFlight[h] = Saved!Idle
      /\ UNCHANGED <<queries, exports, exportTasks, exportFiles, queryRuns>>
      /\ runsAlone' = IF q.op # "run" THEN runsAlone
                      ELSE IF Saved!Runs(q.id) = {} THEN runsAlone \cup {h}
                      ELSE runsAlone \ Saved!Runs(q.id)
    BY DEF Saved!Arrive
<1>5. /\ queryFlight' \in [QueryHandlers -> {Saved!Idle} \cup Saved!Served]
      /\ runsAlone' \subseteq QueryHandlers
    BY <1>1, <1>2, <1>3, <1>4
<1>6. /\ queryFlight'[h] = Saved!Read(q, row)
      /\ \A g \in QueryHandlers \ {h} : queryFlight'[g] = queryFlight[g]
    BY <1>1, <1>2
<1>7. \A i : \A g \in Saved!Runs(i)' : g # h => g \in Saved!Runs(i)
    BY <1>6 DEF Saved!Runs
<1>8. h \in Saved!Runs(q.id)' => q.op = "run"
    BY <1>3, <1>6, QueryRequestTypes DEF Saved!Runs
<1>9. ASSUME NEW g \in QueryHandlers PROVE RunStands(g)'
    <2>1. CASE g = h
        <3>1. SUFFICES ASSUME q.op \in RunOps PROVE RunStands(h)'
            BY <1>3, <1>6, <2>1 DEF RunStands
        <3>2. q.op = "run" /\ q.id \in QueryIds /\ row = queries[q.id] /\ q.id \in Saved!Rows(queries)
            BY <1>1, <1>2, <3>1, QueryRequestTypes DEF RunOps, Saved!Rows
        <3>3. row \in Saved!SavedQuery /\ row.run_count \in queryRuns[q.id].alone .. queryRuns[q.id].answered
            BY <1>2, <3>2 DEF QueriesInv
        <3> QED
            BY <1>3, <1>4, <1>6, <3>2, <3>3 DEF RunStands
    <2>2. CASE g # h
        BY <1>4, <1>6, <2>2 DEF QueriesInv, RunStands
    <2> QED
        BY <2>1, <2>2
<1>10. ASSUME NEW g \in QueryHandlers PROVE HandlerStands(g)'
    <2>1. HandlerStands(g)
        BY DEF QueriesInv
    <2>2. CASE g = h
        <3>1. queryFlight'[h].q.op = IF queryFlight'[h].op = "counted" THEN "run" ELSE queryFlight'[h].op
            BY <1>3, <1>6, QueryRequestTypes
        <3>2. h \notin runsAlone
            BY <1>4, <2>1, <2>2, QueryRequestTypes DEF HandlerStands, RunOps
        <3>3. h \in runsAlone' => q.op = "run" /\ Saved!Runs(q.id) = {}
            BY <1>4, <3>2
        <3>4. h \in runsAlone' => \A k \in Saved!Runs(q.id)' : k = h
            BY <1>7, <3>3
        <3> QED
            BY <1>3, <1>6, <2>2, <3>1, <3>3, <3>4 DEF HandlerStands, RunOps
    <2>3. CASE g # h
        <3>1. queryFlight'[g] = queryFlight[g]
            BY <1>6, <2>3
        <3>4. PICK i : i = queryFlight[g].q.id
            OBVIOUS
        <3>2. ASSUME g \in runsAlone', NEW k \in Saved!Runs(i)'
              PROVE  k = g
            <4>1. g \in runsAlone /\ queryFlight[g].op \in RunOps
                BY <1>4, <2>1, <2>3, <3>2 DEF HandlerStands
            <4>2. g \in Saved!Runs(i)
                BY <3>4, <4>1 DEF Saved!Runs, RunOps
            <4>3. CASE k = h
                <5>1. q.op = "run" /\ q.id = i
                    BY <1>3, <1>6, <3>2, <3>4, <4>3, QueryRequestTypes DEF Saved!Runs
                <5>2. runsAlone' = runsAlone \ Saved!Runs(i)
                    BY <1>4, <4>2, <5>1
                <5> QED
                    BY <3>2, <4>2, <5>2
            <4>4. CASE k # h
                BY <1>7, <2>1, <3>2, <3>4, <4>1, <4>4 DEF HandlerStands
            <4> QED
                BY <4>3, <4>4
        <3>3. g \in runsAlone' => g \in runsAlone
            BY <1>4, <2>3
        <3> QED
            BY <2>1, <3>1, <3>2, <3>3, <3>4 DEF HandlerStands
    <2> QED
        BY <2>2, <2>3
<1> QED
    BY <1>4, <1>5, <1>9, <1>10 DEF QueriesInv, Saved!TypeOK, Saved!Rows

(* A request reads its query, a task runs, the process restarts.             *)
LEMMA QueryOtherSteps ==
    ASSUME QueriesInv,
           \/ Saved!Restart \/ \E e \in ExportIds : Saved!Background(e)
           \/ \E h \in QueryHandlers, q \in Saved!Requests : Saved!Arrive(h, q)
           \/ UNCHANGED Saved!vars
    PROVE  QueriesInv'
<1>1. /\ queries \in [QueryIds -> Saved!SavedQuery \cup {Saved!Absent}]
      /\ queryFlight \in [QueryHandlers -> {Saved!Idle} \cup Saved!Served]
      /\ exportTasks \subseteq ExportIds /\ exportFiles \subseteq ExportIds
    BY DEF QueriesInv, Saved!TypeOK
<1>2. CASE Saved!Restart
    <2>1. /\ queryFlight' = [h \in QueryHandlers |-> Saved!Idle] /\ runsAlone' = {} /\ exportTasks' = {}
          /\ UNCHANGED <<queries, exports, exportFiles, queryRuns>>
        BY <1>2 DEF Saved!Restart
    <2>2. \A h \in QueryHandlers : HandlerStands(h)' /\ RunStands(h)'
        BY <2>1, QueryRequestTypes DEF HandlerStands, RunStands, RunOps
    <2> QED
        BY <2>1, <2>2 DEF QueriesInv, Saved!TypeOK, Saved!Rows
<1>3. ASSUME NEW e \in ExportIds, Saved!Background(e)
      PROVE  QueriesInv'
    <2>1. /\ exportTasks' \subseteq ExportIds /\ exportFiles' \subseteq ExportIds
          /\ UNCHANGED <<queries, exports, queryFlight, queryRuns, runsAlone>>
        BY <1>1, <1>3 DEF Saved!Background
    <2> QED
        BY <2>1 DEF QueriesInv, Saved!TypeOK, Saved!Rows, HandlerStands, RunStands, Saved!Runs
<1>4. CASE UNCHANGED Saved!vars
    BY <1>4 DEF Saved!vars, QueriesInv, Saved!TypeOK, Saved!Rows, HandlerStands, RunStands, Saved!Runs
<1> QED
    BY <1>2, <1>3, <1>4, QueryArrives

(* A run is counted only if it was answered, and every answered run that no  *)
(* other run of its query overlapped is counted (queries.py:211-214), and    *)
(* every export can be polled by whoever sees its query, and somebody does   *)
(* (queries.py:334), for any users, queries, exports and handlers.           *)
THEOREM RunsAreCounted == Saved!Spec => []RunsCounted
<1>1. Saved!Init => QueriesInv
    <2> SUFFICES ASSUME Saved!Init PROVE QueriesInv
        OBVIOUS
    <2>1. Saved!NoRuns \in [answered: Nat, alone: Nat]
        BY DEF Saved!NoRuns
    <2>2. \A h \in QueryHandlers : HandlerStands(h) /\ RunStands(h)
        BY QueryRequestTypes DEF Saved!Init, HandlerStands, RunStands, RunOps
    <2> QED
        BY <2>1, <2>2 DEF Saved!Init, QueriesInv, Saved!TypeOK, Saved!Rows
<1>2. QueriesInv /\ [Saved!Next]_(Saved!vars) => QueriesInv'
    BY QueryHandlerStep, QueryOtherSteps DEF Saved!Next
<1>3. QueriesInv => RunsCounted
    <2> SUFFICES ASSUME QueriesInv, NEW e \in Saved!Rows(exports)
                 PROVE  \E u \in QueryUsers : \E i \in Saved!ListQueries(u) : e \in Saved!ListExports(i)
        BY DEF QueriesInv, RunsCounted, Saved!RunsCounted
    <2> DEFINE i == exports[e].query
    <2>1. i \in Saved!Rows(queries)
        BY DEF QueriesInv
    <2>2. queries[i].owner \in QueryUsers
        BY <2>1 DEF QueriesInv, Saved!TypeOK, Saved!Rows, Saved!SavedQuery
    <2>3. i \in Saved!ListQueries(queries[i].owner) /\ e \in Saved!ListExports(i)
        BY <2>1 DEF Saved!ListQueries, Saved!ListExports
    <2> QED
        BY <2>2, <2>3
<1> QED
    BY <1>1, <1>2, <1>3, PTL DEF Saved!Spec

----------------------------------------------------------------------------
(* Tenant settings and Stripe *)

(* A checkout that has a customer has one that was made for its tenant, and  *)
(* so has a row.                                                             *)
CheckoutsOwn ==
    \A h \in SettingsHandlers :
        settingsFlight[h] \in Stripe!Checkout /\ settingsFlight[h].customer # Stripe!None
            => stripeCustomers[settingsFlight[h].customer] = settingsFlight[h].tenant
PortalsOwn ==
    \A t \in PayingTenants :
        payingTenants[t].stripe_customer_id # Stripe!None
            => stripeCustomers[payingTenants[t].stripe_customer_id] = t
PlanStands(row, t) ==
    /\ row.subscription_status = Stripe!None => row.plan = SignupPlans[t]
    /\ row.subscription_status = "active" => row.plan \in paidPlans[t]
    /\ row.subscription_status \notin {Stripe!None, "active"} => row.plan = "starter"
PlansPaid == \A t \in PayingTenants : PlanStands(payingTenants[t], t)

(* The inductive invariant.  An event may come at any time and again, so     *)
(* what has to hold of it is what no later event takes back: that the        *)
(* subscription it calls active has been active.                             *)
PlanInv ==
    /\ Stripe!TypeOK /\ CheckoutsOwn /\ PortalsOwn /\ PlansPaid
    /\ \A sub \in stripeEvents : sub.status = "active" => sub.plan \in paidPlans[sub.tenant]

(* "none" is the name of no tenant: tenants are named by UUIDs.              *)
NoneIsNoTenant == Stripe!None \notin PayingTenants

(* Requests are told apart by what they are for.                             *)
LEMMA SettingsRequests ==
    /\ \A f \in Stripe!Checkout :
         /\ f.op = "checkout" /\ f # Stripe!Idle /\ f \notin Stripe!Notify
         /\ f.tenant \in PayingTenants /\ f.plan \in StripePrices
         /\ f.customer \in StripeCustomers \cup {Stripe!None}
    /\ \A f \in Stripe!Notify :
         /\ f.op = "notify" /\ f # Stripe!Idle /\ f.tenant \in PayingTenants
         /\ f.req \in Stripe!Requests /\ f.existing \in Stripe!Requests
    /\ Stripe!Idle.op \notin {"checkout", "notify"} /\ Stripe!Idle \notin Stripe!Checkout
<1>1. Stripe!Idle.op = "idle"
    BY DEF Stripe!Idle
<1>2. \A f \in Stripe!Checkout : f.op = "checkout"
    BY DEF Stripe!Checkout
<1>3. \A f \in Stripe!Notify : f.op = "notify"
    BY DEF Stripe!Notify
<1>4. \A f \in Stripe!Checkout :
         /\ f.tenant \in PayingTenants /\ f.plan \in StripePrices
         /\ f.customer \in StripeCustomers \cup {Stripe!None}
    BY DEF Stripe!Checkout
<1>5. \A f \in Stripe!Notify :
         /\ f.tenant \in PayingTenants
         /\ f.req \in Stripe!Requests /\ f.existing \in Stripe!Requests
    BY DEF Stripe!Notify
<1> QED
    BY <1>1, <1>2, <1>3, <1>4, <1>5

(* Settings merged with settings are settings.                               *)
LEMMA MergedAreSettings ==
    ASSUME NEW old \in Stripe!Requests, NEW new \in Stripe!Requests
    PROVE  Stripe!Merged(old, new) \in Stripe!Requests
<1>1. PICK C \in SUBSET NotifyChannels : old \in [C -> NotifySecrets]
    BY DEF Stripe!Requests
<1>2. PICK D \in SUBSET NotifyChannels : new \in [D -> NotifySecrets]
    BY DEF Stripe!Requests
<1>3. Stripe!Merged(old, new) \in [C \cup D -> NotifySecrets]
    BY <1>1, <1>2 DEF Stripe!Merged
<1>4. C \cup D \in SUBSET NotifyChannels
    OBVIOUS
<1> QED
    BY <1>3, <1>4 DEF Stripe!Requests

(* One row changes, to a plan that was paid and a customer of its own.       *)
LEMMA SettingsChanged ==
    ASSUME PlanInv, NEW t \in PayingTenants, NEW row \in Stripe!TenantRow,
           payingTenants' = [payingTenants EXCEPT ![t] = row],
           PlanStands(row, t),
           row.stripe_customer_id # Stripe!None => stripeCustomers[row.stripe_customer_id] = t,
           UNCHANGED <<stripeCustomers, paidPlans>>
    PROVE  /\ payingTenants' \in [PayingTenants -> Stripe!TenantRow]
           /\ PortalsOwn' /\ PlansPaid'
<1>1. payingTenants \in [PayingTenants -> Stripe!TenantRow]
    BY DEF PlanInv, Stripe!TypeOK
<1>2. payingTenants'[t] = row /\ \A s \in PayingTenants : s # t => payingTenants'[s] = payingTenants[s]
    BY <1>1
<1>3. PortalsOwn'
    BY <1>2 DEF PlanInv, PortalsOwn
<1>4. PlansPaid'
    BY <1>2 DEF PlanInv, PlansPaid, PlanStands
<1> QED
    BY <1>1, <1>3, <1>4

(* One handler goes on, with a customer of its tenant or none.               *)
LEMMA SettingsHandlerMoves ==
    ASSUME PlanInv, NEW h \in SettingsHandlers,
           NEW f \in {Stripe!Idle} \cup Stripe!Checkout \cup Stripe!Notify,
           settingsFlight' = [settingsFlight EXCEPT ![h] = f],
           f \in Stripe!Checkout /\ f.customer # Stripe!None => stripeCustomers'[f.customer] = f.tenant,
           \A c \in StripeCustomers : stripeCustomers[c] # Stripe!None => stripeCustomers'[c] = stripeCustomers[c],
           NoneIsNoTenant
    PROVE  /\ settingsFlight' \in [SettingsHandlers -> {Stripe!Idle} \cup Stripe!Checkout \cup Stripe!Notify]
           /\ CheckoutsOwn'
<1>1. settingsFlight \in [SettingsHandlers -> {Stripe!Idle} \cup Stripe!Checkout \cup Stripe!Notify]
    BY DEF PlanInv, Stripe!TypeOK
<1>2. settingsFlight'[h] = f /\ \A g \in SettingsHandlers : g # h => settingsFlight'[g] = settingsFlight[g]
    BY <1>1
<1>3. Stripe!None' = Stripe!None /\ Stripe!Checkout' = Stripe!Checkout
    BY DEF Stripe!None, Stripe!Checkout
<1>4. ASSUME NEW g \in SettingsHandlers, g # h, settingsFlight[g] \in Stripe!Checkout,
             settingsFlight[g].customer # Stripe!None
      PROVE  stripeCustomers'[settingsFlight[g].customer] = settingsFlight[g].tenant
    <2>1. stripeCustomers[settingsFlight[g].customer] = settingsFlight[g].tenant
        BY <1>4 DEF PlanInv, CheckoutsOwn
    <2>2. /\ settingsFlight[g].customer \in StripeCustomers
          /\ settingsFlight[g].tenant # Stripe!None
        BY <1>4, SettingsRequests DEF NoneIsNoTenant
    <2> QED
        BY <2>1, <2>2
<1> QED
    BY <1>1, <1>2, <1>3, <1>4 DEF CheckoutsOwn

(* The steps of requests of administrators.                                  *)
LEMMA SettingsHandlerStep ==
    ASSUME PlanInv, NoneIsNoTenant, NEW h \in SettingsHandlers,
           \/ \E t \in PayingTenants :
                \/ \E plan \in StripePrices : Stripe!create_checkout_session(h, t, plan)
                \/ \E req \in Stripe!Requests : Stripe!update_notification_settings(h, t, req)
           \/ \E c \in StripeCustomers : Stripe!CreateCustomer(h, c)
           \/ Stripe!CreateSession(h) \/ Stripe!StripeError(h) \/ Stripe!WriteConfig(h)
    PROVE  PlanInv'
<1> DEFINE f == settingsFlight[h]
<1>1. /\ payingTenants \in [PayingTenants -> Stripe!TenantRow]
      /\ settingsFlight \in [SettingsHandlers -> {Stripe!Idle} \cup Stripe!Checkout \cup Stripe!Notify]
      /\ stripeCustomers \in [StripeCustomers -> PayingTenants \cup {Stripe!None}]
      /\ checkoutSessions \subseteq [tenant: PayingTenants, plan: StripePrices]
    BY DEF PlanInv, Stripe!TypeOK
<1>2. /\ f.op = "checkout" => f \in Stripe!Checkout
      /\ f.op = "notify" => f \in Stripe!Notify
    BY <1>1, SettingsRequests
<1>3. ASSUME NEW t \in PayingTenants, NEW plan \in StripePrices,
             Stripe!create_checkout_session(h, t, plan)
      PROVE  PlanInv'
    <2> DEFINE g == [op |-> "checkout", tenant |-> t, plan |-> plan,
                     customer |-> payingTenants[t].stripe_customer_id, made |-> FALSE]
    <2>1. /\ settingsFlight' = [settingsFlight EXCEPT ![h] = g]
          /\ UNCHANGED <<payingTenants, stripeCustomers, checkoutSessions, subscriptions, stripeEvents, paidPlans>>
        BY <1>3 DEF Stripe!create_checkout_session, Stripe!stripe
    <2>2. payingTenants[t].stripe_customer_id \in StripeCustomers \cup {Stripe!None}
        BY <1>1 DEF Stripe!TenantRow
    <2>3. g \in Stripe!Checkout
        BY <2>2 DEF Stripe!Checkout
    <2>4. g.customer # Stripe!None => stripeCustomers'[g.customer] = g.tenant
        BY <2>1 DEF PlanInv, PortalsOwn
    <2> HIDE DEF g
    <2>5. /\ settingsFlight' \in [SettingsHandlers -> {Stripe!Idle} \cup Stripe!Checkout \cup Stripe!Notify]
          /\ CheckoutsOwn'
        BY <2>1, <2>3, <2>4, SettingsHandlerMoves
    <2> QED
        BY <2>1, <2>5 DEF PlanInv, Stripe!TypeOK, PortalsOwn, PlansPaid, PlanStands
<1>4. ASSUME NEW t \in PayingTenants, NEW req \in Stripe!Requests,
             Stripe!update_notification_settings(h, t, req)
      PROVE  PlanInv'
    <2> DEFINE g == [op |-> "notify", tenant |-> t, req |-> req,
                     existing |-> payingTenants[t].notification_config]
    <2>1. /\ settingsFlight' = [settingsFlight EXCEPT ![h] = g]
          /\ UNCHANGED <<payingTenants, stripeCustomers, checkoutSessions, subscriptions, stripeEvents, paidPlans>>
        BY <1>4 DEF Stripe!update_notification_settings, Stripe!stripe
    <2>2. payingTenants[t].notification_config \in Stripe!Requests
        BY <1>1 DEF Stripe!TenantRow
    <2>3. g \in Stripe!Notify
        BY <2>2 DEF Stripe!Notify
    <2> HIDE DEF g
    <2>4. g \notin Stripe!Checkout
        BY <2>3, SettingsRequests
    <2>5. /\ settingsFlight' \in [SettingsHandlers -> {Stripe!Idle} \cup Stripe!Checkout \cup Stripe!Notify]
          /\ CheckoutsOwn'
        BY <2>1, <2>3, <2>4, SettingsHandlerMoves
    <2> QED
        BY <2>1, <2>5 DEF PlanInv, Stripe!TypeOK, PortalsOwn, PlansPaid, PlanStands
<1>5. ASSUME NEW c \in StripeCustomers, Stripe!CreateCustomer(h, c)
      PROVE  PlanInv'
    <2> DEFINE g == [f EXCEPT !.customer = c, !.made = TRUE]
    <2>1. /\ f \in Stripe!Checkout /\ stripeCustomers[c] = Stripe!None
          /\ stripeCustomers' = [stripeCustomers EXCEPT ![c] = f.tenant]
          /\ settingsFlight' = [settingsFlight EXCEPT ![h] = g]
          /\ UNCHANGED <<payingTenants, checkoutSessions, subscriptions, stripeEvents, paidPlans>>
        BY <1>2, <1>5 DEF Stripe!CreateCustomer
    <2>2. g \in Stripe!Checkout /\ g.customer = c /\ g.tenant = f.tenant
        BY <2>1 DEF Stripe!Checkout
    <2> HIDE DEF g
    <2>3. /\ stripeCustomers'[c] = f.tenant /\ f.tenant \in PayingTenants
          /\ \A d \in StripeCustomers : d # c => stripeCustomers'[d] = stripeCustomers[d]
          /\ stripeCustomers' \in [StripeCustomers -> PayingTenants \cup {Stripe!None}]
        BY <1>1, <2>1, SettingsRequests
    <2>4. /\ settingsFlight' \in [SettingsHandlers -> {Stripe!Idle} \cup Stripe!Checkout \cup Stripe!Notify]
          /\ CheckoutsOwn'
        BY <2>1, <2>2, <2>3, SettingsHandlerMoves
    <2>5. PortalsOwn'
        <3>1. ASSUME NEW t \in PayingTenants, payingTenants[t].stripe_customer_id # Stripe!None
              PROVE  stripeCustomers'[payingTenants[t].stripe_customer_id] = t
            <4>1. payingTenants[t].stripe_customer_id \in StripeCustomers
                BY <1>1, <3>1 DEF Stripe!TenantRow
            <4>2. stripeCustomers[payingTenants[t].stripe_customer_id] = t
                BY <3>1 DEF PlanInv, PortalsOwn
            <4> QED
                BY <2>1, <2>3, <4>1, <4>2 DEF NoneIsNoTenant
        <3> QED
            BY <2>1, <3>1 DEF PortalsOwn
    <2> QED
        BY <2>1, <2>3, <2>4, <2>5 DEF PlanInv, Stripe!TypeOK, PlansPaid, PlanStands
<1>6. CASE Stripe!CreateSession(h)
    <2> DEFINE row == [payingTenants[f.tenant] EXCEPT
                           !.stripe_customer_id = IF f.made THEN f.customer ELSE @]
    <2>1. /\ f \in Stripe!Checkout /\ f.customer # Stripe!None
          /\ checkoutSessions' = checkoutSessions \cup {[tenant |-> f.tenant, plan |-> f.plan]}
          /\ payingTenants' = [payingTenants EXCEPT ![f.tenant] = row]
          /\ settingsFlight' = [settingsFlight EXCEPT ![h] = Stripe!Idle]
          /\ UNCHANGED <<stripeCustomers, subscriptions, stripeEvents, paidPlans>>
        BY <1>2, <1>6 DEF Stripe!CreateSession
    <2>2. /\ f.tenant \in PayingTenants /\ f.plan \in StripePrices /\ f.customer \in StripeCustomers
          /\ stripeCustomers[f.customer] = f.tenant
        BY <2>1, SettingsRequests DEF PlanInv, CheckoutsOwn
    <2>3. payingTenants[f.tenant] \in Stripe!TenantRow
        BY <1>1, <2>2
    <2>4. /\ row \in Stripe!TenantRow
          /\ row.stripe_customer_id \in {f.customer, payingTenants[f.tenant].stripe_customer_id}
          /\ row.plan = payingTenants[f.tenant].plan
          /\ row.subscription_status = payingTenants[f.tenant].subscription_status
        BY <2>2, <2>3 DEF Stripe!TenantRow
    <2> HIDE DEF row
    <2>a. PlanStands(row, f.tenant)
        BY <2>2, <2>4 DEF PlanInv, PlansPaid, PlanStands
    <2>b. row.stripe_customer_id # Stripe!None => stripeCustomers[row.stripe_customer_id] = f.tenant
        BY <2>2, <2>4 DEF PlanInv, PortalsOwn
    <2>5. payingTenants' \in [PayingTenants -> Stripe!TenantRow] /\ PortalsOwn' /\ PlansPaid'
        BY <2>1, <2>2, <2>4, <2>a, <2>b, SettingsChanged
    <2>6. /\ settingsFlight' \in [SettingsHandlers -> {Stripe!Idle} \cup Stripe!Checkout \cup Stripe!Notify]
          /\ CheckoutsOwn'
        BY <2>1, SettingsRequests, SettingsHandlerMoves
    <2>7. checkoutSessions' \subseteq [tenant: PayingTenants, plan: StripePrices]
        BY <1>1, <2>1, <2>2
    <2> QED
        BY <2>1, <2>5, <2>6, <2>7 DEF PlanInv, Stripe!TypeOK
<1>7. CASE Stripe!StripeError(h)
    <2>1. /\ settingsFlight' = [settingsFlight EXCEPT ![h] = Stripe!Idle]
          /\ UNCHANGED <<payingTenants, stripeCustomers, checkoutSessions, subscriptions, stripeEvents, paidPlans>>
        BY <1>7 DEF Stripe!StripeError, Stripe!stripe
    <2>2. /\ settingsFlight' \in [SettingsHandlers -> {Stripe!Idle} \cup Stripe!Checkout \cup Stripe!Notify]
          /\ CheckoutsOwn'
        BY <2>1, SettingsRequests, SettingsHandlerMoves
    <2> QED
        BY <2>1, <2>2 DEF PlanInv, Stripe!TypeOK, PortalsOwn, PlansPaid, PlanStands
<1>8. CASE Stripe!WriteConfig(h)
    <2> DEFINE config == Stripe!Merged(f.existing, f.req)
               row == [payingTenants[f.tenant] EXCEPT !.notification_config = config]
    <2>1. /\ f \in Stripe!Notify
          /\ payingTenants' = [payingTenants EXCEPT ![f.tenant] = row]
          /\ settingsFlight' = [settingsFlight EXCEPT ![h] = Stripe!Idle]
          /\ UNCHANGED <<stripeCustomers, checkoutSessions, subscriptions, stripeEvents, paidPlans>>
        BY <1>2, <1>8 DEF Stripe!WriteConfig, Stripe!stripe
    <2>2. f.tenant \in PayingTenants /\ config \in Stripe!Requests
        BY <2>1, SettingsRequests, MergedAreSettings
    <2> HIDE DEF config
    <2>3. payingTenants[f.tenant] \in Stripe!TenantRow
        BY <1>1, <2>2
    <2>4. /\ row \in Stripe!TenantRow /\ row.plan = payingTenants[f.tenant].plan
          /\ row.subscription_status = payingTenants[f.tenant].subscription_status
          /\ row.stripe_customer_id = payingTenants[f.tenant].stripe_customer_id
        BY <2>2, <2>3 DEF Stripe!TenantRow
    <2> HIDE DEF row
    <2>a. PlanStands(row, f.tenant)
        BY <2>2, <2>4 DEF PlanInv, PlansPaid, PlanStands
    <2>5. payingTenants' \in [PayingTenants -> Stripe!TenantRow] /\ PortalsOwn' /\ PlansPaid'
        BY <2>1, <2>2, <2>4, <2>a, SettingsChanged DEF PlanInv, PortalsOwn
    <2>6. /\ settingsFlight' \in [SettingsHandlers -> {Stripe!Idle} \cup Stripe!Checkout \cup Stripe!Notify]
          /\ CheckoutsOwn'
        BY <2>1, SettingsRequests, SettingsHandlerMoves
    <2> QED
        BY <2>1, <2>5, <2>6 DEF PlanInv, Stripe!TypeOK
<1> QED
    BY <1>3, <1>4, <1>5, <1>6, <1>7, <1>8

(* Stripe's own steps: plans that were paid stay paid.                       *)
LEMMA SubscriptionChanges ==
    ASSUME PlanInv, NEW sub \in Stripe!Subscription, Stripe!Changed(sub),
           subscriptions' \in Seq(Stripe!Subscription), checkoutSessions' \subseteq checkoutSessions
    PROVE  PlanInv'
<1>1. /\ paidPlans \in [PayingTenants -> SUBSET StripePrices]
      /\ sub.tenant \in PayingTenants /\ sub.plan \in StripePrices
      /\ \A x \in stripeEvents : x \in Stripe!Subscription /\ x.tenant \in PayingTenants
    BY DEF PlanInv, Stripe!TypeOK, Stripe!Subscription
<1>2. /\ stripeEvents' = stripeEvents \cup {sub}
      /\ UNCHANGED <<payingTenants, settingsFlight, stripeCustomers>>
    BY DEF Stripe!Changed
<1>3. /\ paidPlans' \in [PayingTenants -> SUBSET StripePrices]
      /\ \A t \in PayingTenants : paidPlans[t] \subseteq paidPlans'[t]
      /\ sub.status = "active" => sub.plan \in paidPlans'[sub.tenant]
    BY <1>1 DEF Stripe!Changed
<1>4. PlansPaid'
    BY <1>2, <1>3 DEF PlanInv, PlansPaid, PlanStands
<1>5. \A x \in stripeEvents' : x.status = "active" => x.plan \in paidPlans'[x.tenant]
    BY <1>1, <1>2, <1>3 DEF PlanInv
<1>6. Stripe!TypeOK'
    BY <1>1, <1>2, <1>3 DEF PlanInv, Stripe!TypeOK
<1> QED
    BY <1>2, <1>4, <1>5, <1>6 DEF PlanInv, CheckoutsOwn, PortalsOwn

(* What other than handlers does.                                            *)
LEMMA SettingsOtherSteps ==
    ASSUME PlanInv,
           \/ \E t \in PayingTenants, name \in TenantNames : Stripe!update_tenant_settings(t, name)
           \/ \E s \in checkoutSessions : Stripe!Subscribe(s)
           \/ \E n \in 1 .. Len(subscriptions) : Stripe!ChangeStatus(n)
           \/ \E sub \in stripeEvents : Stripe!stripe_webhook(sub)
           \/ UNCHANGED Stripe!vars
    PROVE  PlanInv'
<1>1. /\ payingTenants \in [PayingTenants -> Stripe!TenantRow]
      /\ checkoutSessions \subseteq [tenant: PayingTenants, plan: StripePrices]
      /\ subscriptions \in Seq(Stripe!Subscription) /\ stripeEvents \subseteq Stripe!Subscription
    BY DEF PlanInv, Stripe!TypeOK
<1>2. ASSUME NEW t \in PayingTenants, NEW row \in Stripe!TenantRow,
             payingTenants' = [payingTenants EXCEPT ![t] = row],
             PlanStands(row, t),
             row.stripe_customer_id = payingTenants[t].stripe_customer_id,
             UNCHANGED <<settingsFlight, stripeCustomers, checkoutSessions, subscriptions, stripeEvents, paidPlans>>
      PROVE  PlanInv'
    <2>1. payingTenants' \in [PayingTenants -> Stripe!TenantRow] /\ PortalsOwn' /\ PlansPaid'
        BY <1>2, SettingsChanged DEF PlanInv, PortalsOwn
    <2> QED
        BY <1>2, <2>1 DEF PlanInv, Stripe!TypeOK, CheckoutsOwn
<1>3. ASSUME NEW t \in PayingTenants, NEW name \in TenantNames, Stripe!update_tenant_settings(t, name)
      PROVE  PlanInv'
    <2> DEFINE row == [payingTenants[t] EXCEPT !.name = name]
    <2>1. row \in Stripe!TenantRow /\ row.plan = payingTenants[t].plan
          /\ row.subscription_status = payingTenants[t].subscription_status
          /\ row.stripe_customer_id = payingTenants[t].stripe_customer_id
        BY <1>1 DEF Stripe!TenantRow
    <2>2. /\ payingTenants' = [payingTenants EXCEPT ![t] = row]
          /\ UNCHANGED <<settingsFlight, stripeCustomers, checkoutSessions, subscriptions, stripeEvents, paidPlans>>
        BY <1>3 DEF Stripe!update_tenant_settings, Stripe!stripe
    <2> HIDE DEF row
    <2>3. PlanStands(row, t)
        BY <2>1 DEF PlanInv, PlansPaid, PlanStands
    <2> QED
        BY <1>2, <2>1, <2>2, <2>3
<1>4. ASSUME NEW s \in checkoutSessions, Stripe!Subscribe(s)
      PROVE  PlanInv'
    <2>1. PICK status \in {"incomplete", "active"} :
              /\ subscriptions' = Append(subscriptions, [tenant |-> s.tenant, plan |-> s.plan, status |-> status])
              /\ Stripe!Changed([tenant |-> s.tenant, plan |-> s.plan, status |-> status])
        BY <1>4 DEF Stripe!Subscribe
    <2>2. [tenant |-> s.tenant, plan |-> s.plan, status |-> status] \in Stripe!Subscription
        BY <1>1, <1>4 DEF Stripe!Subscription, Stripe!Follows
    <2>3. subscriptions' \in Seq(Stripe!Subscription)
        BY <1>1, <2>1, <2>2
    <2>4. checkoutSessions' \subseteq checkoutSessions
        BY <1>4 DEF Stripe!Subscribe
    <2> QED
        BY <2>1, <2>2, <2>3, <2>4, SubscriptionChanges
<1>5. ASSUME NEW n \in 1 .. Len(subscriptions), Stripe!ChangeStatus(n)
      PROVE  PlanInv'
    <2>1. subscriptions[n] \in Stripe!Subscription
        BY <1>1, <1>5
    <2>2. PICK status \in Stripe!Follows[subscriptions[n].status] :
              /\ subscriptions' = [subscriptions EXCEPT ![n] = [subscriptions[n] EXCEPT !.status = status]]
              /\ Stripe!Changed([subscriptions[n] EXCEPT !.status = status])
        BY <1>5 DEF Stripe!ChangeStatus
    <2>3. status \in DOMAIN Stripe!Follows
        BY <2>1, <2>2 DEF Stripe!Follows, Stripe!Subscription
    <2>4. [subscriptions[n] EXCEPT !.status = status] \in Stripe!Subscription
        BY <2>1, <2>3 DEF Stripe!Subscription
    <2>5. subscriptions' \in Seq(Stripe!Subscription) /\ checkoutSessions' = checkoutSessions
        BY <1>1, <1>5, <2>2, <2>4 DEF Stripe!ChangeStatus
    <2> QED
        BY <2>2, <2>4, <2>5, SubscriptionChanges
<1>6. ASSUME NEW sub \in stripeEvents, Stripe!stripe_webhook(sub)
      PROVE  PlanInv'
    <2> DEFINE row == [payingTenants[sub.tenant] EXCEPT !.subscription_status = sub.status,
                                                        !.plan = Stripe!GrantedPlan(sub)]
    <2>1. /\ sub \in Stripe!Subscription /\ sub.tenant \in PayingTenants
          /\ sub.status \in DOMAIN Stripe!Follows
        BY <1>1, <1>6 DEF Stripe!Subscription
    <2>2. /\ Stripe!GrantedPlan(sub) \in IF sub.status = "active" THEN paidPlans[sub.tenant] ELSE {"starter"}
          /\ Stripe!GrantedPlan(sub) \in StripePrices \cup {"starter"}
        BY <1>6, <2>1 DEF Stripe!GrantedPlan, PlanInv, Stripe!Subscription
    <2>3. /\ row \in Stripe!TenantRow /\ row.plan = Stripe!GrantedPlan(sub)
          /\ row.subscription_status = sub.status
          /\ row.stripe_customer_id = payingTenants[sub.tenant].stripe_customer_id
        <3>1. payingTenants[sub.tenant] \in Stripe!TenantRow
            BY <1>1, <2>1
        <3>2. PICK old \in Stripe!TenantRow : old = payingTenants[sub.tenant]
            BY <3>1
        <3>3. PICK plan \in StripePrices \cup {"starter"} : plan = Stripe!GrantedPlan(sub)
            BY <2>2
        <3>4. PICK status \in DOMAIN Stripe!Follows : status = sub.status
            BY <2>1
        <3>5. row = [old EXCEPT !.subscription_status = status, !.plan = plan]
            BY <3>2, <3>3, <3>4
        <3> HIDE DEF row
        <3>6. /\ row \in Stripe!TenantRow /\ row.plan = plan /\ row.subscription_status = status
              /\ row.stripe_customer_id = old.stripe_customer_id
            BY <3>5 DEF Stripe!TenantRow
        <3> QED
            BY <3>2, <3>3, <3>4, <3>6
    <2>4. /\ payingTenants' = [payingTenants EXCEPT ![sub.tenant] = row]
          /\ UNCHANGED <<settingsFlight, stripeCustomers, checkoutSessions, subscriptions, stripeEvents, paidPlans>>
        BY <1>6 DEF Stripe!stripe_webhook, Stripe!stripe
    <2> HIDE DEF row
    <2>5. sub.status # Stripe!None
        BY <2>1 DEF Stripe!Follows, Stripe!None
    <2>6. PlanStands(row, sub.tenant)
        BY <2>2, <2>3, <2>5 DEF PlanStands
    <2> QED
        BY <1>2, <2>1, <2>3, <2>4, <2>6
<1>7. CASE UNCHANGED Stripe!vars
    BY <1>7 DEF Stripe!vars, PlanInv, Stripe!TypeOK, CheckoutsOwn, PortalsOwn, PlansPaid,
             PlanStands
<1> QED
    BY <1>3, <1>4, <1>5, <1>6, <1>7

(* However late, often and out of order Stripe's events arrive, and however  *)
(* many checkouts overlap: from the first event on a tenant is shown on a    *)
(* paid plan only with an active subscription beside it, and only if one of  *)
(* its own to that plan has been active (settings.py:258), until then on the *)
(* plan it was created with; and the portal it is sent to is that of a       *)
(* customer made for it, for any tenants, plans, prices and customers and    *)
(* any number of subscriptions.                                              *)
THEOREM PlansWerePaid == ASSUME NoneIsNoTenant PROVE Stripe!Spec => []PlanWasPaid
<1>1. Stripe!Init => PlanInv
    <2> SUFFICES ASSUME Stripe!Init PROVE PlanInv
        OBVIOUS
    <2> DEFINE row(t) == [name |-> Stripe!None, plan |-> SignupPlans[t], subscription_status |-> Stripe!None,
                          stripe_customer_id |-> Stripe!None, notification_config |-> [c \in {} |-> Stripe!None]]
    <2>1. [c \in {} |-> Stripe!None] \in [{} -> NotifySecrets]
        OBVIOUS
    <2>2. [c \in {} |-> Stripe!None] \in Stripe!Requests
        BY <2>1 DEF Stripe!Requests
    <2>3. \A t \in PayingTenants :
             /\ row(t) \in Stripe!TenantRow /\ row(t).plan = SignupPlans[t]
             /\ row(t).subscription_status = Stripe!None /\ row(t).stripe_customer_id = Stripe!None
        BY <2>2 DEF Stripe!TenantRow
    <2>4. payingTenants = [t \in PayingTenants |-> row(t)]
        BY DEF Stripe!Init
    <2> HIDE DEF row
    <2>5. Stripe!TypeOK
        BY <2>3, <2>4 DEF Stripe!Init, Stripe!TypeOK
    <2>6. PortalsOwn
        BY <2>3, <2>4 DEF PortalsOwn
    <2>7. CheckoutsOwn
        BY SettingsRequests DEF Stripe!Init, CheckoutsOwn
    <2>8. PlansPaid
        BY <2>3, <2>4 DEF PlansPaid, PlanStands, Stripe!None
    <2> QED
        BY <2>5, <2>6, <2>7, <2>8 DEF PlanInv, Stripe!Init
<1>2. PlanInv /\ [Stripe!Next]_(Stripe!vars) => PlanInv'
    BY SettingsHandlerStep, SettingsOtherSteps DEF Stripe!Next
<1>3. PlanInv => PlanWasPaid
    BY DEF PlanInv, PortalsOwn, PlansPaid, PlanStands, PlanWasPaid, Stripe!PlanWasPaid,
           Stripe!BillingInfo, Stripe!TenantSettings
<1> QED
    BY <1>1, <1>2, <1>3, PTL DEF Stripe!Spec

----------------------------------------------------------------------------
(* Usage and the bill made of it *)

(* The counts of a snapshot, of which only the step and whether it is real   *)
(* matter here: none is real before it has run.                              *)
IsCount(c) ==
    /\ DOMAIN c = {"step", "c", "good"}
    /\ c.step \in {"verify", "run"} => c.good = FALSE
CountsStand ==
    /\ DOMAIN usageQuery = UsageQueries
    /\ \A q \in UsageQueries : IsCount(usageQuery[q])
SomeReal == \E q \in UsageQueries : usageQuery[q].good = TRUE
AllWait == \A q \in UsageQueries : usageQuery[q].step \in {"verify", "run"}

(* The inductive invariant.  Whoever closes the shared driver first was not  *)
(* disturbed by anybody, so that its own count is real.                      *)
SnapshotInv ==
    /\ CountsStand
    /\ (usageTenant # Usage!Nobody /\ usageFaulty = FALSE) =>
          \/ SomeReal
          \/ sharedDriver = "open" /\ AllWait
    /\ (bill.made = TRUE /\ bill.faulty = FALSE) => bill.good # {}

(* A snapshot counts something (usage.py:231).                               *)
SomethingCounted == UsageQueries # {}

(* One count goes on, of a snapshot that stays valid: a real one stays real, *)
(* and to leave the first two steps it must be real or come too late.        *)
LEMMA CountGoesOn ==
    ASSUME SnapshotInv, NEW q \in UsageQueries, NEW new, IsCount(new),
           usageQuery' = [usageQuery EXCEPT ![q] = new],
           UNCHANGED <<usageTenant, bill>>,
           \/ usageFaulty' = TRUE
           \/ /\ usageFaulty' = usageFaulty
              /\ usageQuery[q].good = TRUE => new.good = TRUE
              /\ \/ new.step \in {"verify", "run"} /\ sharedDriver' = sharedDriver
                 \/ new.good = TRUE
                 \/ usageQuery[q].step \notin {"verify", "run"}
                 \/ sharedDriver # "open"
    PROVE  SnapshotInv'
<1>1. /\ usageQuery'[q] = new
      /\ \A p \in UsageQueries : p # q => usageQuery'[p] = usageQuery[p]
      /\ DOMAIN usageQuery' = UsageQueries
    BY DEF SnapshotInv, CountsStand
<1>2. CountsStand'
    BY <1>1 DEF SnapshotInv, CountsStand, IsCount
<1>3. CASE usageFaulty' = TRUE
    BY <1>2, <1>3 DEF SnapshotInv
<1>4. CASE /\ usageFaulty' = usageFaulty
           /\ usageQuery[q].good = TRUE => new.good = TRUE
           /\ \/ new.step \in {"verify", "run"} /\ sharedDriver' = sharedDriver
              \/ new.good = TRUE
              \/ usageQuery[q].step \notin {"verify", "run"}
              \/ sharedDriver # "open"
    <2>1. SomeReal => SomeReal'
        BY <1>1, <1>4 DEF SomeReal
    <2>2. ASSUME sharedDriver = "open", AllWait
          PROVE  SomeReal' \/ (sharedDriver' = "open" /\ AllWait')
        <3>1. CASE new.good = TRUE
            BY <1>1, <3>1 DEF SomeReal
        <3>2. CASE new.step \in {"verify", "run"} /\ sharedDriver' = sharedDriver
            BY <1>1, <2>2, <3>2 DEF AllWait
        <3> QED
            BY <1>4, <2>2, <3>1, <3>2 DEF AllWait
    <2>3. Usage!Nobody' = Usage!Nobody
        BY DEF Usage!Nobody
    <2>4. (usageTenant # Usage!Nobody /\ usageFaulty = FALSE) => SomeReal' \/ (sharedDriver' = "open" /\ AllWait')
        BY <2>1, <2>2 DEF SnapshotInv
    <2> QED
        BY <1>2, <1>4, <2>4 DEF SnapshotInv
<1> QED
    BY <1>3, <1>4

(* The steps of one count.                                                   *)
LEMMA CountStep ==
    ASSUME SnapshotInv, NEW q \in UsageQueries,
           Usage!Verified(q) \/ Usage!Counted(q) \/ Usage!Close(q) \/ Usage!Forget(q)
    PROVE  SnapshotInv'
<1> DEFINE old == usageQuery[q]
           late == [Usage!Zero EXCEPT !.step = "close"]
<1>1. IsCount(old) /\ UNCHANGED <<usageTenant, bill>>
    BY DEF SnapshotInv, CountsStand, Usage!Verified, Usage!Counted, Usage!Close, Usage!Forget
<1>2. IsCount(Usage!Zero) /\ IsCount(late)
    BY DEF Usage!Zero, IsCount
<1>3. CASE Usage!Verified(q)
    <2> DEFINE run == [old EXCEPT !.step = "run"]
    <2>1. old.step = "verify" /\ old.good = FALSE /\ sharedDriver' = sharedDriver
        BY <1>1, <1>3 DEF Usage!Verified, IsCount
    <2>2. IsCount(run) /\ run.step = "run"
        BY <1>1, <2>1 DEF IsCount
    <2>3. \/ /\ usageQuery' = [usageQuery EXCEPT ![q] = Usage!Zero]
             /\ sharedDriver = "none" /\ usageFaulty' = usageFaulty
          \/ usageQuery' = [usageQuery EXCEPT ![q] = run] /\ usageFaulty' = usageFaulty
          \/ usageQuery' = [usageQuery EXCEPT ![q] = Usage!Zero] /\ usageFaulty' = TRUE
        BY <1>3 DEF Usage!Verified
    <2> HIDE DEF run
    <2> QED
        BY <1>1, <1>2, <2>1, <2>2, <2>3, CountGoesOn
<1>4. CASE Usage!Counted(q)
    <2> DEFINE real == [step |-> "close", c |-> Usage!Count(q, usageTenant), good |-> TRUE]
    <2>1. old.step = "run" /\ old.good = FALSE
        BY <1>1, <1>4 DEF Usage!Counted, IsCount
    <2>2. IsCount(real) /\ real.good = TRUE
        BY DEF IsCount
    <2>3. \/ usageQuery' = [usageQuery EXCEPT ![q] = real] /\ usageFaulty' = usageFaulty
          \/ /\ usageQuery' = [usageQuery EXCEPT ![q] = late]
             /\ sharedDriver # "open" /\ usageFaulty' = usageFaulty
          \/ usageQuery' = [usageQuery EXCEPT ![q] = late] /\ usageFaulty' = TRUE
        BY <1>4 DEF Usage!Counted
    <2> HIDE DEF real, late
    <2> QED
        BY <1>1, <1>2, <2>1, <2>2, <2>3, CountGoesOn
<1>5. CASE Usage!Close(q) \/ Usage!Forget(q)
    <2>1. PICK step \in {"done", "forget"} : usageQuery' = [usageQuery EXCEPT ![q] = [old EXCEPT !.step = step]]
        BY <1>5 DEF Usage!Close, Usage!Forget
    <2>2. old.step \in {"close", "forget"} /\ usageFaulty' = usageFaulty
        BY <1>5 DEF Usage!Close, Usage!Forget
    <2> DEFINE new == [old EXCEPT !.step = step]
    <2>3. IsCount(new) /\ new.good = old.good
        BY <1>1, <2>1 DEF IsCount
    <2> HIDE DEF new
    <2> QED
        BY <1>1, <2>1, <2>2, <2>3, CountGoesOn DEF new
<1> QED
    BY <1>3, <1>4, <1>5

(* A count that failed is billed as zero (usage.py:227), and whoever ends    *)
(* first closes everybody's driver: still, when the database itself never    *)
(* failed, at least one count of the bill is real, however the counts and    *)
(* the scans overlap, for any tenants, plans and set of counts.              *)
THEOREM BillsRestOnACount == ASSUME SomethingCounted PROVE Usage!Spec => []Usage!OneCountTrue
<1>1. Usage!Init => SnapshotInv
    BY DEF Usage!Init, SnapshotInv, CountsStand, IsCount, Usage!Zero, Usage!Nobody, Usage!NoBill
<1>2. SnapshotInv /\ [Usage!Next]_(Usage!vars) => SnapshotInv'
    <2> SUFFICES ASSUME SnapshotInv, [Usage!Next]_(Usage!vars)
                 PROVE  SnapshotInv'
        OBVIOUS
    <2>1. CASE Usage!Answer
        <3>1. /\ usageTenant # Usage!Nobody /\ usageTenant' = Usage!Nobody
              /\ usageQuery' = [q \in UsageQueries |-> Usage!Zero]
              /\ bill'.faulty = usageFaulty /\ bill'.good = {q \in UsageQueries : usageQuery[q].good}
              /\ \A q \in UsageQueries : usageQuery[q].step = "done"
            BY <2>1 DEF Usage!Answer, Usage!Done
        <3>2. usageFaulty = FALSE => SomeReal
            BY <3>1 DEF SnapshotInv, AllWait, SomethingCounted
        <3>3. SomeReal => bill'.good # {}
            BY <3>1 DEF SomeReal
        <3>4. CountsStand'
            BY <3>1 DEF CountsStand, IsCount, Usage!Zero
        <3>5. usageTenant' = Usage!Nobody'
            BY <3>1 DEF Usage!Nobody
        <3> QED
            BY <3>1, <3>2, <3>3, <3>4, <3>5 DEF SnapshotInv
    <2>2. ASSUME NEW t \in UsageTenants, Usage!Start(t)
          PROVE  SnapshotInv'
        <3>1. /\ usageQuery' = [q \in UsageQueries |-> Usage!Waiting]
              /\ sharedDriver' = "open" /\ bill' = Usage!NoBill
            BY <2>2 DEF Usage!Start
        <3> QED
            BY <3>1 DEF SnapshotInv, CountsStand, IsCount, AllWait, Usage!Waiting, Usage!NoBill
    <2>3. ASSUME NEW t \in UsageTenants, Usage!Grow(t) \/ Usage!Enrich(t)
          PROVE  SnapshotInv'
        <3>1. UNCHANGED <<usageQuery, sharedDriver, usageTenant, usageFaulty, bill>>
            BY <2>3 DEF Usage!Grow, Usage!Enrich
        <3> QED
            BY <3>1 DEF SnapshotInv, CountsStand, SomeReal, AllWait, Usage!Nobody
    <2>4. CASE UNCHANGED Usage!vars
        BY <2>4 DEF Usage!vars, SnapshotInv, CountsStand, SomeReal, AllWait, Usage!Nobody
    <2> QED
        BY <2>1, <2>2, <2>3, <2>4, CountStep DEF Usage!Next
<1>3. SnapshotInv => Usage!OneCountTrue
    BY DEF SnapshotInv, Usage!OneCountTrue
<1> QED
    BY <1>1, <1>2, <1>3, PTL DEF Usage!Spec

(* The model sums with the operator that the lemmas above are about.         *)
LEMMA UsageSum == \A f, S : Usage!SumFunctionOnSet(f, S) = SumFunctionOnSet(f, S)
    BY DEF Usage!SumFunctionOnSet, SumFunctionOnSet, Usage!FoldFunctionOnSet, FoldFunctionOnSet,
           Usage!MapThenFoldSet, MapThenFoldSet

(* The classes of nodes and the kinds each of them counts.                   *)
LEMMA NodeClassesAre ==
    /\ Usage!NodeClasses = {"standard", "files_raw", "ai_enriched", "other", "identity", "unknown"}
    /\ Usage!Selects["standard"] = {"Directory"} /\ Usage!Selects["files_raw"] = {"RawFile"}
    /\ Usage!Selects["ai_enriched"] = {"RichFile"}
    /\ Usage!Selects["other"] = {"Application", "Vulnerability"}
    /\ Usage!Selects["identity"] = {"KnownPerson"} /\ Usage!Selects["unknown"] = {"FaceCluster"}
    BY DEF Usage!NodeClasses, Usage!Selects

(* There are finitely many kinds of nodes.                                   *)
LEMMA KindsAreFinite == IsFiniteSet(NodeKinds)
<1>1. Usage!AllKinds = {"Directory", "Application", "FaceCluster", "Vulnerability",
                        "RawFile", "RichFile", "KnownPerson", "UnknownPerson"}
    BY DEF Usage!AllKinds, Usage!NODE_TYPE_TIER
<1> DEFINE few == {"Directory", "Application", "FaceCluster"}
<1>2. IsFiniteSet({"Directory"}) /\ IsFiniteSet({"Directory"} \cup {"Application"})
      /\ IsFiniteSet({"FaceCluster"}) /\ IsFiniteSet({"FaceCluster"} \cup {"Vulnerability"})
      /\ IsFiniteSet({"RawFile"}) /\ IsFiniteSet({"RawFile"} \cup {"RichFile"})
      /\ IsFiniteSet({"KnownPerson"}) /\ IsFiniteSet({"KnownPerson"} \cup {"UnknownPerson"})
    BY FS_Singleton, FS_AddElement
<1>3. IsFiniteSet((({"Directory"} \cup {"Application"}) \cup ({"FaceCluster"} \cup {"Vulnerability"}))
                  \cup (({"RawFile"} \cup {"RichFile"}) \cup ({"KnownPerson"} \cup {"UnknownPerson"})))
    BY <1>2, FS_Union
<1>4. Usage!AllKinds \subseteq
                  (({"Directory"} \cup {"Application"}) \cup ({"FaceCluster"} \cup {"Vulnerability"}))
                  \cup (({"RawFile"} \cup {"RichFile"}) \cup ({"KnownPerson"} \cup {"UnknownPerson"}))
    BY <1>1
<1> QED
    BY <1>3, <1>4, UsageAssumption, FS_Subset DEF UsageAssumption

(* A sum over the classes is the sum of six numbers.                         *)
LEMMA SumOfClasses ==
    ASSUME NEW h, DOMAIN h = Usage!NodeClasses, \A x \in Usage!NodeClasses : h[x] \in Nat
    PROVE  Usage!SumFunction(h) = h["standard"] + h["files_raw"] + h["ai_enriched"]
                                  + h["other"] + h["identity"] + h["unknown"]
<1> DEFINE S1 == {"standard"}
           S2 == S1 \cup {"files_raw"}
           S3 == S2 \cup {"ai_enriched"}
           S4 == S3 \cup {"other"}
           S5 == S4 \cup {"identity"}
           S6 == S5 \cup {"unknown"}
<1>1. Usage!SumFunction(h) = SumFunctionOnSet(h, S6)
    <2>1. S6 = DOMAIN h
        BY NodeClassesAre
    <2> QED
        BY <2>1, UsageSum DEF Usage!SumFunction
<1>2. IsFiniteSet(S6) /\ IsFiniteSet(S5) /\ IsFiniteSet(S4) /\ IsFiniteSet(S3)
      /\ IsFiniteSet(S2) /\ IsFiniteSet(S1)
    BY FS_Singleton, FS_AddElement
<1>3. /\ S6 \ {"unknown"} = S5 /\ S5 \ {"identity"} = S4 /\ S4 \ {"other"} = S3
      /\ S3 \ {"ai_enriched"} = S2 /\ S2 \ {"files_raw"} = S1 /\ S1 \ {"standard"} = {}
    OBVIOUS
<1>4. \A x \in S6 : h[x] \in Nat
    BY NodeClassesAre
<1>5. SumFunctionOnSet(h, S6) = h["unknown"] + SumFunctionOnSet(h, S5)
    BY <1>2, <1>3, <1>4, SumTakesOut
<1>6. SumFunctionOnSet(h, S5) = h["identity"] + SumFunctionOnSet(h, S4)
    BY <1>2, <1>3, <1>4, SumTakesOut
<1>7. SumFunctionOnSet(h, S4) = h["other"] + SumFunctionOnSet(h, S3)
    BY <1>2, <1>3, <1>4, SumTakesOut
<1>8. SumFunctionOnSet(h, S3) = h["ai_enriched"] + SumFunctionOnSet(h, S2)
    BY <1>2, <1>3, <1>4, SumTakesOut
<1>9. SumFunctionOnSet(h, S2) = h["files_raw"] + SumFunctionOnSet(h, S1)
    BY <1>2, <1>3, <1>4, SumTakesOut
<1>10. SumFunctionOnSet(h, S1) = h["standard"] + SumFunctionOnSet(h, {})
    BY <1>2, <1>3, <1>4, SumTakesOut
<1>11. SumFunctionOnSet(h, {}) = 0
    BY FS_EmptySet, SumEquation
<1>12. h["standard"] \in Nat /\ h["files_raw"] \in Nat /\ h["ai_enriched"] \in Nat
       /\ h["other"] \in Nat /\ h["identity"] \in Nat /\ h["unknown"] \in Nat
    BY <1>4
<1> HIDE DEF S1, S2, S3, S4, S5, S6
<1> QED
    BY <1>1, <1>5, <1>6, <1>7, <1>8, <1>9, <1>10, <1>11, <1>12

(* What the classes select are different nodes of a tenant.                  *)
Selected(g, class) == SumFunctionOnSet(g, Usage!Selects[class] \cap NodeKinds)

(* The classes count different nodes, so that together they count no more    *)
(* than there are.                                                           *)
LEMMA ClassesAreApart ==
    ASSUME NEW g \in [NodeKinds -> Nat]
    PROVE  /\ \A class \in Usage!NodeClasses : Selected(g, class) \in Nat
           /\ Selected(g, "standard") + Selected(g, "files_raw") + Selected(g, "ai_enriched")
              + Selected(g, "other") + Selected(g, "identity") + Selected(g, "unknown")
                <= SumFunctionOnSet(g, NodeKinds)
           /\ SumFunctionOnSet(g, NodeKinds) \in Nat
<1> DEFINE Of(class) == Usage!Selects[class] \cap NodeKinds
           R1 == NodeKinds \ Of("standard")
           R2 == R1 \ Of("files_raw")
           R3 == R2 \ Of("ai_enriched")
           R4 == R3 \ Of("other")
           R5 == R4 \ Of("identity")
           R6 == R5 \ Of("unknown")
<1>1. ASSUME NEW S \in SUBSET NodeKinds
      PROVE  IsFiniteSet(S) /\ (\A x \in S : g[x] \in Nat) /\ SumFunctionOnSet(g, S) \in Nat
    <2>1. IsFiniteSet(S) /\ \A x \in S : g[x] \in Nat
        BY KindsAreFinite, FS_Subset
    <2> QED
        BY <2>1, SumIsNatural
<1>2. \A class \in Usage!NodeClasses : Selected(g, class) \in Nat
    BY <1>1 DEF Selected
<1>3. /\ Of("standard") \in SUBSET NodeKinds /\ Of("files_raw") \in SUBSET R1
      /\ Of("ai_enriched") \in SUBSET R2 /\ Of("other") \in SUBSET R3
      /\ Of("identity") \in SUBSET R4 /\ Of("unknown") \in SUBSET R5
    BY NodeClassesAre
<1>4. SumFunctionOnSet(g, NodeKinds) = Selected(g, "standard") + SumFunctionOnSet(g, R1)
    BY <1>1, <1>3, SumSplits DEF Selected
<1>5. SumFunctionOnSet(g, R1) = Selected(g, "files_raw") + SumFunctionOnSet(g, R2)
    BY <1>1, <1>3, SumSplits DEF Selected
<1>6. SumFunctionOnSet(g, R2) = Selected(g, "ai_enriched") + SumFunctionOnSet(g, R3)
    BY <1>1, <1>3, SumSplits DEF Selected
<1>7. SumFunctionOnSet(g, R3) = Selected(g, "other") + SumFunctionOnSet(g, R4)
    BY <1>1, <1>3, SumSplits DEF Selected
<1>8. SumFunctionOnSet(g, R4) = Selected(g, "identity") + SumFunctionOnSet(g, R5)
    BY <1>1, <1>3, SumSplits DEF Selected
<1>9. SumFunctionOnSet(g, R5) = Selected(g, "unknown") + SumFunctionOnSet(g, R6)
    BY <1>1, <1>3, SumSplits DEF Selected
<1>10. SumFunctionOnSet(g, R6) \in Nat /\ SumFunctionOnSet(g, NodeKinds) \in Nat
    BY <1>1
<1>11. /\ Selected(g, "standard") \in Nat /\ Selected(g, "files_raw") \in Nat
       /\ Selected(g, "ai_enriched") \in Nat /\ Selected(g, "other") \in Nat
       /\ Selected(g, "identity") \in Nat /\ Selected(g, "unknown") \in Nat
    BY <1>2, NodeClassesAre
<1> HIDE DEF R1, R2, R3, R4, R5, R6
<1> QED
    BY <1>2, <1>4, <1>5, <1>6, <1>7, <1>8, <1>9, <1>10, <1>11

(* A snapshot's nodes are its counts, in units.                              *)
Counts(c, class) == IF class \in DOMAIN c THEN c[class] ELSE 0

(* Multiples of what is billed at a time.                                    *)
LEMMA Units ==
    ASSUME NEW u \in Nat, NEW m \in Nat, NEW n \in Nat
    PROVE  /\ u * m \in Nat /\ u * (m + n) = u * m + u * n
           /\ m <= n => u * m <= u * n
    OBVIOUS

(* The nodes that are billed are the counts of the six classes, a class that *)
(* was not counted being zero.                                               *)
LEMMA TotalIsOfCounts ==
    ASSUME NEW c, \A class \in Usage!NodeClasses : Counts(c, class) \in Nat
    PROVE  Usage!TotalNodes(c)
             = NodeUnit * (Counts(c, "standard") + Counts(c, "files_raw") + Counts(c, "ai_enriched")
                           + Counts(c, "other") + Counts(c, "identity") + Counts(c, "unknown"))
<1> DEFINE h == [class \in Usage!NodeClasses |-> Usage!Get(c, class)]
<1>1. NodeUnit \in Nat
    BY UsageAssumption DEF UsageAssumption
<1>2. \A class \in Usage!NodeClasses : h[class] = NodeUnit * Counts(c, class)
    <2>1. NodeUnit * 0 = 0
        BY <1>1
    <2> QED
        BY <2>1 DEF Counts, Usage!Get
<1>3. \A class \in Usage!NodeClasses : h[class] \in Nat
    BY <1>1, <1>2, Units
<1>4. Usage!TotalNodes(c) = Usage!SumFunction(h)
    BY DEF Usage!TotalNodes
<1>5. DOMAIN h = Usage!NodeClasses
    OBVIOUS
<1> HIDE DEF h
<1>6. Usage!TotalNodes(c) = h["standard"] + h["files_raw"] + h["ai_enriched"]
                            + h["other"] + h["identity"] + h["unknown"]
    BY <1>3, <1>4, <1>5, SumOfClasses
<1>7. /\ h["standard"] = NodeUnit * Counts(c, "standard")
      /\ h["files_raw"] = NodeUnit * Counts(c, "files_raw")
      /\ h["ai_enriched"] = NodeUnit * Counts(c, "ai_enriched")
      /\ h["other"] = NodeUnit * Counts(c, "other")
      /\ h["identity"] = NodeUnit * Counts(c, "identity")
      /\ h["unknown"] = NodeUnit * Counts(c, "unknown")
    BY <1>2, NodeClassesAre
<1>8. /\ Counts(c, "standard") \in Nat /\ Counts(c, "files_raw") \in Nat
      /\ Counts(c, "ai_enriched") \in Nat /\ Counts(c, "other") \in Nat
      /\ Counts(c, "identity") \in Nat /\ Counts(c, "unknown") \in Nat
    BY NodeClassesAre
<1> QED
    BY <1>1, <1>6, <1>7, <1>8

(* The nodes of a tenant, and what a count of it can have found.             *)
Nodes(t) == SumFunctionOnSet(nodeCounts[t], NodeKinds)
Held(t, class) == Selected(nodeCounts[t], class)
                  + (IF class = "files_raw" THEN usageEnriched ELSE 0)

(* Scans and the enricher never make a tenant's nodes fewer, nor what a      *)
(* count has found of them.                                                  *)
LEMMA NodesGrow ==
    ASSUME nodeCounts \in [UsageTenants -> [NodeKinds -> Nat]], usageEnriched \in Nat,
           NEW t \in UsageTenants, Usage!Grow(t) \/ Usage!Enrich(t)
    PROVE  /\ nodeCounts' \in [UsageTenants -> [NodeKinds -> Nat]] /\ usageEnriched' \in Nat
           /\ \A u \in UsageTenants : Nodes(u) <= Nodes(u)'
           /\ usageTenant \in UsageTenants =>
                 \A class \in Usage!NodeClasses : Held(usageTenant, class) <= Held(usageTenant, class)'
<1> DEFINE g == nodeCounts[t]
           g2 == nodeCounts'[t]
<1>0. g \in [NodeKinds -> Nat]
    OBVIOUS
<1>1. CASE Usage!Grow(t)
    <2>1. usageEnriched' = usageEnriched /\ usageTenant' = usageTenant
        BY <1>1 DEF Usage!Grow
    <2>2. /\ nodeCounts' \in [UsageTenants -> [NodeKinds -> Nat]]
          /\ \A u \in UsageTenants, k \in NodeKinds : nodeCounts[u][k] <= nodeCounts'[u][k]
        <3>1. CASE nodeCounts' = nodeCounts
            BY <3>1
        <3>2. CASE \E k \in NodeKinds : nodeCounts' = [nodeCounts EXCEPT ![t][k] = @ + 1]
            BY <3>2
        <3> QED
            BY <1>1, <3>1, <3>2 DEF Usage!Grow
    <2>3. ASSUME NEW u \in UsageTenants, NEW S \in SUBSET NodeKinds
          PROVE  SumFunctionOnSet(nodeCounts[u], S) <= SumFunctionOnSet(nodeCounts'[u], S)
        <3>1. IsFiniteSet(S)
            BY KindsAreFinite, FS_Subset
        <3>2. \A k \in S : /\ nodeCounts[u][k] \in Nat /\ nodeCounts'[u][k] \in Nat
                            /\ nodeCounts[u][k] <= nodeCounts'[u][k]
            BY <2>2
        <3> QED
            BY <3>1, <3>2, SumGrows
    <2>4. \A u \in UsageTenants : Nodes(u) <= Nodes(u)'
        BY <2>3 DEF Nodes
    <2>5. ASSUME usageTenant \in UsageTenants, NEW class \in Usage!NodeClasses
          PROVE  Held(usageTenant, class) <= Held(usageTenant, class)'
        <3>1. Selected(nodeCounts[usageTenant], class) <= Selected(nodeCounts'[usageTenant], class)
            BY <2>3, <2>5 DEF Selected
        <3>2. /\ Selected(nodeCounts[usageTenant], class) \in Nat
              /\ Selected(nodeCounts'[usageTenant], class) \in Nat
            BY <2>2, <2>5, ClassesAreApart
        <3>3. Held(usageTenant, class)' = Selected(nodeCounts'[usageTenant], class)
                  + (IF class = "files_raw" THEN usageEnriched ELSE 0)
            BY <2>1 DEF Held, Selected, Usage!Selects
        <3> QED
            BY <3>1, <3>2, <3>3 DEF Held
    <2> QED
        BY <2>1, <2>2, <2>4, <2>5
<1>2. CASE Usage!Enrich(t)
    <2>1. /\ "RawFile" \in NodeKinds /\ "RichFile" \in NodeKinds /\ g["RawFile"] > 0
          /\ nodeCounts' = [nodeCounts EXCEPT ![t]["RawFile"] = @ - 1, ![t]["RichFile"] = @ + 1]
          /\ usageTenant' = usageTenant
          /\ usageEnriched' = IF usageTenant = t THEN usageEnriched + 1 ELSE usageEnriched
        BY <1>2 DEF Usage!Enrich
    <2>2. /\ g2 \in [NodeKinds -> Nat]
          /\ g2["RawFile"] = g["RawFile"] - 1 /\ g2["RichFile"] = g["RichFile"] + 1
          /\ \A k \in NodeKinds : k # "RawFile" /\ k # "RichFile" => g2[k] = g[k]
          /\ \A u \in UsageTenants : u # t => nodeCounts'[u] = nodeCounts[u]
          /\ nodeCounts' \in [UsageTenants -> [NodeKinds -> Nat]]
        BY <2>1
    <2>3. usageEnriched' \in Nat
        BY <2>1
    <2> HIDE DEF g2
    <2>4. SumFunctionOnSet(g2, NodeKinds) = SumFunctionOnSet(g, NodeKinds)
        <3> DEFINE A == NodeKinds \ {"RawFile"}
                   B == A \ {"RichFile"}
        <3>1. IsFiniteSet(A) /\ IsFiniteSet(B) /\ IsFiniteSet(NodeKinds)
            BY KindsAreFinite, FS_RemoveElement
        <3>2. "RichFile" \in A
            BY <2>1
        <3>3. SumFunctionOnSet(g, NodeKinds) = g["RawFile"] + SumFunctionOnSet(g, A)
            BY <1>0, <2>1, <3>1, SumTakesOut
        <3>4. SumFunctionOnSet(g2, NodeKinds) = g2["RawFile"] + SumFunctionOnSet(g2, A)
            BY <2>1, <2>2, <3>1, SumTakesOut
        <3>5. SumFunctionOnSet(g, A) = g["RichFile"] + SumFunctionOnSet(g, B)
            <4>1. \A k \in A : g[k] \in Nat
                BY <1>0
            <4> QED
                BY <3>1, <3>2, <4>1, SumTakesOut
        <3>6. SumFunctionOnSet(g2, A) = g2["RichFile"] + SumFunctionOnSet(g2, B)
            <4>1. \A k \in A : g2[k] \in Nat
                BY <2>2
            <4> QED
                BY <3>1, <3>2, <4>1, SumTakesOut
        <3>7. SumFunctionOnSet(g2, B) = SumFunctionOnSet(g, B)
            <4>1. \A k \in B : g2[k] \in Nat /\ g2[k] = g[k]
                BY <2>2
            <4> QED
                BY <3>1, <4>1, SumIsSame
        <3>8. SumFunctionOnSet(g, B) \in Nat
            <4>1. \A k \in B : g[k] \in Nat
                BY <1>0
            <4> QED
                BY <3>1, <4>1, SumIsNatural
        <3>9. g["RawFile"] \in Nat /\ g["RichFile"] \in Nat
            BY <1>0, <2>1
        <3> HIDE DEF A, B, g
        <3> QED
            BY <2>2, <3>3, <3>4, <3>5, <3>6, <3>7, <3>8, <3>9
    <2>5. \A u \in UsageTenants : Nodes(u) <= Nodes(u)'
        <3> SUFFICES ASSUME NEW u \in UsageTenants
                     PROVE  SumFunctionOnSet(nodeCounts[u], NodeKinds)
                              <= SumFunctionOnSet(nodeCounts'[u], NodeKinds)
            BY DEF Nodes
        <3>1. SumFunctionOnSet(nodeCounts[u], NodeKinds) \in Nat
            BY ClassesAreApart
        <3>2. CASE u = t
            BY <2>4, <3>1, <3>2 DEF g2
        <3>3. CASE u # t
            BY <2>2, <3>1, <3>3
        <3> QED
            BY <3>2, <3>3
    <2>6. ASSUME usageTenant \in UsageTenants, NEW class \in Usage!NodeClasses
          PROVE  Held(usageTenant, class) <= Held(usageTenant, class)'
        <3> DEFINE more(e) == IF class = "files_raw" THEN e ELSE 0
        <3>1. /\ Held(usageTenant, class) = Selected(nodeCounts[usageTenant], class) + more(usageEnriched)
              /\ Held(usageTenant, class)'
                   = Selected(nodeCounts'[usageTenant], class) + more(usageEnriched')
            BY <2>1 DEF Held, Selected, Usage!Selects
        <3>2. /\ Selected(nodeCounts[usageTenant], class) \in Nat
              /\ Selected(nodeCounts'[usageTenant], class) \in Nat
            BY <2>2, <2>6, ClassesAreApart
        <3>3. CASE usageTenant # t
            <4>1. usageEnriched' = usageEnriched /\ nodeCounts'[usageTenant] = nodeCounts[usageTenant]
                BY <2>1, <2>2, <2>6, <3>3
            <4> QED
                BY <3>1, <3>2, <4>1
        <3>4. CASE usageTenant = t /\ class # "files_raw"
            <4>1. \A k \in Usage!Selects[class] \cap NodeKinds :
                     g[k] \in Nat /\ g2[k] \in Nat /\ g[k] <= g2[k]
                <5>1. "RawFile" \notin Usage!Selects[class]
                    BY <3>4, NodeClassesAre
                <5> QED
                    BY <1>0, <2>2, <5>1
            <4>2. IsFiniteSet(Usage!Selects[class] \cap NodeKinds)
                BY KindsAreFinite, FS_Subset
            <4>3. Selected(g, class) <= Selected(g2, class)
                BY <4>1, <4>2, SumGrows DEF Selected
            <4> QED
                BY <3>1, <3>2, <3>4, <4>3 DEF g2
        <3>5. CASE usageTenant = t /\ class = "files_raw"
            <4>1. Usage!Selects[class] \cap NodeKinds = {"RawFile"}
                BY <2>1, <3>5, NodeClassesAre
            <4>2. /\ Selected(g, class) = g["RawFile"] + SumFunctionOnSet(g, {})
                  /\ Selected(g2, class) = g2["RawFile"] + SumFunctionOnSet(g2, {})
                <5>1. IsFiniteSet({"RawFile"}) /\ {"RawFile"} \ {"RawFile"} = {}
                      /\ "RawFile" \in {"RawFile"}
                    BY FS_Singleton
                <5>2. \A x \in {"RawFile"} : g[x] \in Nat /\ g2[x] \in Nat
                    BY <1>0, <2>1, <2>2
                <5> HIDE DEF g
                <5>3. SumFunctionOnSet(g, {"RawFile"}) = g["RawFile"] + SumFunctionOnSet(g, {})
                    BY <5>1, <5>2, SumTakesOut
                <5>4. SumFunctionOnSet(g2, {"RawFile"}) = g2["RawFile"] + SumFunctionOnSet(g2, {})
                    BY <5>1, <5>2, SumTakesOut
                <5> QED
                    BY <4>1, <5>3, <5>4 DEF Selected
            <4>3. SumFunctionOnSet(g, {}) = 0 /\ SumFunctionOnSet(g2, {}) = 0
                BY FS_EmptySet, SumEquation
            <4>4. g["RawFile"] \in Nat
                BY <1>0, <2>1
            <4> QED
                BY <2>1, <2>2, <3>1, <3>5, <4>2, <4>3, <4>4 DEF g2
        <3> QED
            BY <3>3, <3>4, <3>5
    <2> QED
        BY <2>2, <2>3, <2>5, <2>6
<1> QED
    BY <1>1, <1>2

(* Counts that are each within what was held bill no more than the tenant's  *)
(* nodes, and the files enriched meanwhile once more.                        *)
LEMMA BilledWithin ==
    ASSUME nodeCounts \in [UsageTenants -> [NodeKinds -> Nat]], usageEnriched \in Nat,
           NEW t \in UsageTenants, NEW c,
           \A class \in Usage!NodeClasses : Counts(c, class) \in Nat /\ Counts(c, class) <= Held(t, class)
    PROVE  /\ Usage!TotalNodes(c) \in Nat /\ Nodes(t) \in Nat
           /\ Usage!TotalNodes(c) <= NodeUnit * Nodes(t) + NodeUnit * usageEnriched
<1> DEFINE sum == Counts(c, "standard") + Counts(c, "files_raw") + Counts(c, "ai_enriched")
                  + Counts(c, "other") + Counts(c, "identity") + Counts(c, "unknown")
<1>1. Usage!TotalNodes(c) = NodeUnit * sum
    BY TotalIsOfCounts
<1>2. NodeUnit \in Nat
    BY UsageAssumption DEF UsageAssumption
<1>3. /\ Counts(c, "standard") \in Nat /\ Counts(c, "files_raw") \in Nat
      /\ Counts(c, "ai_enriched") \in Nat /\ Counts(c, "other") \in Nat
      /\ Counts(c, "identity") \in Nat /\ Counts(c, "unknown") \in Nat
      /\ Counts(c, "standard") <= Selected(nodeCounts[t], "standard") + 0
      /\ Counts(c, "files_raw") <= Selected(nodeCounts[t], "files_raw") + usageEnriched
      /\ Counts(c, "ai_enriched") <= Selected(nodeCounts[t], "ai_enriched") + 0
      /\ Counts(c, "other") <= Selected(nodeCounts[t], "other") + 0
      /\ Counts(c, "identity") <= Selected(nodeCounts[t], "identity") + 0
      /\ Counts(c, "unknown") <= Selected(nodeCounts[t], "unknown") + 0
    BY NodeClassesAre DEF Held
<1>4. /\ \A class \in Usage!NodeClasses : Selected(nodeCounts[t], class) \in Nat
      /\ Selected(nodeCounts[t], "standard") + Selected(nodeCounts[t], "files_raw")
           + Selected(nodeCounts[t], "ai_enriched") + Selected(nodeCounts[t], "other")
           + Selected(nodeCounts[t], "identity") + Selected(nodeCounts[t], "unknown") <= Nodes(t)
      /\ Nodes(t) \in Nat
    BY ClassesAreApart DEF Nodes
<1>5. /\ Selected(nodeCounts[t], "standard") \in Nat /\ Selected(nodeCounts[t], "files_raw") \in Nat
      /\ Selected(nodeCounts[t], "ai_enriched") \in Nat /\ Selected(nodeCounts[t], "other") \in Nat
      /\ Selected(nodeCounts[t], "identity") \in Nat /\ Selected(nodeCounts[t], "unknown") \in Nat
    BY <1>4, NodeClassesAre
<1>6. sum \in Nat /\ sum <= Nodes(t) + usageEnriched
    BY <1>3, <1>4, <1>5
<1> HIDE DEF sum
<1>7. Nodes(t) + usageEnriched \in Nat
    BY <1>4
<1>8. NodeUnit * sum <= NodeUnit * (Nodes(t) + usageEnriched) /\ NodeUnit * sum \in Nat
    BY <1>2, <1>6, <1>7, Units
<1>9. NodeUnit * (Nodes(t) + usageEnriched) = NodeUnit * Nodes(t) + NodeUnit * usageEnriched
    BY <1>2, <1>4, Units
<1> QED
    BY <1>1, <1>4, <1>8, <1>9

(* The nodes there are, what the counts of the running snapshot have found,  *)
(* and what the last bill was made of.                                       *)
NodesAreThere ==
    /\ nodeCounts \in [UsageTenants -> [NodeKinds -> Nat]] /\ usageEnriched \in Nat
    /\ usageTenant \in UsageTenants \cup {Usage!Nobody} /\ DOMAIN usageQuery = UsageQueries
CountsFit ==
    usageTenant \in UsageTenants =>
      \A q \in UsageQueries \cap Usage!NodeClasses :
         usageQuery[q].c \in Nat /\ usageQuery[q].c <= Held(usageTenant, q)
BillFits ==
    bill.made = TRUE =>
      LET total == Usage!TotalNodes(bill.counts)
      IN /\ bill.tenant \in UsageTenants /\ bill.enriched \in Nat /\ total \in Nat
         /\ bill.limit = "exceeded" => LET included == Usage!PLANS[UsagePlanOf[bill.tenant]].included
                                       IN included > 0 /\ total >= included
         /\ total <= NodeUnit * Nodes(bill.tenant) + NodeUnit * bill.enriched

(* The inductive invariant.  A count may be older than the bill, but nodes   *)
(* are only added meanwhile, and an enriched file leaves the raw ones by a   *)
(* step that is counted.                                                     *)
FitInv == NodesAreThere /\ CountsFit /\ BillFits

(* The bill's sums and the plans are the same functions after a step.        *)
LEMMA TotalIsConstant == (Usage!TotalNodes(bill.counts))' = Usage!TotalNodes(bill'.counts)
    BY DEF Usage!TotalNodes, Usage!SumFunction, Usage!NodeClasses, Usage!Selects, Usage!Get,
           Usage!SumFunctionOnSet, Usage!FoldFunctionOnSet, Usage!MapThenFoldSet

(* The plans are the same after a step.                                      *)
LEMMA PlansAreConstant == Usage!PLANS' = Usage!PLANS
    BY DEF Usage!PLANS

(* What a class holds of a tenant is a number.                               *)
LEMMA HeldIsNatural ==
    ASSUME NodesAreThere, NEW t \in UsageTenants, NEW class \in Usage!NodeClasses
    PROVE  Held(t, class) \in Nat /\ Held(t, class) >= Selected(nodeCounts[t], class)
<1>1. Selected(nodeCounts[t], class) \in Nat
    BY ClassesAreApart DEF NodesAreThere
<1> QED
    BY <1>1 DEF Held, NodesAreThere

(* A step that leaves the bill and the nodes alone, and whose counts fit.    *)
LEMMA SnapshotStep ==
    ASSUME FitInv, UNCHANGED <<nodeCounts, usageTenant, usageEnriched>>,
           bill' = bill \/ bill' = Usage!NoBill,
           DOMAIN usageQuery' = UsageQueries,
           usageTenant \in UsageTenants =>
             \A q \in UsageQueries \cap Usage!NodeClasses :
                usageQuery'[q].c \in Nat /\ usageQuery'[q].c <= Held(usageTenant, q)
    PROVE  FitInv'
<1>1. NodesAreThere'
    BY DEF FitInv, NodesAreThere, Usage!Nobody
<1>2. \A t, class : Held(t, class)' = Held(t, class)
    BY DEF Held, Selected, Usage!Selects
<1>3. CountsFit'
    BY <1>2 DEF CountsFit, Usage!NodeClasses, Usage!Selects, FitInv
<1>4. CASE bill' = bill
    <2>1. \A t : Nodes(t)' = Nodes(t)
        BY DEF Nodes
    <2> QED
        BY <1>1, <1>3, <1>4, <2>1, TotalIsConstant, PlansAreConstant DEF FitInv, BillFits
<1>5. CASE bill' = Usage!NoBill
    BY <1>1, <1>3, <1>5 DEF FitInv, BillFits, Usage!NoBill
<1> QED
    BY <1>4, <1>5

(* A count of a running snapshot finds no more than what is held.            *)
LEMMA CountFits ==
    ASSUME FitInv, NEW q \in UsageQueries,
           Usage!Verified(q) \/ Usage!Counted(q) \/ Usage!Close(q) \/ Usage!Forget(q)
    PROVE  FitInv'
<1>0. DOMAIN usageQuery = UsageQueries
    BY DEF FitInv, NodesAreThere
<1>1. PICK new : /\ usageQuery' = [usageQuery EXCEPT ![q] = new]
                 /\ new.c = usageQuery[q].c \/ new.c = 0 \/ new.c = Usage!Count(q, usageTenant)
    <2>1. CASE Usage!Verified(q)
        <3>1. usageQuery' = [usageQuery EXCEPT ![q] = Usage!Zero]
              \/ usageQuery' = [usageQuery EXCEPT ![q] = [@ EXCEPT !.step = "run"]]
            BY <2>1 DEF Usage!Verified
        <3>2. Usage!Zero.c = 0
            BY DEF Usage!Zero
        <3>3. [usageQuery[q] EXCEPT !.step = "run"].c = usageQuery[q].c
            OBVIOUS
        <3> QED
            BY <3>1, <3>2, <3>3
    <2>2. CASE Usage!Counted(q)
        <3> DEFINE real == [step |-> "close", c |-> Usage!Count(q, usageTenant), good |-> TRUE]
                   late == [Usage!Zero EXCEPT !.step = "close"]
        <3>1. usageQuery' = [usageQuery EXCEPT ![q] = real] \/ usageQuery' = [usageQuery EXCEPT ![q] = late]
            BY <2>2 DEF Usage!Counted
        <3>2. real.c = Usage!Count(q, usageTenant) /\ late.c = 0
            BY DEF Usage!Zero
        <3> HIDE DEF real, late
        <3> QED
            BY <3>1, <3>2
    <2>3. CASE Usage!Close(q) \/ Usage!Forget(q)
        <3>1. PICK step \in {"done", "forget"} : usageQuery' = [usageQuery EXCEPT ![q].step = step]
            BY <2>3 DEF Usage!Close, Usage!Forget
        <3>2. usageQuery' = [usageQuery EXCEPT ![q] = [usageQuery[q] EXCEPT !.step = step]]
            BY <3>1
        <3>3. [usageQuery[q] EXCEPT !.step = step].c = usageQuery[q].c
            OBVIOUS
        <3> QED
            BY <3>2, <3>3
    <2> QED
        BY <2>1, <2>2, <2>3
<1>2. /\ UNCHANGED <<nodeCounts, usageTenant, usageEnriched, bill>>
      /\ DOMAIN usageQuery' = UsageQueries /\ usageQuery'[q] = new
      /\ \A p \in UsageQueries : p # q => usageQuery'[p] = usageQuery[p]
    <2>1. UNCHANGED <<nodeCounts, usageTenant, usageEnriched, bill>>
        BY DEF Usage!Verified, Usage!Counted, Usage!Close, Usage!Forget
    <2> QED
        BY <1>0, <1>1, <2>1
<1>3. ASSUME usageTenant \in UsageTenants, NEW p \in UsageQueries \cap Usage!NodeClasses
      PROVE  usageQuery'[p].c \in Nat /\ usageQuery'[p].c <= Held(usageTenant, p)
    <2>1. /\ Held(usageTenant, p) \in Nat /\ Held(usageTenant, p) >= Selected(nodeCounts[usageTenant], p)
          /\ Selected(nodeCounts[usageTenant], p) \in Nat
        BY <1>3, HeldIsNatural, ClassesAreApart DEF FitInv, NodesAreThere
    <2>2. usageQuery[p].c \in Nat /\ usageQuery[p].c <= Held(usageTenant, p)
        BY <1>3 DEF FitInv, CountsFit
    <2>3. Usage!Count(p, usageTenant) = Selected(nodeCounts[usageTenant], p)
        <3>1. p # "graph_edges"
            BY <1>3, NodeClassesAre
        <3> QED
            BY <3>1, UsageSum DEF Usage!Count, Selected
    <2>4. usageQuery'[p].c = usageQuery[p].c \/ usageQuery'[p].c = 0
          \/ usageQuery'[p].c = Selected(nodeCounts[usageTenant], p)
        BY <1>1, <1>2, <2>3
    <2> QED
        BY <2>1, <2>2, <2>4
<1> QED
    BY <1>2, <1>3, SnapshotStep

(* Scans and the enricher leave what was counted within what is held.        *)
LEMMA NodesFit ==
    ASSUME FitInv, NEW t \in UsageTenants, Usage!Grow(t) \/ Usage!Enrich(t)
    PROVE  FitInv'
<1>1. UNCHANGED <<usageTenant, usageQuery, bill>>
    BY DEF Usage!Grow, Usage!Enrich
<1>2. /\ nodeCounts' \in [UsageTenants -> [NodeKinds -> Nat]] /\ usageEnriched' \in Nat
      /\ \A u \in UsageTenants : Nodes(u) <= Nodes(u)'
      /\ usageTenant \in UsageTenants =>
            \A class \in Usage!NodeClasses : Held(usageTenant, class) <= Held(usageTenant, class)'
    BY NodesGrow DEF FitInv, NodesAreThere
<1>3. NodesAreThere'
    BY <1>1, <1>2 DEF FitInv, NodesAreThere, Usage!Nobody
<1>4. CountsFit'
    <2> SUFFICES ASSUME usageTenant \in UsageTenants, NEW q \in UsageQueries \cap Usage!NodeClasses
                 PROVE  usageQuery[q].c \in Nat /\ usageQuery[q].c <= Held(usageTenant, q)'
        BY <1>1 DEF CountsFit, Usage!NodeClasses, Usage!Selects
    <2>1. usageQuery[q].c \in Nat /\ usageQuery[q].c <= Held(usageTenant, q)
        BY DEF FitInv, CountsFit
    <2>2. Held(usageTenant, q) <= Held(usageTenant, q)'
        BY <1>2
    <2>3. Held(usageTenant, q) \in Nat
        BY HeldIsNatural DEF FitInv
    <2>4. Held(usageTenant, q)' \in Nat
        <3>1. \A class \in Usage!NodeClasses : Selected(nodeCounts'[usageTenant], class) \in Nat
            BY <1>2, ClassesAreApart
        <3>2. Held(usageTenant, q)' = Selected(nodeCounts'[usageTenant], q)
                                      + (IF q = "files_raw" THEN usageEnriched' ELSE 0)
            BY <1>1 DEF Held, Selected, Usage!Selects
        <3> QED
            BY <1>2, <3>1, <3>2
    <2> QED
        BY <2>1, <2>2, <2>3, <2>4
<1>5. BillFits'
    <2> SUFFICES ASSUME bill.made = TRUE
                 PROVE  LET total == Usage!TotalNodes(bill.counts)
                        IN /\ bill.tenant \in UsageTenants /\ bill.enriched \in Nat /\ total \in Nat
                           /\ bill.limit = "exceeded" =>
                                LET included == Usage!PLANS[UsagePlanOf[bill.tenant]].included
                                IN included > 0 /\ total >= included
                           /\ total <= NodeUnit * Nodes(bill.tenant)' + NodeUnit * bill.enriched
        BY <1>1, TotalIsConstant, PlansAreConstant DEF BillFits
    <2>1. Nodes(bill.tenant) \in Nat /\ bill.tenant \in UsageTenants
        BY ClassesAreApart DEF FitInv, BillFits, NodesAreThere, Nodes
    <2>2. Nodes(bill.tenant)' \in Nat /\ Nodes(bill.tenant) <= Nodes(bill.tenant)'
        <3>1. Nodes(bill.tenant)' = SumFunctionOnSet(nodeCounts'[bill.tenant], NodeKinds)
            BY <1>1 DEF Nodes
        <3>2. SumFunctionOnSet(nodeCounts'[bill.tenant], NodeKinds) \in Nat
            BY <1>2, <2>1, ClassesAreApart
        <3> QED
            BY <1>1, <1>2, <2>1, <3>1, <3>2
    <2>3. /\ NodeUnit * Nodes(bill.tenant) <= NodeUnit * Nodes(bill.tenant)'
          /\ NodeUnit * Nodes(bill.tenant) \in Nat /\ NodeUnit * Nodes(bill.tenant)' \in Nat
          /\ NodeUnit * bill.enriched \in Nat
        BY <2>1, <2>2, Units, UsageAssumption DEF UsageAssumption, FitInv, BillFits
    <2> QED
        BY <2>1, <2>3 DEF FitInv, BillFits
<1> QED
    BY <1>3, <1>4, <1>5 DEF FitInv

(* What is billed is what the counts have found.                             *)
LEMMA AnswerFits == ASSUME FitInv, Usage!Answer PROVE FitInv'
<1> DEFINE c == [q \in UsageQueries |-> usageQuery[q].c]
           total == Usage!TotalNodes(c)
           included == Usage!PLANS[UsagePlanOf[usageTenant]].included
<1>1. /\ usageTenant \in UsageTenants /\ usageTenant' = Usage!Nobody /\ nodeCounts' = nodeCounts
      /\ usageQuery' = [q \in UsageQueries |-> Usage!Zero] /\ usageEnriched' = 0
      /\ bill'.made = TRUE /\ bill'.counts = c /\ bill'.tenant = usageTenant
      /\ bill'.enriched = usageEnriched /\ bill'.limit = Usage!LimitStatus(total, included)
    BY DEF Usage!Answer, FitInv, NodesAreThere
<1>2. \A class \in Usage!NodeClasses :
         Counts(c, class) \in Nat /\ Counts(c, class) <= Held(usageTenant, class)
    <2> SUFFICES ASSUME NEW class \in Usage!NodeClasses
                 PROVE  Counts(c, class) \in Nat /\ Counts(c, class) <= Held(usageTenant, class)
        OBVIOUS
    <2>1. Held(usageTenant, class) \in Nat
        BY <1>1, HeldIsNatural DEF FitInv
    <2>2. CASE class \in UsageQueries
        BY <1>1, <2>2 DEF Counts, FitInv, CountsFit
    <2>3. CASE class \notin UsageQueries
        BY <2>1, <2>3 DEF Counts
    <2> QED
        BY <2>2, <2>3
<1> HIDE DEF c
<1>3. /\ total \in Nat /\ Nodes(usageTenant) \in Nat
      /\ total <= NodeUnit * Nodes(usageTenant) + NodeUnit * usageEnriched
    BY <1>1, <1>2, BilledWithin DEF FitInv, NodesAreThere
<1> HIDE DEF total
<1>4. included \in Int
    BY <1>1, UsageAssumption DEF UsageAssumption, Usage!PLANS
<1> HIDE DEF included
<1>5. bill'.limit = "exceeded" => included > 0 /\ total >= included
    BY <1>1, <1>3, <1>4 DEF Usage!LimitStatus
<1>6. NodesAreThere'
    BY <1>1 DEF FitInv, NodesAreThere, Usage!Nobody
<1>7. CountsFit'
    <2> SUFFICES ASSUME usageTenant' \in UsageTenants, NEW q \in UsageQueries \cap Usage!NodeClasses
                 PROVE  usageQuery'[q].c \in Nat /\ usageQuery'[q].c <= Held(usageTenant, q)'
        BY DEF CountsFit, Usage!NodeClasses, Usage!Selects
    <2>1. usageQuery'[q].c = 0
        BY <1>1 DEF Usage!Zero
    <2>2. Held(usageTenant, q)' = Selected(nodeCounts[usageTenant'], q)
                                  + (IF q = "files_raw" THEN 0 ELSE 0)
        BY <1>1 DEF Held, Selected, Usage!Selects
    <2>3. Selected(nodeCounts[usageTenant'], q) \in Nat
        BY ClassesAreApart DEF FitInv, NodesAreThere
    <2> QED
        BY <2>1, <2>2, <2>3
<1>8. BillFits'
    <2>1. Nodes(bill.tenant)' = Nodes(usageTenant)
        BY <1>1 DEF Nodes
    <2>2. (Usage!TotalNodes(bill.counts))' = total
        BY <1>1, TotalIsConstant DEF total
    <2>3. (Usage!PLANS[UsagePlanOf[bill.tenant]].included)' = included
        BY <1>1, PlansAreConstant DEF included
    <2> QED
        BY <1>1, <1>3, <1>5, <2>1, <2>2, <2>3, PlansAreConstant
           DEF BillFits, FitInv, NodesAreThere, included
<1> QED
    BY <1>6, <1>7, <1>8 DEF FitInv

(* Where the quota is used up, the bar is full.                              *)
LEMMA FullBar ==
    ASSUME NEW used \in Nat, NEW limit \in Int, ~ (limit <= 0), used >= limit
    PROVE  Usage!Share(used, limit) = 1000
<1>1. Usage!Share(used, limit) = IF limit <= 0 THEN 0 ELSE IF used >= limit THEN 1000
                                 ELSE (2000 * used + limit) \div (2 * limit)
    BY DEF Usage!Share
<1> DEFINE part == (2000 * used + limit) \div (2 * limit)
<1> HIDE DEF part
<1> QED
    BY <1>1 DEF part

(* A bill is of what was there: a count that failed is billed as zero, but   *)
(* one is real unless the database failed, and however counting overlaps     *)
(* with scans and with the enricher nothing is billed twice but a file that  *)
(* was enriched in between, so that a bill without one that says the quota   *)
(* is exceeded goes with a full quota bar (usage.py:83, :227-239).           *)
THEOREM BillsAreCounted == ASSUME SomethingCounted PROVE Usage!Spec => []BillIsCounted
<1>1. Usage!Init => FitInv
    <2> SUFFICES ASSUME Usage!Init
                 PROVE  FitInv
        OBVIOUS
    <2>1. NodesAreThere /\ BillFits
        BY DEF Usage!Init, NodesAreThere, BillFits, Usage!NoBill
    <2>2. CountsFit
        <3> SUFFICES ASSUME usageTenant \in UsageTenants, NEW q \in UsageQueries \cap Usage!NodeClasses
                     PROVE  usageQuery[q].c \in Nat /\ usageQuery[q].c <= Held(usageTenant, q)
            BY DEF CountsFit
        <3>1. usageQuery[q].c = 0
            BY DEF Usage!Init, Usage!Zero
        <3>2. Held(usageTenant, q) \in Nat
            BY <2>1, HeldIsNatural
        <3> QED
            BY <3>1, <3>2
    <2> QED
        BY <2>1, <2>2 DEF FitInv
<1>2. FitInv /\ [Usage!Next]_(Usage!vars) => FitInv'
    <2> SUFFICES ASSUME FitInv, [Usage!Next]_(Usage!vars)
                 PROVE  FitInv'
        OBVIOUS
    <2>1. ASSUME NEW t \in UsageTenants, Usage!Start(t)
          PROVE  FitInv'
        <3>1. /\ usageQuery' = [q \in UsageQueries |-> Usage!Waiting] /\ usageTenant' = t
              /\ bill' = Usage!NoBill /\ usageEnriched' = 0 /\ nodeCounts' = nodeCounts
            BY <2>1 DEF Usage!Start
        <3>2. NodesAreThere' /\ BillFits'
            BY <3>1 DEF FitInv, NodesAreThere, BillFits, Usage!NoBill
        <3>3. CountsFit'
            <4> SUFFICES ASSUME NEW q \in UsageQueries \cap Usage!NodeClasses
                         PROVE  usageQuery'[q].c \in Nat /\ usageQuery'[q].c <= Held(usageTenant, q)'
                BY DEF CountsFit, Usage!NodeClasses, Usage!Selects
            <4>1. usageQuery'[q].c = 0
                BY <3>1 DEF Usage!Waiting
            <4>2. Held(usageTenant, q)' = Selected(nodeCounts[t], q) + (IF q = "files_raw" THEN 0 ELSE 0)
                BY <3>1 DEF Held, Selected, Usage!Selects
            <4>3. Selected(nodeCounts[t], q) \in Nat
                BY ClassesAreApart DEF FitInv, NodesAreThere
            <4> QED
                BY <4>1, <4>2, <4>3
        <3> QED
            BY <3>2, <3>3 DEF FitInv
    <2>2. CASE UNCHANGED Usage!vars
        <3>1. UNCHANGED <<nodeCounts, usageTenant, usageEnriched, usageQuery, bill>>
            BY <2>2 DEF Usage!vars
        <3> QED
            BY <3>1, SnapshotStep DEF FitInv, NodesAreThere, CountsFit
    <2> QED
        BY <2>1, <2>2, CountFits, NodesFit, AnswerFits DEF Usage!Next
<1>3. FitInv => Usage!NothingTwice
    <2> SUFFICES ASSUME FitInv, bill.made
                 PROVE  LET bar == Usage!UsageLimits(bill.tenant, TRUE)
                        IN /\ Usage!TotalNodes(bill.counts) <= bar.used + NodeUnit * bill.enriched
                           /\ bill.limit = "exceeded" /\ bill.enriched = 0 => bar.share = 1000
        BY DEF Usage!NothingTwice
    <2> DEFINE total == Usage!TotalNodes(bill.counts)
               included == Usage!PLANS[UsagePlanOf[bill.tenant]].included
               used == NodeUnit * Nodes(bill.tenant)
    <2>1. /\ bill.tenant \in UsageTenants /\ bill.enriched \in Nat /\ total \in Nat
          /\ bill.limit = "exceeded" => included > 0 /\ total >= included
          /\ total <= used + NodeUnit * bill.enriched
        BY DEF FitInv, BillFits
    <2>2. Usage!SumFunction(nodeCounts[bill.tenant]) = Nodes(bill.tenant)
        <3>1. DOMAIN nodeCounts[bill.tenant] = NodeKinds
            BY <2>1 DEF FitInv, NodesAreThere
        <3> QED
            BY <3>1, UsageSum DEF Usage!SumFunction, Nodes
    <2>3. Nodes(bill.tenant) \in Nat /\ NodeUnit \in Nat
        BY <2>1, ClassesAreApart, UsageAssumption DEF Nodes, FitInv, NodesAreThere, UsageAssumption
    <2>4. used \in Nat /\ NodeUnit * 0 = 0
        BY <2>3, Units
    <2>5. included \in Int
        BY <2>1, UsageAssumption DEF UsageAssumption, Usage!PLANS
    <2> DEFINE bar == Usage!UsageLimits(bill.tenant, TRUE)
    <2>6. bar.used = used /\ bar.share = Usage!Share(used, included)
        BY <2>2 DEF Usage!UsageLimits
    <2> HIDE DEF used, included, total, bar
    <2>7. ASSUME bill.limit = "exceeded", bill.enriched = 0
          PROVE  Usage!Share(used, included) = 1000
        <3>1. included > 0 /\ used >= included
            BY <2>1, <2>4, <2>5, <2>7
        <3>2. ~ (included <= 0)
            BY <2>5, <3>1
        <3> QED
            BY <2>4, <2>5, <3>1, <3>2, FullBar
    <2>8. total <= bar.used + NodeUnit * bill.enriched
        BY <2>1, <2>6
    <2>9. bill.limit = "exceeded" /\ bill.enriched = 0 => bar.share = 1000
        BY <2>6, <2>7
    <2> QED
        BY <2>8, <2>9 DEF total, bar
<1>4. Usage!Spec => []Usage!NothingTwice
    BY <1>1, <1>2, <1>3, PTL DEF Usage!Spec
<1>5. Usage!NothingTwice /\ Usage!OneCountTrue => BillIsCounted
    BY DEF BillIsCounted, Usage!BillIsCounted
<1> QED
    BY <1>4, <1>5, BillsRestOnACount, PTL

----------------------------------------------------------------------------
(* Tenants, their users, invitations and roles *)

(* The constants of Init are what they stand for.                            *)
Deployed == /\ Founder \in UserIds /\ Founded \in Tenants /\ Host \in Emails /\ Guest \in Emails
            /\ "admin" \in RoleNames

(* Requests that come with a user's token, and with a tenant's.              *)
WithUser == AdminOnly \cup {"update_profile"}
OfTenant == Scim \cup {"saml_acs", "oidc"}

(* Users stay in their tenants, and no handler serves one that is not there. *)
RowsPersist ==
    \A h \in Handlers :
        flight[h] # Idle =>
            /\ flight[h].op = flight[h].q.op
            /\ \A i \in UserIds :
                  flight[h].users[i] # Absent =>
                      user[i] # Absent /\ user[i].tenant = flight[h].users[i].tenant
            /\ flight[h].q.op \in WithUser => flight[h].q.by \in Ids
            /\ flight[h].q.op \in OfTenant => flight[h].q.tenant \in tenant
            /\ \A v \in flight[h].invites : v.tenant \in tenant

(* Every user, invitation and configuration is of a tenant that exists.      *)
TenantsExist ==
    /\ \A i \in Ids : user[i].tenant \in tenant
    /\ \A v \in invite : v.tenant \in tenant
    /\ scim \subseteq tenant /\ saml \subseteq tenant /\ oidc \subseteq tenant

(* A role that is assigned is one of the tenant of the assignment.           *)
RolesOfTenant == \A a \in assignment : a.role.tenant = a.tenant

IInv ==
    /\ TypeOK /\ RowsPersist /\ TenantsExist /\ RolesOfTenant
    /\ OneAccountPerAddress

----------------------------------------------------------------------------
(* Lemmas *)

(* The fields a request has follow from its operation.                       *)
LEMMA RequestFields ==
    ASSUME NEW q \in Requests
    PROVE  /\ q.op # "idle"
           /\ q.op \in {"signup", "scim_create", "scim_replace", "saml_acs", "oidc"} =>
                 q.tenant \in Tenants /\ q.email \in Emails
           /\ q.op \in {"update_profile", "scim_rename"} => q.email \in Emails
           /\ q.op \in OfTenant => q.tenant \in Tenants
           /\ q.op \in {"scim_create", "scim_group_add", "scim_group_remove", "saml_acs"} =>
                 q.role \in RoleNames
           /\ q.op \in {"scim_create", "scim_replace", "scim_patch"} => q.active \in BOOLEAN
           /\ q.op \in {"remove", "scim_replace", "scim_patch", "scim_rename", "scim_delete",
                        "scim_group_add", "scim_group_remove"} => q.user \in UserIds
           /\ q.op = "accept_invite" => q.invite \in UserInvite
BY DEF Requests, OfTenant, Scim

(* A request that needs a user's token names the user.                       *)
LEMMA ByField ==
    ASSUME NEW q \in Requests, q.op \in WithUser
    PROVE  q.by \in UserIds /\ "by" \in DOMAIN q
BY DEF Requests, WithUser, AdminOnly

(* Rows are told from Absent by their fields.                                *)
LEMMA RowsArePresent ==
    /\ Absent \notin User
    /\ \A f \in Served : f # Idle
<1>1. Absent \notin User
    BY DEF Absent, User
<1>2. \A f \in Served : f.op # "idle"
    BY RequestFields DEF Served
<1> QED
    BY <1>1, <1>2 DEF Idle
(* What a handler is serving.                                                *)
LEMMA InFlight ==
    ASSUME IInv, NEW h \in Handlers, flight[h] # Idle
    PROVE  /\ flight[h].q \in Requests /\ flight[h].op = flight[h].q.op
           /\ flight[h].users \in [UserIds -> User \cup {Absent}]
           /\ flight[h].invites \in SUBSET UserInvite
           /\ \A i \in UserIds :
                 flight[h].users[i] # Absent =>
                     /\ i \in Ids /\ user[i] \in User
                     /\ user[i].tenant = flight[h].users[i].tenant
           /\ flight[h].q.op \in WithUser => flight[h].q.by \in Ids /\ user[flight[h].q.by] \in User
           /\ flight[h].q.op \in OfTenant => flight[h].q.tenant \in tenant
           /\ \A v \in flight[h].invites : v.tenant \in tenant
<1>1. flight[h] \in Served
    BY DEF IInv, TypeOK
<1>2. user \in [UserIds -> User \cup {Absent}]
    BY DEF IInv, TypeOK
<1>3. /\ flight[h].op = flight[h].q.op
      /\ \A i \in UserIds :
            flight[h].users[i] # Absent =>
                user[i] # Absent /\ user[i].tenant = flight[h].users[i].tenant
      /\ flight[h].q.op \in WithUser => flight[h].q.by \in Ids
      /\ flight[h].q.op \in OfTenant => flight[h].q.tenant \in tenant
      /\ \A v \in flight[h].invites : v.tenant \in tenant
    BY DEF IInv, RowsPersist
<1>4. \A i \in Ids : i \in UserIds /\ user[i] # Absent
    BY DEF Ids
<1> QED
    BY <1>1, <1>2, <1>3, <1>4 DEF Served, Ids

(* The rows of users after a step: none is deleted or changes its tenant.    *)
UsersKept ==
    /\ user' \in [UserIds -> User \cup {Absent}]
    /\ \A i \in Ids : user'[i] # Absent /\ user'[i].tenant = user[i].tenant
    /\ \A i \in UserIds : user'[i] # Absent => user'[i].tenant \in tenant'

(* A handler that ends leaves what the others serve where it is.             *)
LEMMA HandlerEnds ==
    ASSUME IInv, NEW h \in Handlers, flight' = [flight EXCEPT ![h] = Idle],
           UsersKept, tenant \subseteq tenant'
    PROVE  flight' \in [Handlers -> {Idle} \cup Served] /\ RowsPersist' /\ Ids \subseteq Ids'
<1>1. flight \in [Handlers -> {Idle} \cup Served]
    BY DEF IInv, TypeOK
<1>2. flight' \in [Handlers -> {Idle} \cup Served]
    BY <1>1
<1>3. \A g \in Handlers : flight'[g] # Idle => flight'[g] = flight[g] /\ flight[g] # Idle
    BY <1>1
<1>4. Ids \subseteq Ids'
    BY DEF Ids, UsersKept
<1>5. RowsPersist'
    <2> SUFFICES ASSUME NEW g \in Handlers, flight'[g] # Idle
                 PROVE  /\ flight'[g].op = flight'[g].q.op
                        /\ \A i \in UserIds :
                              flight'[g].users[i] # Absent =>
                                  user'[i] # Absent /\ user'[i].tenant = flight'[g].users[i].tenant
                        /\ flight'[g].q.op \in WithUser => flight'[g].q.by \in Ids'
                        /\ flight'[g].q.op \in OfTenant => flight'[g].q.tenant \in tenant'
                        /\ \A v \in flight'[g].invites : v.tenant \in tenant'
        BY DEF RowsPersist
    <2>1. flight'[g] = flight[g] /\ flight[g] # Idle
        BY <1>3
    <2> QED
        BY <1>4, <2>1, InFlight DEF UsersKept
<1> QED
    BY <1>2, <1>4, <1>5

(* Nothing happens to users.                                                 *)
LEMMA NoUserChanges ==
    ASSUME IInv, UNCHANGED user, tenant \subseteq tenant'
    PROVE  UsersKept /\ OneAccountPerAddress'
<1>1. UsersKept
    BY DEF UsersKept, IInv, TypeOK, TenantsExist, Ids
<1>2. OneAccountPerAddress'
    BY DEF IInv, OneAccountPerAddress, Ids
<1> QED
    BY <1>1, <1>2

(* A new user takes an address that nobody of its tenant has.                *)
LEMMA UserAdded ==
    ASSUME IInv, NEW i \in UserIds \ Ids, NEW t \in Tenants, NEW e \in Emails,
           NEW ext \in Emails \cup {Nobody}, NEW active \in BOOLEAN, NEW loc \in BOOLEAN,
           NewUser(i, t, e, ext, active, loc), AddressFree({}, t, e),
           tenant \subseteq tenant', t \in tenant'
    PROVE  UsersKept /\ OneAccountPerAddress' /\ i \in Ids' /\ user'[i].is_active = active
<1> DEFINE row == [tenant |-> t, email |-> e, external_id |-> ext, is_active |-> active, local |-> loc]
<1>1. row \in User /\ row # Absent
    <2>1. row \in User
        BY Zenon DEF User
    <2> QED
        BY <2>1, RowsArePresent
<1>2. row.tenant = t /\ row.email = e /\ row.is_active = active
    OBVIOUS
<1>3. user \in [UserIds -> User \cup {Absent}] /\ user' = [user EXCEPT ![i] = row]
    BY DEF IInv, TypeOK, NewUser
<1> HIDE DEF row
<1>4. /\ user' \in [UserIds -> User \cup {Absent}] /\ user'[i] = row
      /\ \A j \in UserIds : j # i => user'[j] = user[j]
    BY <1>1, <1>3
<1>5. UsersKept /\ i \in Ids'
    BY <1>1, <1>2, <1>4 DEF UsersKept, Ids, IInv, TenantsExist
<1>6. OneAccountPerAddress'
    <2> SUFFICES ASSUME NEW j \in UserIds, NEW k \in UserIds, user'[j] # Absent, user'[k] # Absent,
                        user'[j].tenant = user'[k].tenant, user'[j].email = user'[k].email
                 PROVE  j = k
        BY DEF OneAccountPerAddress, Ids
    <2>1. \A l \in UserIds : l # i /\ user[l] # Absent => user[l].tenant # t \/ user[l].email # e
        BY DEF AddressFree, Members
    <2> QED
        BY <1>2, <1>4, <2>1 DEF IInv, OneAccountPerAddress, Ids
<1> QED
    BY <1>2, <1>4, <1>5, <1>6

(* A user changes in its tenant: the address stays, or is one that nobody    *)
(* else of the tenant has.                                                   *)
LEMMA UserChanged ==
    ASSUME IInv, NEW i \in Ids, NEW row \in User, user' = [user EXCEPT ![i] = row],
           row.tenant = user[i].tenant, tenant \subseteq tenant',
           row.email = user[i].email \/ AddressFree({i}, user[i].tenant, row.email)
    PROVE  UsersKept /\ OneAccountPerAddress' /\ user'[i] = row
<1>1. user \in [UserIds -> User \cup {Absent}] /\ i \in UserIds /\ user[i] # Absent /\ row # Absent
    BY RowsArePresent DEF IInv, TypeOK, Ids
<1>2. /\ user' \in [UserIds -> User \cup {Absent}] /\ user'[i] = row
      /\ \A j \in UserIds : j # i => user'[j] = user[j]
    BY <1>1
<1>3. UsersKept
    BY <1>1, <1>2 DEF UsersKept, Ids, IInv, TenantsExist
<1>4. OneAccountPerAddress'
    <2> SUFFICES ASSUME NEW j \in UserIds, NEW k \in UserIds, user'[j] # Absent, user'[k] # Absent,
                        user'[j].tenant = user'[k].tenant, user'[j].email = user'[k].email
                 PROVE  j = k
        BY DEF OneAccountPerAddress, Ids
    <2>1. CASE row.email = user[i].email
        BY <1>1, <1>2, <2>1 DEF IInv, OneAccountPerAddress, Ids
    <2>2. CASE AddressFree({i}, user[i].tenant, row.email)
        <3>1. \A l \in UserIds :
                  user[l] # Absent /\ user[l].tenant = user[i].tenant /\ user[l].email = row.email => l = i
            BY <2>2 DEF AddressFree, Members
        <3> QED
            BY <1>1, <1>2, <3>1 DEF IInv, OneAccountPerAddress, Ids
    <2> QED
        BY <2>1, <2>2
<1> QED
    BY <1>2, <1>3, <1>4

(* The columns of a user.                                                    *)
LEMMA UserColumns ==
    ASSUME NEW u \in User, NEW e \in Emails, NEW b \in BOOLEAN
    PROVE  /\ [u EXCEPT !.email = e] \in User /\ [u EXCEPT !.is_active = b] \in User
           /\ [u EXCEPT !.email = e].email = e /\ [u EXCEPT !.email = e].tenant = u.tenant
           /\ [u EXCEPT !.is_active = b].email = u.email
           /\ [u EXCEPT !.is_active = b].tenant = u.tenant
           /\ [u EXCEPT !.is_active = b].is_active = b
<1>1. [u EXCEPT !.is_active = b] \in User /\ [u EXCEPT !.email = e] \in User
    BY Zenon DEF User
<1> QED
    BY <1>1 DEF User

LEMMA ExternalColumn ==
    ASSUME NEW u \in User, NEW ext \in Emails \cup {Nobody}
    PROVE  /\ [u EXCEPT !.external_id = ext] \in User
           /\ [u EXCEPT !.external_id = ext].email = u.email
           /\ [u EXCEPT !.external_id = ext].tenant = u.tenant
<1>1. [u EXCEPT !.external_id = ext] \in User
    BY Zenon DEF User
<1> QED
    BY <1>1 DEF User

(* A role that is granted is one of the tenant.                              *)
LEMMA GrantedType ==
    ASSUME IInv, NEW i \in UserIds, NEW t \in Tenants, NEW n \in RoleNames, Granted(i, t, n)
    PROVE  role' \subseteq Role /\ assignment' \subseteq RoleAssignment /\ RolesOfTenant'
<1> DEFINE r == [tenant |-> t, name |-> n]
           a == [tenant |-> t, user |-> i, role |-> r]
<1>1. r \in Role /\ a \in RoleAssignment /\ a.role.tenant = a.tenant
    BY DEF Role, RoleAssignment
<1>2. role' = role \cup {r} /\ assignment' = assignment \cup {a}
    BY DEF Granted
<1> HIDE DEF a, r
<1> QED
    BY <1>1, <1>2 DEF IInv, TypeOK, RolesOfTenant
(* What a commit has to keep for the invariant to hold after it.             *)
LEMMA Committed ==
    ASSUME IInv, NEW h \in Handlers, flight' = [flight EXCEPT ![h] = Idle],
           UsersKept, OneAccountPerAddress', tenant \subseteq tenant', tenant' \subseteq Tenants,
           role' \subseteq Role, assignment' \subseteq RoleAssignment, RolesOfTenant',
           invite' \subseteq invite, scim' \subseteq tenant', saml' \subseteq tenant',
           oidc' \subseteq tenant', jwt' \subseteq Ids', issued' \subseteq jwt'
    PROVE  IInv'
<1>1. flight' \in [Handlers -> {Idle} \cup Served] /\ RowsPersist'
    BY HandlerEnds
<1>2. invite \subseteq UserInvite /\ \A v \in invite : v.tenant \in tenant
    BY DEF IInv, TypeOK, TenantsExist
<1>3. TypeOK'
    BY <1>1, <1>2 DEF TypeOK, UsersKept
<1>4. \A i \in Ids' : i \in UserIds /\ user'[i] # Absent
    BY DEF Ids
<1>5. TenantsExist'
    BY <1>2, <1>4 DEF TenantsExist, UsersKept
<1> QED
    BY <1>1, <1>3, <1>5 DEF IInv

(* What holds of the tables before a step.                                   *)
LEMMA TablesBefore ==
    ASSUME IInv
    PROVE  /\ tenant \subseteq Tenants /\ role \subseteq Role /\ assignment \subseteq RoleAssignment
           /\ scim \subseteq tenant /\ saml \subseteq tenant /\ oidc \subseteq tenant
           /\ jwt \subseteq Ids /\ RolesOfTenant /\ Ids \subseteq UserIds
BY DEF IInv, TypeOK, TenantsExist, Ids

(* Tokens are issued to the users named, and others keep theirs.             *)
LEMMA Issuance ==
    ASSUME NEW S
    PROVE  /\ Issue(S) => jwt' = jwt \cup S /\ issued' = S /\ issued' \subseteq jwt'
           /\ NoToken => jwt' = jwt /\ issued' = {} /\ issued' \subseteq jwt'
BY DEF Issue, NoToken

(* No change of the roles of users.                                          *)
LEMMA NoRoleChanges ==
    ASSUME IInv, UNCHANGED <<role, assignment>>
    PROVE  role' \subseteq Role /\ assignment' \subseteq RoleAssignment /\ RolesOfTenant'
BY DEF IInv, TypeOK, RolesOfTenant

(* Handlers *)

(* Signing up makes a tenant, in which there is nobody yet.                  *)
LEMMA SignupStep ==
    ASSUME IInv, Deployed, NEW h \in Handlers, Signup(h)
    PROVE  IInv'
<1> DEFINE q == flight[h].q
<1>1. /\ flight[h] # Idle /\ flight[h].op = "signup" /\ q.tenant \notin tenant
      /\ flight' = [flight EXCEPT ![h] = Idle] /\ tenant' = tenant \cup {q.tenant}
      /\ invite' = invite /\ scim' = scim /\ saml' = saml /\ oidc' = oidc
    BY DEF Signup, Serve, Accepts, Idle
<1>2. q.tenant \in Tenants /\ q.email \in Emails
    BY <1>1, InFlight, RequestFields
<1>3. PICK i \in UserIds \ Ids : /\ NewUser(i, q.tenant, q.email, Nobody, TRUE, TRUE)
                                 /\ Granted(i, q.tenant, "admin")
                                 /\ Issue({i})
    BY DEF Signup
<1>4. AddressFree({}, q.tenant, q.email)
    BY <1>1 DEF AddressFree, Members, IInv, TenantsExist, Ids
<1>5. UsersKept /\ OneAccountPerAddress' /\ i \in Ids'
    BY <1>1, <1>2, <1>3, <1>4, UserAdded
<1>6. Ids \subseteq Ids'
    BY <1>1, <1>5, HandlerEnds
<1>7. role' \subseteq Role /\ assignment' \subseteq RoleAssignment /\ RolesOfTenant'
    BY <1>2, <1>3, GrantedType DEF Deployed
<1>8. jwt' \subseteq Ids' /\ issued' \subseteq jwt'
    BY <1>3, <1>5, <1>6, TablesBefore, Issuance
<1> QED
    BY <1>1, <1>2, <1>5, <1>7, <1>8, TablesBefore, Committed
(* A commit that leaves users and roles alone.                               *)
LEMMA CommittedElsewhere ==
    ASSUME IInv, NEW h \in Handlers, flight' = [flight EXCEPT ![h] = Idle],
           UNCHANGED <<tenant, user, role, assignment, invite>>,
           scim' \subseteq tenant, saml' \subseteq tenant, oidc' \subseteq tenant, jwt' \subseteq Ids,
           issued' \subseteq jwt'
    PROVE  IInv'
<1>1. UsersKept /\ OneAccountPerAddress'
    BY NoUserChanges
<1>2. Ids' = Ids
    BY DEF Ids
<1> QED
    BY <1>1, <1>2, NoRoleChanges, TablesBefore, Committed, Issuance

(* A commit that touches no table but that of users.                         *)
LEMMA CommittedUsers ==
    ASSUME IInv, NEW h \in Handlers, flight' = [flight EXCEPT ![h] = Idle],
           UsersKept, OneAccountPerAddress',
           NoToken, UNCHANGED <<tenant, role, assignment, invite, scim, saml, oidc>>
    PROVE  IInv'
<1>1. Ids \subseteq Ids'
    BY HandlerEnds
<1> QED
    BY <1>1, NoRoleChanges, TablesBefore, Committed, Issuance

(* A change of is_active is one of a row that is there.                      *)
LEMMA ActiveChanged ==
    ASSUME IInv, NEW i \in Ids, NEW b \in BOOLEAN, tenant \subseteq tenant',
           user' = [user EXCEPT ![i].is_active = b]
    PROVE  UsersKept /\ OneAccountPerAddress' /\ user'[i].is_active = b
<1>1. user \in [UserIds -> User \cup {Absent}] /\ i \in UserIds /\ user[i] # Absent
    BY DEF IInv, TypeOK, Ids
<1>2. user[i] \in User
    BY <1>1
<1> DEFINE row == [user[i] EXCEPT !.is_active = b]
<1>3. /\ row \in User /\ row.tenant = user[i].tenant /\ row.email = user[i].email
      /\ row.is_active = b
    <2>2. user[i].email \in Emails
        BY <1>2 DEF User
    <2> QED
        BY <1>2, <2>2, UserColumns
<1>4. user' = [user EXCEPT ![i] = row]
    OBVIOUS
<1> HIDE DEF row
<1> QED
    BY <1>3, <1>4, UserChanged

(* A row that is there is written as active, as inactive, or not at all.     *)
LEMMA NewActiveType ==
    ASSUME IInv, NEW f, NEW i \in Ids, NEW b \in BOOLEAN
    PROVE  NewActive(f, i, b) \in BOOLEAN
<1>1. user[i] \in User
    BY DEF IInv, TypeOK, Ids
<1>2. user[i].is_active \in BOOLEAN
    BY <1>1 DEF User
<1> QED
    BY <1>2, Zenon DEF NewActive

(* What is written of a column, whatever was read of the row.                *)
LEMMA ColumnsWritten ==
    ASSUME IInv, NEW f, NEW i \in Ids, NEW e \in Emails, NEW b \in BOOLEAN
    PROVE  /\ NewEmail(f, i, e) \in Emails /\ NewActive(f, i, b) \in BOOLEAN
           /\ Moves(f, i, e) => \/ NewEmail(f, i, e) = user[i].email
                               \/ AddressFree({i}, user[i].tenant, NewEmail(f, i, e))
<1>1. user[i] \in User
    BY DEF IInv, TypeOK, Ids
<1>2. user[i].email \in Emails
    BY <1>1 DEF User
<1> QED
    BY <1>2, NewActiveType DEF NewEmail, Moves

(* A change of the address of a row that is there.                           *)
LEMMA EmailChanged ==
    ASSUME IInv, NEW f, NEW i \in Ids, NEW e \in Emails, Moves(f, i, e), tenant \subseteq tenant',
           user' = [user EXCEPT ![i].email = NewEmail(f, i, e)]
    PROVE  UsersKept /\ OneAccountPerAddress'
<1> DEFINE new == NewEmail(f, i, e)
           row == [user[i] EXCEPT !.email = new]
<1>1. user[i] \in User
    BY DEF IInv, TypeOK, Ids
<1>2. new \in Emails /\ (new = user[i].email \/ AddressFree({i}, user[i].tenant, new))
    BY ColumnsWritten
<1>3. user' = [user EXCEPT ![i] = row]
    OBVIOUS
<1> HIDE DEF new
<1>4. row \in User /\ row.tenant = user[i].tenant /\ row.email = new
    BY <1>1, <1>2, UserColumns
<1> HIDE DEF row
<1> QED
    BY <1>2, <1>3, <1>4, UserChanged

(* Signing in finds users that are there.                                    *)
LEMMA LoginStep ==
    ASSUME IInv, NEW h \in Handlers, Login(h)
    PROVE  IInv'
<1>1. /\ flight[h] # Idle /\ flight' = [flight EXCEPT ![h] = Idle]
      /\ Issue(LoginMatches(flight[h].users, flight[h].q.email))
      /\ UNCHANGED <<tenant, user, role, assignment, invite, scim, saml, oidc>>
    BY DEF Login, Serve, Idle
<1>2. LoginMatches(flight[h].users, flight[h].q.email) \subseteq Ids
    BY <1>1, InFlight DEF LoginMatches
<1> QED
    BY <1>1, <1>2, TablesBefore, CommittedElsewhere, Issuance

(* An invitation is of a tenant that exists, and the address is free.        *)
LEMMA AcceptInviteStep ==
    ASSUME IInv, NEW h \in Handlers, AcceptInvite(h)
    PROVE  IInv'
<1> DEFINE v == flight[h].q.invite
<1>1. /\ flight[h] # Idle /\ flight' = [flight EXCEPT ![h] = Idle]
      /\ v \in flight[h].invites /\ AddressFree({}, v.tenant, v.email)
      /\ UNCHANGED <<tenant, scim, saml, oidc>> /\ invite' = invite \ {v}
    BY DEF AcceptInvite, Serve, Accepts, Idle
<1>2. v \in UserInvite /\ v.tenant \in tenant
    BY <1>1, InFlight
<1>3. PICK i \in UserIds \ Ids : /\ NewUser(i, v.tenant, v.email, Nobody, TRUE, TRUE)
                                 /\ Granted(i, v.tenant, v.role)
                                 /\ Issue({i})
    BY DEF AcceptInvite
<1>4. v.tenant \in Tenants /\ v.email \in Emails /\ v.role \in RoleNames
    BY <1>2 DEF UserInvite
<1> HIDE DEF v
<1>5. UsersKept /\ OneAccountPerAddress' /\ i \in Ids'
    BY <1>1, <1>2, <1>3, <1>4, UserAdded
<1>6. role' \subseteq Role /\ assignment' \subseteq RoleAssignment /\ RolesOfTenant'
    BY <1>3, <1>4, GrantedType
<1>7. Ids \subseteq Ids'
    BY <1>1, <1>5, HandlerEnds
<1>8. jwt' \subseteq Ids' /\ issued' \subseteq jwt'
    BY <1>3, <1>5, <1>7, TablesBefore, Issuance
<1> QED
    BY <1>1, <1>5, <1>6, <1>8, TablesBefore, Committed

(* Deactivation: the row stays.                                              *)
LEMMA RemoveUserStep ==
    ASSUME IInv, NEW h \in Handlers, RemoveUser(h) \/ DeleteScimUser(h)
    PROVE  IInv'
<1>1. /\ flight[h] # Idle /\ flight' = [flight EXCEPT ![h] = Idle]
      /\ NoToken /\ UNCHANGED <<tenant, role, assignment, invite, scim, saml, oidc>>
      /\ flight[h].op \in {"remove", "scim_delete"}
      /\ \/ UNCHANGED user
         \/ /\ user[flight[h].q.user] # Absent
            /\ user' = [user EXCEPT ![flight[h].q.user].is_active = FALSE]
    BY DEF RemoveUser, DeleteScimUser, Serve, Idle
<1>2. CASE UNCHANGED user
    BY <1>1, <1>2, NoUserChanges, CommittedUsers
<1>3. CASE /\ user[flight[h].q.user] # Absent
           /\ user' = [user EXCEPT ![flight[h].q.user].is_active = FALSE]
    <2>1. flight[h].q.user \in Ids
        BY <1>1, <1>3, InFlight, RequestFields DEF Ids
    <2>2. UsersKept /\ OneAccountPerAddress'
        BY <1>1, <1>3, <2>1, ActiveChanged
    <2> QED
        BY <1>1, <2>2, CommittedUsers
<1> QED
    BY <1>1, <1>2, <1>3
(* A profile takes an address that is free in the tenant.                    *)
LEMMA UpdateProfileStep ==
    ASSUME IInv, NEW h \in Handlers, UpdateProfile(h)
    PROVE  IInv'
<1> DEFINE q == flight[h].q
<1>1. /\ flight[h] # Idle /\ flight' = [flight EXCEPT ![h] = Idle]
      /\ NoToken /\ UNCHANGED <<tenant, role, assignment, invite, scim, saml, oidc>>
      /\ flight[h].op = "update_profile" /\ Moves(flight[h], q.by, q.email)
      /\ user' = [user EXCEPT ![q.by].email = NewEmail(flight[h], q.by, q.email)]
    BY DEF UpdateProfile, Serve, Accepts, Idle
<1>2. q \in Requests /\ q.op = "update_profile" /\ q.by \in Ids
    BY <1>1, InFlight DEF WithUser
<1>3. q.email \in Emails /\ tenant \subseteq tenant'
    BY <1>1, <1>2, RequestFields
<1>4. UsersKept /\ OneAccountPerAddress'
    BY <1>1, <1>2, <1>3, EmailChanged
<1> QED
    BY <1>1, <1>4, CommittedUsers

(* A configuration is of the tenant of the user that makes it.               *)
LEMMA ConfigureStep ==
    ASSUME IInv, NEW h \in Handlers, CreateScimToken(h) \/ ConfigureSaml(h) \/ AddOidcConfig(h)
    PROVE  IInv'
<1>1. /\ flight[h] # Idle /\ flight' = [flight EXCEPT ![h] = Idle]
      /\ NoToken /\ UNCHANGED <<tenant, user, role, assignment, invite>>
      /\ flight[h].op \in {"create_scim_token", "configure_saml", "add_oidc"}
      /\ scim' \in {scim, scim \cup {user[flight[h].q.by].tenant}}
      /\ saml' \in {saml, saml \cup {user[flight[h].q.by].tenant}}
      /\ oidc' \in {oidc, oidc \cup {user[flight[h].q.by].tenant}}
    BY DEF CreateScimToken, ConfigureSaml, AddOidcConfig, Serve, Idle
<1>2. flight[h].q.by \in Ids
    BY <1>1, InFlight DEF WithUser, AdminOnly
<1>3. user[flight[h].q.by].tenant \in tenant
    BY <1>2 DEF IInv, TenantsExist
<1> QED
    BY <1>1, <1>3, TablesBefore, CommittedElsewhere, Issuance

(* A provisioned user is new, with a free address of the token's tenant.     *)
LEMMA CreateScimUserStep ==
    ASSUME IInv, NEW h \in Handlers, CreateScimUser(h)
    PROVE  IInv'
<1> DEFINE q == flight[h].q
<1>1. /\ flight[h] # Idle /\ flight' = [flight EXCEPT ![h] = Idle]
      /\ NoToken /\ UNCHANGED <<tenant, invite, scim, saml, oidc>>
      /\ flight[h].op = "scim_create" /\ AddressFree({}, q.tenant, q.email)
    BY DEF CreateScimUser, Serve, Accepts, Idle
<1>2. PICK i \in UserIds \ Ids, ext \in {q.email, Nobody} :
          NewUser(i, q.tenant, q.email, ext, q.active, FALSE) /\ Granted(i, q.tenant, q.role)
    BY DEF CreateScimUser
<1>3. q \in Requests /\ q.op = "scim_create" /\ q.tenant \in tenant
    BY <1>1, InFlight DEF OfTenant, Scim
<1>4. q.tenant \in Tenants /\ q.email \in Emails /\ q.role \in RoleNames /\ q.active \in BOOLEAN
    BY <1>3, RequestFields
<1> HIDE DEF q
<1>5. UsersKept /\ OneAccountPerAddress'
    BY <1>1, <1>2, <1>3, <1>4, UserAdded
<1>6. role' \subseteq Role /\ assignment' \subseteq RoleAssignment /\ RolesOfTenant'
    BY <1>2, <1>4, GrantedType
<1>7. Ids \subseteq Ids'
    BY <1>1, <1>5, HandlerEnds
<1> QED
    BY <1>1, <1>5, <1>6, <1>7, TablesBefore, Committed, Issuance

(* A replacement takes an address that is free in the tenant of the row.     *)
LEMMA ReplaceScimUserStep ==
    ASSUME IInv, NEW h \in Handlers, ReplaceScimUser(h)
    PROVE  IInv'
<1> DEFINE q == flight[h].q
           email == NewEmail(flight[h], q.user, q.email)
           active == NewActive(flight[h], q.user, q.active)
           External(ext) == NewExternal(flight[h], q.user, ext)
<1>1. /\ flight[h] # Idle /\ flight' = [flight EXCEPT ![h] = Idle]
      /\ NoToken /\ UNCHANGED <<tenant, role, assignment, invite, scim, saml, oidc>>
      /\ flight[h].op = "scim_replace" /\ Found(flight[h], q.user)
      /\ Moves(flight[h], q.user, q.email)
    BY DEF ReplaceScimUser, Serve, Accepts, Idle
<1>2. PICK ext \in {flight[h].users[q.user].external_id, q.email} :
          user' = [user EXCEPT ![q.user].email = email, ![q.user].is_active = active,
                               ![q.user].external_id = External(ext)]
    BY DEF ReplaceScimUser
<1>3. q \in Requests /\ q.op = "scim_replace"
    BY <1>1, InFlight
<1>4. q.user \in UserIds /\ q.email \in Emails /\ q.active \in BOOLEAN
    BY <1>3, RequestFields
<1>5. q.user \in Ids
    BY <1>1, <1>4, InFlight DEF Found
<1>6. user \in [UserIds -> User \cup {Absent}] /\ user[q.user] \in User
    BY <1>5 DEF IInv, TypeOK, Ids
<1>7. /\ email \in Emails /\ active \in BOOLEAN
      /\ email = user[q.user].email \/ AddressFree({q.user}, user[q.user].tenant, email)
    BY <1>1, <1>4, <1>5, ColumnsWritten
<1>8. PICK column : column = External(ext)
    OBVIOUS
<1>9. column \in Emails \cup {Nobody}
    <2>1. user[q.user].external_id \in Emails \cup {Nobody}
        BY <1>6 DEF User
    <2> QED
        BY <1>2, <1>4, <1>8, <2>1 DEF NewExternal
<1>10. user' = [user EXCEPT ![q.user].email = email, ![q.user].is_active = active,
                            ![q.user].external_id = column]
    BY <1>2, <1>8
<1> HIDE DEF email, active, External
<1> DEFINE moved == [user[q.user] EXCEPT !.email = email]
           kept == [moved EXCEPT !.is_active = active]
           row == [kept EXCEPT !.external_id = column]
<1>11. moved \in User /\ moved.tenant = user[q.user].tenant /\ moved.email = email
    BY <1>6, <1>7, UserColumns
<1>12. user' = [user EXCEPT ![q.user] = row] /\ tenant \subseteq tenant'
    BY <1>1, <1>4, <1>6, <1>10
<1> HIDE DEF moved
<1>13. kept \in User /\ kept.tenant = user[q.user].tenant /\ kept.email = email
    <2>1. kept \in User /\ kept.email = moved.email /\ kept.tenant = moved.tenant
        BY <1>7, <1>11, UserColumns
    <2> QED
        BY <1>11, <2>1
<1> HIDE DEF kept
<1>14. row \in User /\ row.tenant = user[q.user].tenant /\ row.email = email
    BY <1>9, <1>13, ExternalColumn
<1> HIDE DEF row
<1>15. UsersKept /\ OneAccountPerAddress'
    BY <1>5, <1>7, <1>12, <1>14, UserChanged
<1> QED
    BY <1>1, <1>15, CommittedUsers

(* A patch changes whether a row of the tenant is active, or its address.    *)
LEMMA PatchScimUserStep ==
    ASSUME IInv, NEW h \in Handlers, PatchScimUser(h)
    PROVE  IInv'
<1> DEFINE f == flight[h]
           q == f.q
<1>1. /\ f # Idle /\ flight' = [flight EXCEPT ![h] = Idle] /\ Found(f, q.user)
      /\ NoToken /\ UNCHANGED <<tenant, role, assignment, invite, scim, saml, oidc>>
      /\ \/ f.op = "scim_patch" /\ user' = [user EXCEPT ![q.user].is_active = NewActive(f, q.user, q.active)]
         \/ /\ f.op = "scim_rename" /\ Moves(f, q.user, q.email)
            /\ user' = [user EXCEPT ![q.user].email = NewEmail(f, q.user, q.email)]
    <2>1. CASE Serve(h, "scim_patch")
        BY <2>1 DEF PatchScimUser, Serve, Accepts, Idle
    <2>2. CASE Serve(h, "scim_rename")
        BY <2>2 DEF PatchScimUser, Serve, Accepts, Idle
    <2> QED
        BY <2>1, <2>2 DEF PatchScimUser
<1>2. q \in Requests /\ q.op = f.op
    BY <1>1, InFlight
<1>3. /\ q.user \in UserIds
      /\ q.op = "scim_patch" => q.active \in BOOLEAN
      /\ q.op = "scim_rename" => q.email \in Emails
    BY <1>1, <1>2, RequestFields
<1>4. q.user \in Ids /\ tenant \subseteq tenant'
    BY <1>1, <1>3, InFlight DEF Found
<1>5. UsersKept /\ OneAccountPerAddress'
    <2>1. CASE /\ f.op = "scim_patch"
               /\ user' = [user EXCEPT ![q.user].is_active = NewActive(f, q.user, q.active)]
        <3>1. q.active \in BOOLEAN
            BY <1>2, <1>3, <2>1
        <3>2. NewActive(f, q.user, q.active) \in BOOLEAN
            BY <1>4, <3>1, NewActiveType
        <3> QED
            BY <1>4, <2>1, <3>2, ActiveChanged
    <2>2. CASE /\ f.op = "scim_rename" /\ Moves(f, q.user, q.email)
               /\ user' = [user EXCEPT ![q.user].email = NewEmail(f, q.user, q.email)]
        BY <1>2, <1>3, <1>4, <2>2, EmailChanged
    <2> QED
        BY <1>1, <2>1, <2>2
<1> QED
    BY <1>1, <1>5, CommittedUsers

(* A group of a tenant grants a role of that tenant, to a user of any.       *)
LEMMA PatchScimGroupStep ==
    ASSUME IInv, NEW h \in Handlers, PatchScimGroup(h)
    PROVE  IInv'
<1> DEFINE q == flight[h].q
<1>1. /\ flight[h] # Idle /\ flight' = [flight EXCEPT ![h] = Idle]
      /\ NoToken /\ UNCHANGED <<tenant, user, invite, scim, saml, oidc>>
      /\ \/ flight[h].op = "scim_group_add" /\ Granted(q.user, q.tenant, q.role)
         \/ UNCHANGED role /\ assignment' \subseteq assignment
    BY DEF PatchScimGroup, Serve, Idle
<1>2. role' \subseteq Role /\ assignment' \subseteq RoleAssignment /\ RolesOfTenant'
    <2>1. CASE flight[h].op = "scim_group_add" /\ Granted(q.user, q.tenant, q.role)
        <3>1. q \in Requests /\ q.op = "scim_group_add"
            BY <1>1, <2>1, InFlight
        <3>2. q.user \in UserIds /\ q.tenant \in Tenants /\ q.role \in RoleNames
            BY <3>1, RequestFields DEF OfTenant, Scim
        <3> QED
            BY <2>1, <3>2, GrantedType
    <2>2. CASE UNCHANGED role /\ assignment' \subseteq assignment
        BY <2>2, TablesBefore DEF RolesOfTenant
    <2> QED
        BY <1>1, <2>1, <2>2
<1>3. UsersKept /\ OneAccountPerAddress' /\ Ids' = Ids
    BY <1>1, NoUserChanges DEF Ids
<1> QED
    BY <1>1, <1>2, <1>3, TablesBefore, Committed, Issuance
(* Single sign-on finds a member, or makes one with a free address.          *)
LEMMA SamlAcsStep ==
    ASSUME IInv, NEW h \in Handlers, SamlAcs(h)
    PROVE  IInv'
<1> DEFINE q == flight[h].q
           known == Members(flight[h].users, q.tenant, q.email)
<1>1. /\ flight[h] # Idle /\ flight' = [flight EXCEPT ![h] = Idle]
      /\ UNCHANGED <<tenant, invite, scim, saml, oidc>>
      /\ flight[h].op = "saml_acs"
      /\ known = {} => AddressFree({}, q.tenant, q.email)
    BY DEF SamlAcs, Serve, Accepts, Idle
<1>2. q \in Requests /\ q.op = "saml_acs" /\ q.tenant \in tenant
    BY <1>1, InFlight DEF OfTenant
<1>3. q.tenant \in Tenants /\ q.email \in Emails /\ q.role \in RoleNames
    BY <1>2, RequestFields
<1>4. known \subseteq Ids
    BY <1>1, InFlight DEF Members
<1>5. \/ \E i \in known : /\ user' = [user EXCEPT ![i].is_active = NewActive(flight[h], i, TRUE)]
                          /\ Issue({i}) /\ UNCHANGED <<role, assignment>>
      \/ /\ known = {}
         /\ \E i \in UserIds \ Ids : /\ NewUser(i, q.tenant, q.email, Nobody, TRUE, FALSE)
                                     /\ Granted(i, q.tenant, q.role)
                                     /\ Issue({i})
    BY DEF SamlAcs
<1> HIDE DEF q, known
<1>6. CASE \E i \in known : /\ user' = [user EXCEPT ![i].is_active = NewActive(flight[h], i, TRUE)]
                            /\ Issue({i}) /\ UNCHANGED <<role, assignment>>
    <2>1. PICK i \in known : /\ user' = [user EXCEPT ![i].is_active = NewActive(flight[h], i, TRUE)]
                             /\ Issue({i}) /\ UNCHANGED <<role, assignment>>
        BY <1>6
    <2>2. UsersKept /\ OneAccountPerAddress'
        BY <1>1, <1>4, <2>1, NewActiveType, ActiveChanged
    <2>3. Ids \subseteq Ids'
        BY <1>1, <2>2, HandlerEnds
    <2>4. jwt' \subseteq Ids' /\ issued' \subseteq jwt'
        BY <1>4, <2>1, <2>3, TablesBefore, Issuance
    <2> QED
        BY <1>1, <2>1, <2>2, <2>4, NoRoleChanges, TablesBefore, Committed
<1>7. CASE /\ known = {}
           /\ \E i \in UserIds \ Ids : /\ NewUser(i, q.tenant, q.email, Nobody, TRUE, FALSE)
                                       /\ Granted(i, q.tenant, q.role)
                                       /\ Issue({i})
    <2>1. PICK i \in UserIds \ Ids : /\ NewUser(i, q.tenant, q.email, Nobody, TRUE, FALSE)
                                     /\ Granted(i, q.tenant, q.role)
                                     /\ Issue({i})
        BY <1>7
    <2>2. UsersKept /\ OneAccountPerAddress' /\ i \in Ids'
        BY <1>1, <1>2, <1>3, <1>7, <2>1, UserAdded
    <2>3. role' \subseteq Role /\ assignment' \subseteq RoleAssignment /\ RolesOfTenant'
        BY <1>3, <2>1, GrantedType
    <2>4. Ids \subseteq Ids'
        BY <1>1, <2>2, HandlerEnds
    <2>5. jwt' \subseteq Ids' /\ issued' \subseteq jwt'
        BY <2>1, <2>2, <2>4, TablesBefore, Issuance
    <2> QED
        BY <1>1, <2>2, <2>3, <2>5, TablesBefore, Committed
<1> QED
    BY <1>5, <1>6, <1>7

(* A subject of the identity provider is known, or a new user.               *)
LEMMA OidcLoginStep ==
    ASSUME IInv, NEW h \in Handlers, OidcLogin(h)
    PROVE  IInv'
<1> DEFINE q == flight[h].q
<1>1. /\ flight[h] # Idle /\ flight' = [flight EXCEPT ![h] = Idle]
      /\ NoToken /\ UNCHANGED <<tenant, role, assignment, invite, scim, saml, oidc>>
      /\ flight[h].op = "oidc"
      /\ \/ UNCHANGED user
         \/ /\ AddressFree({}, q.tenant, q.email)
            /\ \E i \in UserIds \ Ids : NewUser(i, q.tenant, q.email, q.email, TRUE, FALSE)
    <2>1. /\ flight[h].op = "oidc" /\ Accepts(flight[h])
          /\ flight' = [flight EXCEPT ![h] = Idle] /\ flight[h] # Idle
          /\ NoToken /\ UNCHANGED <<tenant, role, assignment, invite, scim, saml, oidc>>
          /\ KnownSubject(flight[h]) # {} => UNCHANGED user
          /\ KnownSubject(flight[h]) = {} =>
                \E i \in UserIds \ Ids : NewUser(i, q.tenant, q.email, q.email, TRUE, FALSE)
        BY DEF OidcLogin, Serve, Idle, NewUser
    <2>2. KnownSubject(flight[h]) = {} => AddressFree({}, q.tenant, q.email)
        BY <2>1 DEF Accepts
    <2> QED
        BY <2>1, <2>2
<1>2. q \in Requests /\ q.op = "oidc" /\ q.tenant \in tenant
    BY <1>1, InFlight DEF OfTenant
<1>3. q.tenant \in Tenants /\ q.email \in Emails
    BY <1>2, RequestFields
<1>4. UsersKept /\ OneAccountPerAddress'
    BY <1>1, <1>2, <1>3, NoUserChanges, UserAdded
<1> QED
    BY <1>1, <1>4, CommittedUsers

(* A request that is let through reads rows of tenants that exist.           *)
LEMMA ArriveStep ==
    ASSUME IInv, NEW h \in Handlers, NEW q \in Requests, Arrive(h, q)
    PROVE  IInv'
<1> DEFINE f == [op |-> q.op, q |-> q, users |-> user, invites |-> invite]
<1>1. /\ Authorized(q) /\ flight' = [flight EXCEPT ![h] = f]
      /\ NoToken /\ UNCHANGED <<tenant, user, role, assignment, invite, scim, saml, oidc>>
    BY DEF Arrive
<1>2. /\ user \in [UserIds -> User \cup {Absent}] /\ invite \in SUBSET UserInvite
      /\ flight \in [Handlers -> {Idle} \cup Served]
    BY DEF IInv, TypeOK
<1>3. f \in Served /\ f.op = q.op /\ f.q = q /\ f.users = user /\ f.invites = invite
    <2>1. q.op \in {r.op : r \in Requests}
        OBVIOUS
    <2>2. f \in Served
        BY <1>2, <2>1, Zenon DEF Served
    <2> QED
        BY <2>2
<1>4. q.op \in WithUser => q.by \in Ids
    BY <1>1, ByField DEF Authorized, Ids
<1>5. q.op \in OfTenant => q.tenant \in tenant
    BY <1>1 DEF Authorized, OfTenant, IInv, TenantsExist
<1>6. Ids' = Ids
    BY <1>1 DEF Ids
<1> HIDE DEF f
<1>7. /\ flight' \in [Handlers -> {Idle} \cup Served] /\ flight'[h] = f
      /\ \A g \in Handlers : g # h => flight'[g] = flight[g]
    BY <1>1, <1>2, <1>3
<1>8. TypeOK'
    BY <1>1, <1>6, <1>7 DEF IInv, TypeOK, NoToken
<1>9. RowsPersist'
    <2> SUFFICES ASSUME NEW g \in Handlers, flight'[g] # Idle
                 PROVE  /\ flight'[g].op = flight'[g].q.op
                        /\ \A i \in UserIds :
                              flight'[g].users[i] # Absent =>
                                  user'[i] # Absent /\ user'[i].tenant = flight'[g].users[i].tenant
                        /\ flight'[g].q.op \in WithUser => flight'[g].q.by \in Ids'
                        /\ flight'[g].q.op \in OfTenant => flight'[g].q.tenant \in tenant'
                        /\ \A v \in flight'[g].invites : v.tenant \in tenant'
        BY DEF RowsPersist
    <2>1. CASE g = h
        BY <1>1, <1>3, <1>4, <1>5, <1>6, <1>7, <2>1 DEF IInv, TenantsExist
    <2>2. CASE g # h
        BY <1>1, <1>6, <1>7, <2>2 DEF IInv, RowsPersist
    <2> QED
        BY <2>1, <2>2
<1>10. TenantsExist' /\ RolesOfTenant' /\ OneAccountPerAddress'
    BY <1>1, <1>6 DEF IInv, TenantsExist, RolesOfTenant, OneAccountPerAddress
<1> QED
    BY <1>8, <1>9, <1>10 DEF IInv

(* A refusal changes nothing.                                                *)
LEMMA RefuseStep ==
    ASSUME IInv, NEW h \in Handlers, Refuse(h)
    PROVE  IInv'
<1>1. /\ flight' = [flight EXCEPT ![h] = Idle]
      /\ NoToken /\ UNCHANGED <<tenant, user, role, assignment, invite, scim, saml, oidc>>
    BY DEF Refuse
<1> QED
    BY <1>1, TablesBefore, CommittedElsewhere, Issuance

(* A tenant that is made has nobody in it.                                   *)
LEMMA CreateTenantStep ==
    ASSUME IInv, CreateTenant
    PROVE  IInv'
<1>1. PICK t \in Tenants \ tenant :
          /\ tenant' = tenant \cup {t}
          /\ role' = role \cup {[tenant |-> t, name |-> n] : n \in RoleNames}
          /\ NoToken /\ UNCHANGED <<user, assignment, invite, scim, saml, oidc, flight>>
    BY DEF CreateTenant
<1>2. Ids' = Ids
    BY <1>1 DEF Ids
<1>3. {[tenant |-> t, name |-> n] : n \in RoleNames} \subseteq Role
    BY DEF Role
<1>4. TypeOK'
    BY <1>1, <1>2, <1>3 DEF IInv, TypeOK, NoToken
<1>5. RowsPersist'
    BY <1>1, <1>2 DEF IInv, RowsPersist
<1>6. TenantsExist' /\ RolesOfTenant' /\ OneAccountPerAddress'
    BY <1>1, <1>2 DEF IInv, TenantsExist, RolesOfTenant, OneAccountPerAddress
<1> QED
    BY <1>4, <1>5, <1>6 DEF IInv
----------------------------------------------------------------------------
(* The invariant *)

(* The first tenant, its founder and its invitation satisfy the invariant.   *)
LEMMA InitIInv ==
    ASSUME Deployed, Init
    PROVE  IInv
<1> DEFINE r == [tenant |-> Founded, name |-> "admin"]
           a == [tenant |-> Founded, user |-> Founder, role |-> r]
           row == [tenant |-> Founded, email |-> Host, external_id |-> Nobody,
                   is_active |-> TRUE, local |-> TRUE]
<1>1. /\ r \in Role /\ a \in RoleAssignment /\ a.role.tenant = a.tenant
      /\ row \in User /\ row.tenant = Founded
    BY DEF Deployed, Role, RoleAssignment, User
<1>2. PICK n \in RoleNames : invite = {[tenant |-> Founded, email |-> Guest, role |-> n]}
    BY DEF Init
<1> DEFINE v == [tenant |-> Founded, email |-> Guest, role |-> n]
<1>3. v \in UserInvite /\ v.tenant = Founded
    BY DEF Deployed, UserInvite
<1>4. /\ tenant = {Founded} /\ role = {r} /\ assignment = {a} /\ invite = {v}
      /\ user = [i \in UserIds |-> IF i # Founder THEN Absent ELSE row]
      /\ scim = {} /\ saml = {} /\ oidc = {} /\ jwt = {Founder} /\ issued = {}
      /\ flight = [h \in Handlers |-> Idle]
    BY <1>2 DEF Init
<1>5. row # Absent /\ Founder \in UserIds /\ Founded \in Tenants
    BY <1>1, RowsArePresent DEF Deployed
<1> HIDE DEF r, a, row, v
<1>6. Ids = {Founder} /\ user[Founder] = row
    BY <1>4, <1>5 DEF Ids
<1>7. TypeOK
    BY <1>1, <1>3, <1>4, <1>5, <1>6 DEF TypeOK
<1>8. RowsPersist
    BY <1>4 DEF RowsPersist
<1>9. TenantsExist /\ RolesOfTenant /\ OneAccountPerAddress
    BY <1>1, <1>3, <1>4, <1>6 DEF TenantsExist, RolesOfTenant, OneAccountPerAddress
<1> QED
    BY <1>7, <1>8, <1>9 DEF IInv

(* Every step keeps the invariant.                                           *)
LEMMA StepIInv ==
    ASSUME IInv, Deployed, [Next]_vars
    PROVE  IInv'
<1>1. CASE CreateTenant
    BY <1>1, CreateTenantStep
<1>2. ASSUME NEW h \in Handlers, NEW q \in Requests, Arrive(h, q)
      PROVE  IInv'
    BY <1>2, ArriveStep
<1>3. ASSUME NEW h \in Handlers, Handler(h)
      PROVE  IInv'
    BY <1>3, SignupStep, LoginStep, AcceptInviteStep, RemoveUserStep, UpdateProfileStep,
       ConfigureStep, CreateScimUserStep, ReplaceScimUserStep, PatchScimUserStep,
       PatchScimGroupStep, SamlAcsStep, OidcLoginStep, RefuseStep
       DEF Handler
<1>4. CASE UNCHANGED vars
    <2>1. UNCHANGED <<tenant, user, role, assignment, invite, scim, saml, oidc, jwt, issued, flight>>
        BY <1>4 DEF vars
    <2>2. Ids' = Ids
        BY <2>1 DEF Ids
    <2> QED
        BY <2>1, <2>2 DEF IInv, TypeOK, RowsPersist, TenantsExist, RolesOfTenant,
                          OneAccountPerAddress
<1> QED
    BY <1>1, <1>2, <1>3, <1>4 DEF Next

(* The invariant holds in every reachable state.                             *)
LEMMA Invariant ==
    ASSUME Deployed
    PROVE  Spec => []IInv
BY InitIInv, StepIInv, PTL DEF Spec

----------------------------------------------------------------------------
(* Theorems *)

(* Rows and requests have their types, and a token is of a row that exists:  *)
(* no handler deletes a user (auth/scim.py and api/users.py deactivate).     *)
THEOREM TypeCorrect ==
    ASSUME Deployed
    PROVE  Spec => []TypeOK
<1>1. IInv => TypeOK
    BY DEF IInv
<1> QED
    BY <1>1, Invariant, PTL

(* However sign-up, invitations, SCIM, SAML, OIDC and profile changes        *)
(* interleave, and however stale what they looked up is when they commit, an *)
(* address has one account in a tenant (scim.py:147-151, users.py:131,       *)
(* saml.py:128-152, uq_tenant_email).                                        *)
THEOREM AddressesHaveOneAccount ==
    ASSUME Deployed
    PROVE  Spec => []OneAccountPerAddress
<1>1. IInv => OneAccountPerAddress
    BY DEF IInv
<1> QED
    BY <1>1, Invariant, PTL

(* A SCIM group grants its role to any user id (scim.py:292-297), and yet    *)
(* nobody gets a permission from a role of another tenant, for the roles     *)
(* that are loaded are those assigned in the tenant of the token.            *)
THEOREM RolesStayInTenant ==
    ASSUME Deployed
    PROVE  Spec => []PermissionsStayInTenant
<1>1. IInv => PermissionsStayInTenant
    BY DEF IInv, RolesOfTenant, PermissionsStayInTenant, RolesOf
<1> QED
    BY <1>1, Invariant, PTL

(* Where requests come one at a time, what a handler read is what the table  *)
(* holds.                                                                    *)
Alone == \A g, h \in Handlers : g = h
ReadIsFresh == \A h \in Handlers : flight[h] # Idle => flight[h].users = user

(* A handler that ends leaves no other with what it read.                    *)
LEMMA StepFresh ==
    ASSUME IInv, Alone, ReadIsFresh, [Next]_vars
    PROVE  ReadIsFresh'
<1>1. flight \in [Handlers -> {Idle} \cup Served]
    BY DEF IInv, TypeOK
<1>2. ASSUME NEW h \in Handlers, flight' = [flight EXCEPT ![h] = Idle]
      PROVE  ReadIsFresh'
    BY <1>1, <1>2 DEF ReadIsFresh, Alone
<1>3. ASSUME NEW h \in Handlers, NEW q \in Requests, Arrive(h, q)
      PROVE  ReadIsFresh'
    <2>1. /\ UNCHANGED user
          /\ flight' = [flight EXCEPT ![h] = [op |-> q.op, q |-> q, users |-> user, invites |-> invite]]
        BY <1>3 DEF Arrive
    <2>2. flight'[h].users = user /\ \A g \in Handlers : g = h
        BY <1>1, <2>1 DEF Alone
    <2> QED
        BY <2>1, <2>2 DEF ReadIsFresh
<1>4. ASSUME NEW h \in Handlers, Handler(h)
      PROVE  flight' = [flight EXCEPT ![h] = Idle]
    BY <1>4 DEF Handler, Serve, Signup, Login, AcceptInvite, RemoveUser, UpdateProfile,
                CreateScimToken, CreateScimUser, ReplaceScimUser, PatchScimUser, DeleteScimUser,
                PatchScimGroup, ConfigureSaml, AddOidcConfig, SamlAcs, OidcLogin, Refuse
<1>5. CASE UNCHANGED <<user, flight>>
    BY <1>5 DEF ReadIsFresh
<1>6. CASE CreateTenant \/ UNCHANGED vars
    BY <1>5, <1>6 DEF CreateTenant, vars
<1> QED
    BY <1>2, <1>3, <1>4, <1>6 DEF Next

(* A handler that signs a user in leaves that user active.                   *)
LEMMA HandlerIssues ==
    ASSUME IInv, ReadIsFresh, NEW h \in Handlers, Handler(h)
    PROVE  IssuedToActive'
<1>1. user \in [UserIds -> User \cup {Absent}]
    BY DEF IInv, TypeOK
<1>2. ASSUME NEW i \in UserIds, NEW t, NEW e, NEW ext, NEW loc,
             NewUser(i, t, e, ext, TRUE, loc)
      PROVE  user'[i].is_active
    BY <1>1, <1>2 DEF NewUser
<1>3. CASE Signup(h) \/ AcceptInvite(h)
    <2>1. PICK i \in UserIds : user'[i].is_active /\ issued' = {i}
        BY <1>2, <1>3, Issuance DEF Signup, AcceptInvite
    <2> QED
        BY <2>1 DEF IssuedToActive
<1>4. CASE Login(h)
    <2>1. /\ issued' = LoginMatches(flight[h].users, flight[h].q.email)
          /\ UNCHANGED user /\ flight[h] # Idle
        BY <1>4, Issuance DEF Login, Serve, Idle
    <2>2. flight[h].users = user
        BY <2>1 DEF ReadIsFresh
    <2> QED
        BY <2>1, <2>2 DEF IssuedToActive, LoginMatches
<1>5. CASE SamlAcs(h)
    <2>1. flight[h] # Idle
        BY <1>5 DEF SamlAcs, Serve, Idle
    <2>2. Members(flight[h].users, flight[h].q.tenant, flight[h].q.email) \subseteq Ids
        BY <2>1, InFlight DEF Members
    <2>3. \A i \in Ids : user' = [user EXCEPT ![i].is_active = NewActive(flight[h], i, TRUE)] =>
                           user'[i].is_active
        <3>1. flight[h].users = user
            BY <2>1 DEF ReadIsFresh
        <3>2. \A i \in Ids : NewActive(flight[h], i, TRUE) = TRUE
            BY <3>1 DEF NewActive
        <3> QED
            BY <3>2, ActiveChanged, <1>5 DEF SamlAcs
    <2>4. PICK i \in UserIds : user'[i].is_active /\ issued' = {i}
        BY <1>2, <1>5, <2>2, <2>3, Issuance DEF SamlAcs, Ids
    <2> QED
        BY <2>4 DEF IssuedToActive
<1>6. CASE NoToken
    BY <1>6 DEF IssuedToActive, NoToken
<1> QED
    BY <1>3, <1>4, <1>5, <1>6 DEF Handler, RemoveUser, UpdateProfile, CreateScimToken,
       CreateScimUser, ReplaceScimUser, PatchScimUser, DeleteScimUser, PatchScimGroup,
       ConfigureSaml, AddOidcConfig, OidcLogin, Refuse

(* Where requests come one at a time, a token is issued to a user that is    *)
(* active when it is issued, also one that is issued again: after a removal  *)
(* only where the code reactivates the row (local.py:189, saml.py:152).      *)
THEOREM TokensGoToTheActive ==
    ASSUME Deployed, Alone
    PROVE  Spec => []IssuedToActive
<1>1. Init => ReadIsFresh /\ IssuedToActive
    BY DEF Init, ReadIsFresh, IssuedToActive
<1>2. IInv /\ ReadIsFresh /\ [Next]_vars => ReadIsFresh'
    BY StepFresh
<1>3. IInv /\ ReadIsFresh /\ IssuedToActive /\ [Next]_vars => IssuedToActive'
    <2>1. ASSUME NoToken
          PROVE  IssuedToActive'
        BY <2>1 DEF IssuedToActive, NoToken
    <2>2. ASSUME IssuedToActive, UNCHANGED vars
          PROVE  IssuedToActive'
        BY <2>2 DEF IssuedToActive, vars
    <2> QED
        BY <2>1, <2>2, HandlerIssues DEF Next, CreateTenant, Arrive
<1> QED
    BY <1>1, <1>2, <1>3, Invariant, PTL DEF Spec
=============================================================================
