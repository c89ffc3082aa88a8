------------------------------- MODULE SumTheorems -----------------------------
(***************************************************************************)
(* Sums over finite sets, as the sums of MapThenSumSet unfold, and the     *)
(* smallest element that stands for an induction. The laws of the sums are *)
(* used wherever the models add up shares, fills and lots.                 *)
(***************************************************************************)
EXTENDS Integers, FiniteSets, FiniteSetTheorems, TLAPS

--------------------------------------------------------------------------------
(* Sums over finite sets *)

\* The element that MapThenSumSet takes out of a set.
First(s) == CHOOSE x \in s : TRUE

\* h gives the sum of w over every subset of S.
Sums(h, w, S) ==
    h = [s \in SUBSET S |->
            IF s = {} THEN 0
            ELSE w[First(s)] + h[s \ {First(s)}]]

SumOf(w, S) == (CHOOSE h : Sums(h, w, S))[S]

\* A set of subsets of a finite set has a smallest one: induction over finite sets.
LEMMA SmallestSubset ==
    ASSUME NEW S, IsFiniteSet(S), NEW U \in SUBSET SUBSET S, U # {}
    PROVE  \E t \in U : \A v \in U : v \subseteq t => v = t
<1>1. U \subseteq FiniteSubsetsOf(S)
    BY FS_FiniteSubsetsOfFinite
<1>2. \E t \in U : \A v \in U : <<v, t>> \notin StrictSubsetOrdering(S)
    BY <1>1, FS_StrictSubsetOrderingWellFounded, WFMin
<1>3. \A t \in U, v \in U : v \subseteq t /\ v # t => <<v, t>> \in StrictSubsetOrdering(S)
    BY DEF StrictSubsetOrdering
<1> QED  BY <1>2, <1>3

LEMMA SumsStep ==
    ASSUME NEW w, NEW S, NEW h, Sums(h, w, S), NEW s \in SUBSET S
    PROVE  /\ s = {} => h[s] = 0
           /\ s # {} => First(s) \in s /\ h[s] = w[First(s)] + h[s \ {First(s)}]
<1>1. h[s] = IF s = {} THEN 0 ELSE w[First(s)] + h[s \ {First(s)}]
    BY DEF Sums
<1>2. s # {} => First(s) \in s
    BY DEF First
<1> QED  BY <1>1, <1>2

\* The sum is determined by what is added, whatever set it is computed within.
LEMMA SumsUnique ==
    ASSUME NEW w, NEW v, NEW S, NEW T, NEW g, NEW h, Sums(g, w, S), Sums(h, v, T),
           NEW R, IsFiniteSet(R), R \subseteq S, R \subseteq T, \A x \in R : w[x] = v[x]
    PROVE  g[R] = h[R]
<1> DEFINE U == {t \in SUBSET R : g[t] # h[t]}
<1> SUFFICES ASSUME U # {} PROVE FALSE
    OBVIOUS
<1>1. PICK t \in U : \A u \in U : u \subseteq t => u = t
    <2>1. U \in SUBSET SUBSET R
        OBVIOUS
    <2> HIDE DEF U
    <2> QED  BY <2>1, SmallestSubset
<1>2. t # {}
    BY <1>1, SumsStep
<1> DEFINE x == First(t)
<1>3. x \in t /\ g[t] = w[x] + g[t \ {x}] /\ h[t] = v[x] + h[t \ {x}]
    <2>1. t \in SUBSET S /\ t \in SUBSET T
        OBVIOUS
    <2> HIDE DEF U
    <2>2. x \in t /\ g[t] = w[x] + g[t \ {x}]
        BY <1>2, <2>1, SumsStep
    <2>3. h[t] = v[x] + h[t \ {x}]
        BY <1>2, <2>1, SumsStep
    <2> QED  BY <2>2, <2>3
<1> HIDE DEF x
<1>5. t \ {x} \notin U
    BY <1>1, <1>3
<1> QED  BY <1>1, <1>3, <1>5

\* There is such a function for every finite set.
LEMMA SumsExist ==
    ASSUME NEW w, NEW S, IsFiniteSet(S)
    PROVE  \E h : Sums(h, w, S)
<1> DEFINE U == {t \in SUBSET S : ~ \E h : Sums(h, w, t)}
<1> SUFFICES ASSUME U # {} PROVE FALSE
    OBVIOUS
<1>1. PICK t \in U : \A u \in U : u \subseteq t => u = t
    <2>1. U \in SUBSET SUBSET S
        OBVIOUS
    <2> HIDE DEF U
    <2> QED  BY <2>1, SmallestSubset
<1>2. \A s \in SUBSET t : IsFiniteSet(s)
    BY <1>1, FS_Subset
<1> DEFINE F(s) == CHOOSE h : Sums(h, w, s)
           g == [s \in SUBSET t |-> IF s = {} THEN 0
                                    ELSE w[First(s)] + F(s \ {First(s)})[s \ {First(s)}]]
<1>3. \A s \in SUBSET t : s # t => Sums(F(s), w, s)
    BY <1>1
<1>4. \A s \in SUBSET t : s # t => g[s] = F(s)[s]
    <2> SUFFICES ASSUME NEW s \in SUBSET t, s # t PROVE g[s] = F(s)[s]
        OBVIOUS
    <2>1. Sums(F(s), w, s)
        BY <1>3
    <2>2. CASE s = {}
        <3>1. g[s] = 0
            BY <2>2
        <3> HIDE DEF F, g
        <3>2. F(s)[s] = 0
            BY <2>1, <2>2, SumsStep
        <3> QED  BY <3>1, <3>2
    <2>3. CASE s # {}
        <3>1. First(s) \in s
            BY <2>3 DEF First
        <3> HIDE DEF F, g
        <3>2. F(s)[s] = w[First(s)] + F(s)[s \ {First(s)}]
            BY <2>1, <2>3, SumsStep
        <3>3. Sums(F(s \ {First(s)}), w, s \ {First(s)})
            BY <1>3, <3>1
        <3>4. F(s)[s \ {First(s)}] = F(s \ {First(s)})[s \ {First(s)}]
            BY <1>2, <2>1, <3>3, SumsUnique
        <3>5. g[s] = w[First(s)] + F(s \ {First(s)})[s \ {First(s)}]
            BY <2>3 DEF g
        <3> QED  BY <3>2, <3>4, <3>5
    <2> QED  BY <2>2, <2>3
<1>5. \A s \in SUBSET t : s # {} => g[s \ {First(s)}] = F(s \ {First(s)})[s \ {First(s)}]
    <2> SUFFICES ASSUME NEW s \in SUBSET t, s # {}
                 PROVE  g[s \ {First(s)}] = F(s \ {First(s)})[s \ {First(s)}]
        OBVIOUS
    <2>1. First(s) \in s
        BY DEF First
    <2> HIDE DEF g, F
    <2>2. s \ {First(s)} \in SUBSET t /\ s \ {First(s)} # t
        BY <2>1
    <2> QED  BY <1>4, <2>2
<1>6. g = [s \in SUBSET t |-> IF s = {} THEN 0
                              ELSE w[First(s)] + g[s \ {First(s)}]]
    <2> HIDE DEF F
    <2> DEFINE k == [s \in SUBSET t |-> IF s = {} THEN 0 ELSE w[First(s)] + g[s \ {First(s)}]]
    <2>1. \A s \in SUBSET t : g[s] = k[s]
        <3> SUFFICES ASSUME NEW s \in SUBSET t PROVE g[s] = k[s]
            OBVIOUS
        <3>1. s # {} => g[s \ {First(s)}] = F(s \ {First(s)})[s \ {First(s)}]
            BY <1>5
        <3>2. k[s] = IF s = {} THEN 0 ELSE w[First(s)] + g[s \ {First(s)}]
            <4> HIDE DEF g
            <4> QED  OBVIOUS
        <3>3. g[s] = IF s = {} THEN 0 ELSE w[First(s)] + F(s \ {First(s)})[s \ {First(s)}]
            OBVIOUS
        <3> HIDE DEF g, k
        <3> QED  BY <3>1, <3>2, <3>3
    <2>2. DOMAIN g = SUBSET t /\ DOMAIN k = SUBSET t
        OBVIOUS
    <2>3. g = [s \in DOMAIN g |-> g[s]] /\ k = [s \in DOMAIN k |-> k[s]]
        OBVIOUS
    <2> QED  BY <2>1, <2>2, <2>3
<1>7. Sums(g, w, t)
    <2> HIDE DEF g, F
    <2> QED  BY <1>6 DEF Sums
<1> QED  BY <1>1, <1>7

\* The sum of w over a finite set S.
LEMMA SumExists ==
    ASSUME NEW w, NEW S, IsFiniteSet(S)
    PROVE  \E h : Sums(h, w, S) /\ SumOf(w, S) = h[S]
BY SumsExist DEF SumOf

LEMMA SumEmpty == ASSUME NEW w PROVE SumOf(w, {}) = 0
<1>1. PICK h : Sums(h, w, {}) /\ SumOf(w, {}) = h[{}]
    BY SumExists, FS_EmptySet
<1> QED  BY <1>1, SumsStep

LEMMA SumSame ==
    ASSUME NEW w, NEW v, NEW S, IsFiniteSet(S), \A x \in S : w[x] = v[x]
    PROVE  SumOf(w, S) = SumOf(v, S)
<1>1. PICK g : Sums(g, w, S) /\ SumOf(w, S) = g[S]
    BY SumExists
<1>2. PICK h : Sums(h, v, S) /\ SumOf(v, S) = h[S]
    BY SumExists
<1> QED  BY <1>1, <1>2, SumsUnique

LEMMA SumFirst ==
    ASSUME NEW w, NEW S, IsFiniteSet(S), S # {}
    PROVE  First(S) \in S /\ SumOf(w, S) = w[First(S)] + SumOf(w, S \ {First(S)})
<1> DEFINE T == S \ {First(S)}
<1>1. PICK h : Sums(h, w, S) /\ SumOf(w, S) = h[S]
    BY SumExists
<1>2. IsFiniteSet(T)
    BY FS_Subset
<1>3. PICK g : Sums(g, w, T) /\ SumOf(w, T) = g[T]
    BY <1>2, SumExists
<1>4. First(S) \in S /\ h[S] = w[First(S)] + h[T]
    BY <1>1, SumsStep
<1>5. h[T] = g[T]
    <2>1. T \subseteq S
        OBVIOUS
    <2> HIDE DEF T
    <2> QED  BY <1>1, <1>2, <1>3, <2>1, SumsUnique
<1> QED  BY <1>1, <1>3, <1>4, <1>5

LEMMA SumNat ==
    ASSUME NEW w, NEW S, IsFiniteSet(S), \A x \in S : w[x] \in Nat
    PROVE  SumOf(w, S) \in Nat
<1> DEFINE U == {t \in SUBSET S : SumOf(w, t) \notin Nat}
<1> SUFFICES ASSUME U # {} PROVE FALSE
    OBVIOUS
<1>1. PICK t \in U : \A u \in U : u \subseteq t => u = t
    <2>1. U \in SUBSET SUBSET S
        OBVIOUS
    <2> HIDE DEF U
    <2> QED  BY <2>1, SmallestSubset
<1>2. t \subseteq S /\ IsFiniteSet(t) /\ t # {}
    <2>1. t \subseteq S /\ SumOf(w, t) \notin Nat
        OBVIOUS
    <2> HIDE DEF U
    <2>2. t # {}
        BY <2>1, SumEmpty
    <2> QED  BY <2>1, <2>2, FS_Subset
<1>3. First(t) \in t /\ SumOf(w, t) = w[First(t)] + SumOf(w, t \ {First(t)})
    BY <1>2, SumFirst
<1>4. SumOf(w, t \ {First(t)}) \in Nat
    BY <1>1, <1>3
<1> QED  BY <1>2, <1>3, <1>4

LEMMA SumZero ==
    ASSUME NEW w, NEW S, IsFiniteSet(S), \A x \in S : w[x] = 0
    PROVE  SumOf(w, S) = 0
<1> DEFINE U == {t \in SUBSET S : SumOf(w, t) # 0}
<1> SUFFICES ASSUME U # {} PROVE FALSE
    OBVIOUS
<1>1. PICK t \in U : \A u \in U : u \subseteq t => u = t
    <2>1. U \in SUBSET SUBSET S
        OBVIOUS
    <2> HIDE DEF U
    <2> QED  BY <2>1, SmallestSubset
<1>2. t \subseteq S /\ IsFiniteSet(t) /\ t # {}
    <2>1. t \subseteq S /\ SumOf(w, t) # 0
        OBVIOUS
    <2> HIDE DEF U
    <2>2. t # {}
        BY <2>1, SumEmpty
    <2> QED  BY <2>1, <2>2, FS_Subset
<1>3. First(t) \in t /\ SumOf(w, t) = w[First(t)] + SumOf(w, t \ {First(t)})
    BY <1>2, SumFirst
<1>4. SumOf(w, t \ {First(t)}) = 0
    BY <1>1, <1>3
<1> QED  BY <1>2, <1>3, <1>4

\* Any element may be taken out of the sum first.
LEMMA SumRemove ==
    ASSUME NEW w, NEW S, IsFiniteSet(S), \A x \in S : w[x] \in Nat, NEW y \in S
    PROVE  SumOf(w, S) = w[y] + SumOf(w, S \ {y})
<1> DEFINE U == {t \in SUBSET S : \E z \in t : SumOf(w, t) # w[z] + SumOf(w, t \ {z})}
<1> SUFFICES ASSUME U # {} PROVE FALSE
    OBVIOUS
<1>1. PICK t \in U : \A u \in U : u \subseteq t => u = t
    <2>1. U \in SUBSET SUBSET S
        OBVIOUS
    <2> HIDE DEF U
    <2> QED  BY <2>1, SmallestSubset
<1>2. PICK z \in t : SumOf(w, t) # w[z] + SumOf(w, t \ {z})
    BY <1>1
<1> DEFINE x == First(t)
<1>3. t \subseteq S /\ IsFiniteSet(t)
    BY FS_Subset
<1>4. x \in t /\ SumOf(w, t) = w[x] + SumOf(w, t \ {x})
    BY <1>2, <1>3, SumFirst
<1> HIDE DEF x
<1>5. x # z
    BY <1>2, <1>4
<1>6. SumOf(w, t \ {x}) = w[z] + SumOf(w, (t \ {x}) \ {z})
    BY <1>1, <1>2, <1>4, <1>5
<1>7. SumOf(w, t \ {z}) = w[x] + SumOf(w, (t \ {z}) \ {x})
    BY <1>1, <1>2, <1>4, <1>5
<1>8. (t \ {x}) \ {z} = (t \ {z}) \ {x}
    OBVIOUS
<1>9. SumOf(w, (t \ {x}) \ {z}) \in Nat
    BY <1>3, FS_Subset, SumNat
<1>10. w[x] \in Nat /\ w[z] \in Nat
    BY <1>3, <1>4
<1> QED  BY <1>2, <1>4, <1>6, <1>7, <1>8, <1>9, <1>10

LEMMA SumAdd ==
    ASSUME NEW w, NEW S, IsFiniteSet(S), NEW y, y \notin S, \A x \in S \cup {y} : w[x] \in Nat
    PROVE  SumOf(w, S \cup {y}) = w[y] + SumOf(w, S)
<1>1. IsFiniteSet(S \cup {y})
    BY FS_AddElement
<1>2. (S \cup {y}) \ {y} = S
    OBVIOUS
<1>3. \A T : T = S \cup {y} => SumOf(w, T) = w[y] + SumOf(w, T \ {y})
    BY <1>1, SumRemove
<1> QED  BY <1>2, <1>3
\* The sum over a union of two disjoint sets.
LEMMA SumDisjoint ==
    ASSUME NEW w, NEW S, NEW T, IsFiniteSet(S), IsFiniteSet(T), S \cap T = {},
           \A x \in S \cup T : w[x] \in Nat
    PROVE  SumOf(w, S \cup T) = SumOf(w, S) + SumOf(w, T)
<1> DEFINE U == {t \in SUBSET S : SumOf(w, t \cup T) # SumOf(w, t) + SumOf(w, T)}
<1> SUFFICES ASSUME U # {} PROVE FALSE
    OBVIOUS
<1>1. PICK t \in U : \A u \in U : u \subseteq t => u = t
    <2>1. U \in SUBSET SUBSET S
        OBVIOUS
    <2> HIDE DEF U
    <2> QED  BY <2>1, SmallestSubset
<1>2. t \subseteq S /\ SumOf(w, t \cup T) # SumOf(w, t) + SumOf(w, T)
    BY <1>1
<1>3. IsFiniteSet(t) /\ SumOf(w, T) \in Nat
    BY <1>2, FS_Subset, SumNat
<1>4. t # {}
    <2> SUFFICES ASSUME t = {} PROVE FALSE
        OBVIOUS
    <2>1. t \cup T = T /\ SumOf(w, t) = 0
        BY SumEmpty
    <2> HIDE DEF U
    <2> QED  BY <1>2, <1>3, <2>1
<1>5. PICK x \in t : TRUE
    BY <1>4
<1> DEFINE r == t \ {x}
<1>6. r \notin U /\ r \subseteq S /\ r # t
    BY <1>1, <1>2, <1>5
<1>7. SumOf(w, r \cup T) = SumOf(w, r) + SumOf(w, T)
    BY <1>6
<1> HIDE DEF U
<1>8. SumOf(w, t) = w[x] + SumOf(w, r)
    BY <1>2, <1>3, SumRemove
<1>9. SumOf(w, t \cup T) = w[x] + SumOf(w, r \cup T)
    <2>1. IsFiniteSet(t \cup T) /\ x \in t \cup T /\ (t \cup T) \ {x} = r \cup T
        BY <1>2, <1>3, FS_Union
    <2>2. \A y \in t \cup T : w[y] \in Nat
        BY <1>2
    <2> HIDE DEF r
    <2>3. SumOf(w, t \cup T) = w[x] + SumOf(w, (t \cup T) \ {x})
        BY <2>1, <2>2, SumRemove
    <2> QED  BY <2>1, <2>3
<1>10. w[x] \in Nat /\ SumOf(w, r) \in Nat
    <2>1. IsFiniteSet(r) /\ (\A y \in r : w[y] \in Nat) /\ w[x] \in Nat
        BY <1>2, <1>3, FS_Subset
    <2> HIDE DEF r
    <2> QED  BY <2>1, SumNat
<1> HIDE DEF r
<1> QED  BY <1>2, <1>3, <1>7, <1>8, <1>9, <1>10

\* A part of a sum is no more than the sum.
LEMMA SumPart ==
    ASSUME NEW w, NEW S, NEW T \in SUBSET S, IsFiniteSet(S), \A x \in S : w[x] \in Nat
    PROVE  SumOf(w, T) \in Nat /\ SumOf(w, S) \in Nat /\ SumOf(w, T) <= SumOf(w, S)
<1> DEFINE R == S \ T
<1>1. T \cup R = S /\ T \cap R = {} /\ IsFiniteSet(T) /\ IsFiniteSet(R)
    BY FS_Subset
<1>2. \A x \in T \cup R : w[x] \in Nat
    OBVIOUS
<1> HIDE DEF R
<1>3. SumOf(w, T \cup R) = SumOf(w, T) + SumOf(w, R)
    BY <1>1, <1>2, SumDisjoint
<1>4. SumOf(w, T) \in Nat /\ SumOf(w, R) \in Nat
    BY <1>1, <1>2, SumNat
<1>5. SumOf(w, S) = SumOf(w, T \cup R)
    BY <1>1, Zenon
<1> QED  BY <1>3, <1>4, <1>5

\* The sum of the sums of two weights.
LEMMA SumPlus ==
    ASSUME NEW u, NEW v, NEW w, NEW S, IsFiniteSet(S),
           \A x \in S : u[x] \in Nat /\ v[x] \in Nat /\ w[x] = u[x] + v[x]
    PROVE  SumOf(w, S) = SumOf(u, S) + SumOf(v, S)
<1> DEFINE U == {t \in SUBSET S : SumOf(w, t) # SumOf(u, t) + SumOf(v, t)}
<1> SUFFICES ASSUME U # {} PROVE FALSE
    OBVIOUS
<1>1. PICK t \in U : \A z \in U : z \subseteq t => z = t
    <2>1. U \in SUBSET SUBSET S
        OBVIOUS
    <2> HIDE DEF U
    <2> QED  BY <2>1, SmallestSubset
<1>2. t \subseteq S /\ SumOf(w, t) # SumOf(u, t) + SumOf(v, t) /\ IsFiniteSet(t)
    BY <1>1, FS_Subset
<1>3. t # {}
    <2> SUFFICES ASSUME t = {} PROVE FALSE
        OBVIOUS
    <2>1. SumOf(w, t) = 0 /\ SumOf(u, t) = 0 /\ SumOf(v, t) = 0
        BY SumEmpty
    <2> HIDE DEF U
    <2> QED  BY <1>2, <2>1
<1>4. PICK x \in t : TRUE
    BY <1>3
<1> DEFINE r == t \ {x}
<1>5. r \notin U /\ r \subseteq S
    BY <1>1, <1>2, <1>4
<1>6. SumOf(w, r) = SumOf(u, r) + SumOf(v, r)
    BY <1>5
<1> HIDE DEF U
<1>7. \A y \in t : u[y] \in Nat /\ v[y] \in Nat /\ w[y] = u[y] + v[y] /\ w[y] \in Nat
    BY <1>2
<1>8. SumOf(w, t) = w[x] + SumOf(w, r)
    BY <1>2, <1>7, SumRemove
<1>9. SumOf(u, t) = u[x] + SumOf(u, r)
    BY <1>2, <1>7, SumRemove
<1>10. SumOf(v, t) = v[x] + SumOf(v, r)
    BY <1>2, <1>7, SumRemove
<1>11. SumOf(u, r) \in Nat /\ SumOf(v, r) \in Nat
    <2>1. IsFiniteSet(r) /\ \A y \in r : u[y] \in Nat /\ v[y] \in Nat
        BY <1>2, <1>7, FS_Subset
    <2> HIDE DEF r
    <2> QED  BY <2>1, SumNat
<1> HIDE DEF r
<1> QED  BY <1>2, <1>6, <1>7, <1>8, <1>9, <1>10, <1>11

\* The sum over a set that is cut into parts is the sum of what each part adds up to.
LEMMA SumUnion ==
    ASSUME NEW w, NEW v, NEW S, NEW P, NEW f \in [S -> SUBSET P], IsFiniteSet(S),
           \A z \in P : \E x \in S : z \in f[x],
           \A x \in S : IsFiniteSet(f[x]) /\ v[x] = SumOf(w, f[x]),
           \A x \in S : \A z \in f[x] : w[z] \in Nat,
           \A x \in S, y \in S : x # y => f[x] \cap f[y] = {}
    PROVE  IsFiniteSet(P) /\ SumOf(w, P) = SumOf(v, S)
<1> DEFINE All(t) == UNION {f[x] : x \in t}
           U == {t \in SUBSET S : ~(IsFiniteSet(All(t)) /\ SumOf(w, All(t)) = SumOf(v, t))}
<1> SUFFICES ASSUME U # {} PROVE FALSE
    <2>1. S \notin U => IsFiniteSet(All(S)) /\ SumOf(w, All(S)) = SumOf(v, S)
        OBVIOUS
    <2>2. P = All(S)
        OBVIOUS
    <2> HIDE DEF U, All
    <2> QED  BY <2>1, <2>2
<1>1. PICK t \in U : \A z \in U : z \subseteq t => z = t
    <2>1. U \in SUBSET SUBSET S
        OBVIOUS
    <2> HIDE DEF U
    <2> QED  BY <2>1, SmallestSubset
<1>2. t \subseteq S /\ ~(IsFiniteSet(All(t)) /\ SumOf(w, All(t)) = SumOf(v, t)) /\ IsFiniteSet(t)
    BY <1>1, FS_Subset
<1>3. t # {}
    <2> SUFFICES ASSUME t = {} PROVE FALSE
        OBVIOUS
    <2>1. All(t) = {}
        OBVIOUS
    <2> HIDE DEF U, All
    <2>2. SumOf(w, All(t)) = 0 /\ SumOf(v, t) = 0 /\ IsFiniteSet(All(t))
        BY <2>1, SumEmpty, FS_EmptySet
    <2> QED  BY <1>2, <2>2
<1>4. PICK x \in t : TRUE
    BY <1>3
<1> DEFINE r == t \ {x}
<1>5. r \notin U /\ r \subseteq S
    <2>1. r \subseteq t /\ r # t /\ r \subseteq S
        BY <1>2, <1>4
    <2> HIDE DEF U, r
    <2> QED  BY <1>1, <2>1
<1>6. IsFiniteSet(All(r)) /\ SumOf(w, All(r)) = SumOf(v, r)
    BY <1>5
<1> HIDE DEF U
<1>7. All(t) = f[x] \cup All(r) /\ f[x] \cap All(r) = {}
    <2>1. t = {x} \cup r /\ \A y \in r : y \in S /\ y # x
        BY <1>2
    <2>2. x \in S
        BY <1>2
    <2> HIDE DEF r
    <2> QED  BY <2>1, <2>2
<1>8. \A z \in f[x] \cup All(r) : w[z] \in Nat
    BY <1>2, <1>5
<1>9. IsFiniteSet(f[x]) /\ v[x] = SumOf(w, f[x])
    BY <1>2
<1>10. \A y \in t : v[y] \in Nat
    <2> SUFFICES ASSUME NEW y \in t PROVE v[y] \in Nat
        OBVIOUS
    <2>1. y \in S
        BY <1>2
    <2>2. IsFiniteSet(f[y]) /\ v[y] = SumOf(w, f[y]) /\ \A z \in f[y] : w[z] \in Nat
        BY <2>1
    <2> QED  BY <2>2, SumNat
<1>11. SumOf(v, t) = v[x] + SumOf(v, r)
    BY <1>2, <1>10, SumRemove
<1> HIDE DEF r, All
<1>12. SumOf(w, f[x] \cup All(r)) = SumOf(w, f[x]) + SumOf(w, All(r))
    BY <1>6, <1>7, <1>8, <1>9, SumDisjoint
<1>13. IsFiniteSet(f[x] \cup All(r))
    BY <1>6, <1>9, FS_Union
<1> QED  BY <1>2, <1>6, <1>7, <1>9, <1>11, <1>12, <1>13

--------------------------------------------------------------------------------
(* Numbers *)

\* A set of numbers up to n has a smallest one.
LEMMA SmallestNumber ==
    ASSUME NEW n \in Nat, NEW U \in SUBSET (0..n), U # {}
    PROVE  \E m \in U : m \in Nat /\ \A k \in U : m <= k
<1> DEFINE V == {0..m : m \in U}
           S == 0..n
<1>1. PICK t \in V : \A v \in V : v \subseteq t => v = t
    <2>1. \A m \in U : 0..m \subseteq S
        OBVIOUS
    <2>2. V \in SUBSET SUBSET S /\ V # {}
        <3> HIDE DEF S
        <3> QED  BY <2>1
    <2>3. IsFiniteSet(S)
        BY FS_Interval
    <2> HIDE DEF V, S
    <2> QED  BY <2>2, <2>3, SmallestSubset
<1>2. PICK m \in U : t = 0..m
    OBVIOUS
<1>3. \A k \in U : k < m => FALSE
    <2> SUFFICES ASSUME NEW k \in U, k < m PROVE FALSE
        OBVIOUS
    <2>1. m \in Nat /\ k \in Nat
        OBVIOUS
    <2>2. 0..k \subseteq 0..m /\ m \in 0..m /\ m \notin 0..k
        BY <2>1
    <2> QED  BY <1>1, <1>2, <2>2
<1> QED  BY <1>3

================================================================================
