----------------------------- MODULE SumTheorems -----------------------------
(***************************************************************************)
(* Sums over finite sets, as SumFunctionOnSet computes them: what they add *)
(* up to does not depend on the order, and how they change with the set    *)
(* and with the function.  The amounts that the store adds up in SQL are   *)
(* such sums.                                                              *)
(***************************************************************************)
EXTENDS Integers, FiniteSets, Functions, FiniteSetTheorems, TLAPS

(* The element that a fold takes out first, and a table of partial sums.   *)
Pick(s) == CHOOSE x \in s : TRUE

IsTable(f, S, g) ==
    g = [s \in SUBSET S |-> IF s = {} THEN 0 ELSE f[Pick(s)] + g[s \ {Pick(s)}]]

Table(f, S) == CHOOSE g : IsTable(f, S, g)

-----------------------------------------------------------------------------
(* A collection of subsets of a finite set has a minimal member: the       *)
(* induction principle of this module.                                     *)
LEMMA MinimalMember ==
    ASSUME NEW S, IsFiniteSet(S), NEW B, B \subseteq SUBSET S, B # {}
    PROVE  \E m \in B : \A t \in B : t \subseteq m => t = m
<1>1. IsWellFoundedOn(StrictSubsetOrdering(S), SUBSET S)
  BY FS_StrictSubsetOrderingWellFounded, FS_FiniteSubsetsOfFinite
<1>2. PICK m \in B : \A t \in B : ~(<<t, m>> \in StrictSubsetOrdering(S))
  BY <1>1, WFMin
<1>3. ASSUME NEW t \in B, t \subseteq m, t # m
      PROVE  FALSE
  <2>1. <<t, m>> \in (SUBSET S) \X (SUBSET S)
    OBVIOUS
  <2> QED BY <1>2, <1>3, <2>1 DEF StrictSubsetOrdering
<1> QED BY <1>3

LEMMA PickIn ==
    ASSUME NEW s, s # {}
    PROVE  Pick(s) \in s
BY DEF Pick

(* Two tables agree wherever both are defined.                             *)
LEMMA TablesAgree ==
    ASSUME NEW f, NEW S, NEW T, IsFiniteSet(S), T \subseteq S,
           NEW g, NEW h, IsTable(f, S, g), IsTable(f, T, h)
    PROVE  \A s \in SUBSET T : g[s] = h[s]
<1> DEFINE B == {s \in SUBSET T : g[s] # h[s]}
<1> SUFFICES ASSUME B # {} PROVE FALSE
  OBVIOUS
<1>1. PICK m \in B : \A t \in B : t \subseteq m => t = m
  <2>1. B \subseteq SUBSET S
    OBVIOUS
  <2> HIDE DEF B
  <2> QED BY <2>1, MinimalMember
<1>2. m \in SUBSET S /\ m \in SUBSET T
  OBVIOUS
<1>3. g[m] = IF m = {} THEN 0 ELSE f[Pick(m)] + g[m \ {Pick(m)}]
  BY <1>2 DEF IsTable
<1>4. h[m] = IF m = {} THEN 0 ELSE f[Pick(m)] + h[m \ {Pick(m)}]
  BY <1>2 DEF IsTable
<1>5. m # {}
  BY <1>3, <1>4
<1>6. m \ {Pick(m)} \notin B
  BY <1>1, <1>5, PickIn
<1>7. g[m \ {Pick(m)}] = h[m \ {Pick(m)}]
  BY <1>2, <1>6
<1> QED BY <1>3, <1>4, <1>5, <1>7

(* A finite set has a table.                                               *)
LEMMA TableExists ==
    ASSUME NEW f, NEW S, IsFiniteSet(S)
    PROVE  IsTable(f, S, Table(f, S))
<1> DEFINE B == {s \in SUBSET S : ~ \E g : IsTable(f, s, g)}
<1> SUFFICES ASSUME B # {} PROVE FALSE
  <2>1. (\E g : IsTable(f, S, g)) => IsTable(f, S, Table(f, S))
    BY DEF Table
  <2> QED BY <2>1
<1>1. PICK m \in B : \A t \in B : t \subseteq m => t = m
  <2>1. B \subseteq SUBSET S
    OBVIOUS
  <2> HIDE DEF B
  <2> QED BY <2>1, MinimalMember
<1>2. m \subseteq S /\ IsFiniteSet(m)
  BY FS_Subset
<1>3. ASSUME NEW t, t \subseteq m, t # m
      PROVE  IsTable(f, t, Table(f, t))
  <2>1. \E g : IsTable(f, t, g)
    BY <1>1, <1>2, <1>3
  <2> QED BY <2>1 DEF Table
<1> DEFINE rest(s) == s \ {Pick(s)}
           G == [s \in SUBSET m |->
                   IF s = {} THEN 0 ELSE f[Pick(s)] + Table(f, rest(s))[rest(s)]]
<1>4. ASSUME NEW t, t \subseteq m, t # m
      PROVE  G[t] = Table(f, t)[t]
  <2>1. Table(f, t)[t] = IF t = {} THEN 0 ELSE f[Pick(t)] + Table(f, t)[rest(t)]
    BY <1>3, <1>4 DEF IsTable
  <2>2. G[t] = IF t = {} THEN 0 ELSE f[Pick(t)] + Table(f, rest(t))[rest(t)]
    BY <1>4
  <2>3. CASE t = {}
    BY <2>1, <2>2, <2>3
  <2>4. CASE t # {}
    <3>1. rest(t) \subseteq t /\ rest(t) # m /\ rest(t) \subseteq m
      BY <1>4, <2>4, PickIn
    <3>2. IsTable(f, t, Table(f, t)) /\ IsTable(f, rest(t), Table(f, rest(t)))
      BY <1>3, <1>4, <3>1
    <3>3. IsFiniteSet(t)
      BY <1>2, <1>4, FS_Subset
    <3>4. Table(f, t)[rest(t)] = Table(f, rest(t))[rest(t)]
      <4> HIDE DEF rest
      <4> QED BY <3>1, <3>2, <3>3, TablesAgree
    <3> QED BY <2>1, <2>2, <2>4, <3>4
  <2> QED BY <2>3, <2>4
<1>5. IsTable(f, m, G)
  <2>1. ASSUME NEW s \in SUBSET m
        PROVE  G[s] = IF s = {} THEN 0 ELSE f[Pick(s)] + G[rest(s)]
    <3>1. CASE s = {}
      BY <3>1
    <3>2. CASE s # {}
      <4>1. rest(s) \subseteq m /\ rest(s) # m
        BY <3>2, PickIn
      <4>2. G[rest(s)] = Table(f, rest(s))[rest(s)]
        <5> HIDE DEF G, rest
        <5> QED BY <1>4, <4>1
      <4> QED BY <3>2, <4>2
    <3> QED BY <3>1, <3>2
  <2>2. G = [s \in SUBSET m |-> G[s]]
    OBVIOUS
  <2>3. G = [s \in SUBSET m |-> IF s = {} THEN 0 ELSE f[Pick(s)] + G[rest(s)]]
    <3> HIDE DEF G, rest
    <3> QED BY <2>1, <2>2
  <2> QED BY <2>3 DEF IsTable
<1> QED BY <1>1, <1>5

LEMMA SumIsEntry ==
    ASSUME NEW f, NEW S
    PROVE  SumFunctionOnSet(f, S) = Table(f, S)[S]
BY DEF SumFunctionOnSet, FoldFunctionOnSet, MapThenFoldSet, Table, IsTable, Pick

(* The sum takes out one element and adds up the rest.                     *)
LEMMA SumUnfold ==
    ASSUME NEW f, NEW S, IsFiniteSet(S)
    PROVE  SumFunctionOnSet(f, S) =
             IF S = {} THEN 0
             ELSE f[Pick(S)] + SumFunctionOnSet(f, S \ {Pick(S)})
<1> DEFINE R == S \ {Pick(S)}
<1>1. IsTable(f, S, Table(f, S)) /\ IsTable(f, R, Table(f, R))
  BY TableExists, FS_RemoveElement
<1>2. Table(f, S)[S] = IF S = {} THEN 0 ELSE f[Pick(S)] + Table(f, S)[R]
  BY <1>1 DEF IsTable
<1>3. Table(f, S)[R] = Table(f, R)[R]
  <2>1. R \subseteq S
    OBVIOUS
  <2> HIDE DEF R
  <2> QED BY <1>1, <2>1, TablesAgree
<1> QED BY <1>2, <1>3, SumIsEntry

-----------------------------------------------------------------------------
(* A sum of integers is an integer.                                        *)
LEMMA SumType ==
    ASSUME NEW f, NEW S, IsFiniteSet(S), \A x \in S : f[x] \in Int
    PROVE  SumFunctionOnSet(f, S) \in Int
<1> DEFINE B == {s \in SUBSET S : SumFunctionOnSet(f, s) \notin Int}
<1> SUFFICES ASSUME B # {} PROVE FALSE
  OBVIOUS
<1>1. PICK m \in B : \A t \in B : t \subseteq m => t = m
  <2>1. B \subseteq SUBSET S
    OBVIOUS
  <2> HIDE DEF B
  <2> QED BY <2>1, MinimalMember
<1>2. IsFiniteSet(m)
  BY FS_Subset
<1>3. SumFunctionOnSet(f, m) = IF m = {} THEN 0
                               ELSE f[Pick(m)] + SumFunctionOnSet(f, m \ {Pick(m)})
  BY <1>2, SumUnfold
<1>4. m # {} => Pick(m) \in m
  BY PickIn
<1>5. m # {} => m \ {Pick(m)} \notin B
  BY <1>1, <1>4
<1> QED BY <1>3, <1>4, <1>5

(* Any element may be taken out first.                                     *)
LEMMA SumRemove ==
    ASSUME NEW f, NEW S, IsFiniteSet(S), \A x \in S : f[x] \in Int, NEW a \in S
    PROVE  SumFunctionOnSet(f, S) = f[a] + SumFunctionOnSet(f, S \ {a})
<1> DEFINE Sum(s) == SumFunctionOnSet(f, s)
           B == {s \in SUBSET S : \E x \in s : Sum(s) # f[x] + Sum(s \ {x})}
<1> SUFFICES ASSUME B # {} PROVE FALSE
  OBVIOUS
<1>1. PICK m \in B : \A t \in B : t \subseteq m => t = m
  <2>1. B \subseteq SUBSET S
    OBVIOUS
  <2> HIDE DEF B
  <2> QED BY <2>1, MinimalMember
<1>2. PICK x \in m : Sum(m) # f[x] + Sum(m \ {x})
  OBVIOUS
<1> DEFINE y == Pick(m)
<1>3. y \in m
  BY <1>2, PickIn
<1>4. IsFiniteSet(m) /\ IsFiniteSet(m \ {y}) /\ IsFiniteSet(m \ {x}) /\ IsFiniteSet((m \ {x}) \ {y})
  BY FS_Subset
<1>5. Sum(m) = f[y] + Sum(m \ {y})
  BY <1>2, <1>4, SumUnfold
<1>6. x # y
  BY <1>2, <1>5
<1>7. m \ {y} \notin B /\ m \ {x} \notin B
  BY <1>1, <1>3
<1>8. Sum(m \ {y}) = f[x] + Sum((m \ {y}) \ {x})
  BY <1>6, <1>7
<1>9. Sum(m \ {x}) = f[y] + Sum((m \ {x}) \ {y})
  BY <1>3, <1>6, <1>7
<1>10. Sum((m \ {y}) \ {x}) = Sum((m \ {x}) \ {y})
  <2>1. (m \ {y}) \ {x} = (m \ {x}) \ {y}
    OBVIOUS
  <2> QED BY <2>1
<1>11. Sum((m \ {x}) \ {y}) \in Int /\ f[x] \in Int /\ f[y] \in Int
  <2>1. \A z \in (m \ {x}) \ {y} : f[z] \in Int
    OBVIOUS
  <2> QED BY <1>3, <1>4, <2>1, SumType
<1> HIDE DEF Sum, y, B
<1> QED BY <1>2, <1>5, <1>8, <1>9, <1>10, <1>11

(* The empty sum, a sum with one more element, and a sum of one.           *)
LEMMA SumEmpty ==
    ASSUME NEW f
    PROVE  SumFunctionOnSet(f, {}) = 0
BY SumUnfold, FS_EmptySet

LEMMA SumAdd ==
    ASSUME NEW f, NEW S, IsFiniteSet(S), NEW a, a \notin S, \A x \in S \cup {a} : f[x] \in Int
    PROVE  SumFunctionOnSet(f, S \cup {a}) = f[a] + SumFunctionOnSet(f, S)
<1>1. IsFiniteSet(S \cup {a}) /\ a \in S \cup {a}
  BY FS_AddElement
<1>2. SumFunctionOnSet(f, S \cup {a}) = f[a] + SumFunctionOnSet(f, (S \cup {a}) \ {a})
  BY <1>1, SumRemove
<1>3. (S \cup {a}) \ {a} = S
  OBVIOUS
<1> QED BY <1>2, <1>3

(* A sum depends only on the values at the elements of the set.            *)
LEMMA SumSame ==
    ASSUME NEW f, NEW g, NEW S, IsFiniteSet(S), \A x \in S : f[x] = g[x]
    PROVE  SumFunctionOnSet(f, S) = SumFunctionOnSet(g, S)
<1> DEFINE B == {s \in SUBSET S : SumFunctionOnSet(f, s) # SumFunctionOnSet(g, s)}
<1> SUFFICES ASSUME B # {} PROVE FALSE
  OBVIOUS
<1>1. PICK m \in B : \A t \in B : t \subseteq m => t = m
  <2>1. B \subseteq SUBSET S
    OBVIOUS
  <2> HIDE DEF B
  <2> QED BY <2>1, MinimalMember
<1>2. IsFiniteSet(m)
  BY FS_Subset
<1>3. /\ SumFunctionOnSet(f, m) = IF m = {} THEN 0
                                  ELSE f[Pick(m)] + SumFunctionOnSet(f, m \ {Pick(m)})
      /\ SumFunctionOnSet(g, m) = IF m = {} THEN 0
                                  ELSE g[Pick(m)] + SumFunctionOnSet(g, m \ {Pick(m)})
  BY <1>2, SumUnfold
<1>4. m # {} => Pick(m) \in m
  BY PickIn
<1>5. m # {} => m \ {Pick(m)} \notin B
  BY <1>1, <1>4
<1> QED BY <1>3, <1>4, <1>5

(* Sums of natural numbers are natural numbers, and grow with the set.     *)
LEMMA SumNat ==
    ASSUME NEW f, NEW S, IsFiniteSet(S), \A x \in S : f[x] \in Nat
    PROVE  SumFunctionOnSet(f, S) \in Nat
<1> DEFINE B == {s \in SUBSET S : SumFunctionOnSet(f, s) \notin Nat}
<1> SUFFICES ASSUME B # {} PROVE FALSE
  OBVIOUS
<1>1. PICK m \in B : \A t \in B : t \subseteq m => t = m
  <2>1. B \subseteq SUBSET S
    OBVIOUS
  <2> HIDE DEF B
  <2> QED BY <2>1, MinimalMember
<1>2. IsFiniteSet(m)
  BY FS_Subset
<1>3. SumFunctionOnSet(f, m) = IF m = {} THEN 0
                               ELSE f[Pick(m)] + SumFunctionOnSet(f, m \ {Pick(m)})
  BY <1>2, SumUnfold
<1>4. m # {} => Pick(m) \in m
  BY PickIn
<1>5. m # {} => m \ {Pick(m)} \notin B
  BY <1>1, <1>4
<1> QED BY <1>3, <1>4, <1>5

(* The sum over a set that is put together from two parts.                 *)
LEMMA SumUnion ==
    ASSUME NEW f, NEW S, NEW T, IsFiniteSet(S), IsFiniteSet(T), S \cap T = {},
           \A x \in S \cup T : f[x] \in Int
    PROVE  SumFunctionOnSet(f, S \cup T) = SumFunctionOnSet(f, S) + SumFunctionOnSet(f, T)
<1> DEFINE Sum(s) == SumFunctionOnSet(f, s)
           B == {t \in SUBSET T : Sum(S \cup t) # Sum(S) + Sum(t)}
<1> SUFFICES ASSUME B # {} PROVE FALSE
  OBVIOUS
<1>1. PICK m \in B : \A t \in B : t \subseteq m => t = m
  <2>1. B \subseteq SUBSET T
    OBVIOUS
  <2> HIDE DEF B
  <2> QED BY <2>1, MinimalMember
<1>2. IsFiniteSet(m) /\ IsFiniteSet(S \cup m)
  BY FS_Subset, FS_Union
<1>3. Sum(S) \in Int
  BY SumType
<1>4. ASSUME m = {} PROVE FALSE
  <2>1. Sum(S \cup {}) = Sum(S) /\ Sum({}) = 0
    <3>1. S \cup {} = S
      OBVIOUS
    <3> QED BY <3>1, SumEmpty
  <2>2. Sum(S \cup {}) # Sum(S) + Sum({})
    BY <1>4
  <2> HIDE DEF Sum, B
  <2> QED BY <1>3, <2>1, <2>2
<1>5. PICK x \in m : TRUE
  BY <1>4
<1>6. Sum(m) = f[x] + Sum(m \ {x})
  BY <1>2, SumRemove
<1>7. Sum(S \cup m) = f[x] + Sum((S \cup m) \ {x})
  <2>1. x \in S \cup m /\ \A z \in S \cup m : f[z] \in Int
    OBVIOUS
  <2> QED BY <1>2, <2>1, SumRemove
<1>8. Sum((S \cup m) \ {x}) = Sum(S \cup (m \ {x}))
  <2>1. (S \cup m) \ {x} = S \cup (m \ {x})
    OBVIOUS
  <2> QED BY <2>1
<1>9. Sum(S \cup (m \ {x})) = Sum(S) + Sum(m \ {x})
  BY <1>1
<1>10. Sum(m \ {x}) \in Int
  <2>1. IsFiniteSet(m \ {x}) /\ \A z \in m \ {x} : f[z] \in Int
    BY <1>2, FS_RemoveElement
  <2> QED BY <2>1, SumType
<1>11. f[x] \in Int /\ Sum(S \cup m) # Sum(S) + Sum(m)
  OBVIOUS
<1> HIDE DEF Sum, B
<1> QED BY <1>3, <1>6, <1>7, <1>8, <1>9, <1>10, <1>11

LEMMA SumSubset ==
    ASSUME NEW f, NEW S, IsFiniteSet(S), NEW T \in SUBSET S, \A x \in S : f[x] \in Nat
    PROVE  SumFunctionOnSet(f, T) <= SumFunctionOnSet(f, S)
<1>1. IsFiniteSet(T) /\ IsFiniteSet(S \ T) /\ T \cap (S \ T) = {} /\ T \cup (S \ T) = S
  BY FS_Subset, FS_Difference
<1>2. SumFunctionOnSet(f, T) \in Nat /\ SumFunctionOnSet(f, S \ T) \in Nat
  BY <1>1, SumNat
<1>3. SumFunctionOnSet(f, S) = SumFunctionOnSet(f, T) + SumFunctionOnSet(f, S \ T)
  <2>1. \A x \in T \cup (S \ T) : f[x] \in Int
    OBVIOUS
  <2>2. SumFunctionOnSet(f, T \cup (S \ T)) = SumFunctionOnSet(f, T) + SumFunctionOnSet(f, S \ T)
    BY <1>1, <2>1, SumUnion
  <2> QED BY <1>1, <2>2
<1> QED BY <1>2, <1>3

(* A sum grows with its terms.                                             *)
LEMMA SumBelow ==
    ASSUME NEW f, NEW g, NEW S, IsFiniteSet(S),
           \A x \in S : f[x] \in Int /\ g[x] \in Int /\ f[x] <= g[x]
    PROVE  SumFunctionOnSet(f, S) <= SumFunctionOnSet(g, S)
<1> DEFINE B == {s \in SUBSET S : ~(SumFunctionOnSet(f, s) <= SumFunctionOnSet(g, s))}
<1> SUFFICES ASSUME B # {} PROVE FALSE
  OBVIOUS
<1>1. PICK m \in B : \A t \in B : t \subseteq m => t = m
  <2>1. B \subseteq SUBSET S
    OBVIOUS
  <2> HIDE DEF B
  <2> QED BY <2>1, MinimalMember
<1>2. IsFiniteSet(m)
  BY FS_Subset
<1>3. /\ SumFunctionOnSet(f, m) = IF m = {} THEN 0
                                  ELSE f[Pick(m)] + SumFunctionOnSet(f, m \ {Pick(m)})
      /\ SumFunctionOnSet(g, m) = IF m = {} THEN 0
                                  ELSE g[Pick(m)] + SumFunctionOnSet(g, m \ {Pick(m)})
  BY <1>2, SumUnfold
<1>4. m # {} => Pick(m) \in m
  BY PickIn
<1>5. m # {} => m \ {Pick(m)} \notin B
  BY <1>1, <1>4
<1>6. /\ SumFunctionOnSet(f, m \ {Pick(m)}) \in Int
      /\ SumFunctionOnSet(g, m \ {Pick(m)}) \in Int
  <2>1. IsFiniteSet(m \ {Pick(m)})
    BY <1>2, FS_RemoveElement
  <2>2. \A x \in m \ {Pick(m)} : f[x] \in Int /\ g[x] \in Int
    OBVIOUS
  <2> QED BY <2>1, <2>2, SumType
<1>7. CASE m = {}
  BY <1>3, <1>7
<1>8. CASE m # {}
  <2>1. SumFunctionOnSet(f, m \ {Pick(m)}) <= SumFunctionOnSet(g, m \ {Pick(m)})
    BY <1>5, <1>8
  <2>2. f[Pick(m)] \in Int /\ g[Pick(m)] \in Int /\ f[Pick(m)] <= g[Pick(m)]
    BY <1>4, <1>8
  <2>3. ~(SumFunctionOnSet(f, m) <= SumFunctionOnSet(g, m))
    OBVIOUS
  <2> QED BY <1>3, <1>6, <1>8, <2>1, <2>2, <2>3
<1> QED BY <1>7, <1>8

(* When the terms of each group stay within its bound, all of them stay    *)
(* within the bounds together.                                             *)
LEMMA SumGrouped ==
    ASSUME NEW f, NEW c, NEW t, NEW F, NEW S, IsFiniteSet(F), IsFiniteSet(S),
           \A x \in F : f[x] \in Nat, \A r \in S : c[r] \in Nat,
           \A r \in S : SumFunctionOnSet(f, {x \in F : t[x] = r}) <= c[r]
    PROVE  SumFunctionOnSet(f, {x \in F : t[x] \in S}) <= SumFunctionOnSet(c, S)
<1> DEFINE Part(s) == SumFunctionOnSet(f, {x \in F : t[x] \in s})
           Sum(s) == SumFunctionOnSet(c, s)
           B == {s \in SUBSET S : ~(Part(s) <= Sum(s))}
<1> SUFFICES ASSUME B # {} PROVE FALSE
  OBVIOUS
<1>1. PICK m \in B : \A s \in B : s \subseteq m => s = m
  <2>1. B \subseteq SUBSET S
    OBVIOUS
  <2> HIDE DEF B
  <2> QED BY <2>1, MinimalMember
<1>2. IsFiniteSet(m) /\ ~(Part(m) <= Sum(m)) /\ m \subseteq S
  BY FS_Subset
<1>3. ASSUME m = {} PROVE FALSE
  <2>1. {x \in F : t[x] \in m} = {}
    BY <1>3
  <2>2. Part(m) = 0 /\ Sum(m) = 0
    BY <1>3, <2>1, SumEmpty
  <2> QED BY <1>2, <2>2
<1>4. PICK r \in m : TRUE
  BY <1>3
<1>5. Part(m \ {r}) <= Sum(m \ {r})
  BY <1>1
<1>6. Sum(m) = c[r] + Sum(m \ {r})
  <2>1. \A x \in m : c[x] \in Int
    OBVIOUS
  <2> QED BY <1>2, <2>1, SumRemove
<1> DEFINE P == {x \in F : t[x] \in m \ {r}}
           Q == {x \in F : t[x] = r}
<1>7. Part(m) = Part(m \ {r}) + SumFunctionOnSet(f, Q)
  <2>1. {x \in F : t[x] \in m} = P \cup Q /\ P \cap Q = {}
    OBVIOUS
  <2>2. IsFiniteSet(P) /\ IsFiniteSet(Q)
    BY FS_Subset
  <2>3. \A x \in P \cup Q : f[x] \in Int
    OBVIOUS
  <2>4. SumFunctionOnSet(f, P \cup Q) = SumFunctionOnSet(f, P) + SumFunctionOnSet(f, Q)
    <3> HIDE DEF P, Q
    <3> QED BY <2>1, <2>2, <2>3, SumUnion
  <2> QED BY <2>1, <2>4
<1>8. /\ Part(m \ {r}) \in Nat /\ SumFunctionOnSet(f, Q) \in Nat
      /\ Sum(m \ {r}) \in Nat /\ c[r] \in Nat
  <2>1. IsFiniteSet(P) /\ IsFiniteSet(Q) /\ IsFiniteSet(m \ {r})
    BY <1>2, FS_Subset
  <2>2. (\A x \in P : f[x] \in Nat) /\ (\A x \in Q : f[x] \in Nat) /\ \A x \in m \ {r} : c[x] \in Nat
    OBVIOUS
  <2>3. SumFunctionOnSet(f, P) \in Nat /\ SumFunctionOnSet(f, Q) \in Nat /\ Sum(m \ {r}) \in Nat
    <3> HIDE DEF P, Q
    <3> QED BY <2>1, <2>2, SumNat
  <2> QED BY <2>3
<1>9. SumFunctionOnSet(f, Q) <= c[r]
  OBVIOUS
<1> HIDE DEF Part, Sum, B, Q
<1> QED BY <1>2, <1>5, <1>6, <1>7, <1>8, <1>9

(* The sum over a union counts what is in both parts once.                 *)
LEMMA SumUnionAtMost ==
    ASSUME NEW f, NEW S, NEW T, IsFiniteSet(S), IsFiniteSet(T), \A x \in S \cup T : f[x] \in Nat
    PROVE  SumFunctionOnSet(f, S \cup T) <= SumFunctionOnSet(f, S) + SumFunctionOnSet(f, T)
<1> DEFINE D == T \ S
<1>1. IsFiniteSet(D) /\ S \cap D = {} /\ S \cup D = S \cup T /\ D \in SUBSET T
  BY FS_Difference
<1>2. SumFunctionOnSet(f, S \cup D) = SumFunctionOnSet(f, S) + SumFunctionOnSet(f, D)
  <2>1. \A x \in S \cup D : f[x] \in Int
    OBVIOUS
  <2> HIDE DEF D
  <2> QED BY <1>1, <2>1, SumUnion
<1>3. SumFunctionOnSet(f, D) <= SumFunctionOnSet(f, T)
  <2> HIDE DEF D
  <2> QED BY <1>1, SumSubset
<1>4. /\ SumFunctionOnSet(f, S) \in Nat /\ SumFunctionOnSet(f, D) \in Nat
      /\ SumFunctionOnSet(f, T) \in Nat
  <2>1. (\A x \in S : f[x] \in Nat) /\ (\A x \in T : f[x] \in Nat) /\ \A x \in D : f[x] \in Nat
    OBVIOUS
  <2> HIDE DEF D
  <2> QED BY <1>1, <2>1, SumNat
<1>5. SumFunctionOnSet(f, S \cup D) = SumFunctionOnSet(f, S \cup T)
  BY <1>1
<1> HIDE DEF D
<1> QED BY <1>2, <1>3, <1>4, <1>5
=============================================================================
