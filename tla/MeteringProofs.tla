---------------------------- MODULE MeteringProofs ----------------------------
(***************************************************************************)
(* For every set of sandboxes, every limit, month, grace period and number *)
(* of faults: the properties of Metering.                                  *)
(***************************************************************************)
EXTENDS Metering, FiniteSetTheorems, SequenceTheorems, TLAPS

-----------------------------------------------------------------------------
(* Induction.  A least counterexample stands for the induction principles  *)
(* that take a predicate: P is a set, and S one of the things in it.       *)

LEMMA SetInduction ==
    ASSUME NEW S, IsFiniteSet(S), NEW P,
           \A T \in SUBSET S : (\A U \in SUBSET T : U # T => U \in P) => T \in P
    PROVE  S \in P
<1> SUFFICES ASSUME S \notin P PROVE FALSE
  OBVIOUS
<1> DEFINE Bad == {T \in SUBSET S : T \notin P}
<1>0. FiniteSubsetsOf(S) = SUBSET S
  BY FS_FiniteSubsetsOfFinite
<1>1. IsWellFoundedOn(StrictSubsetOrdering(S), FiniteSubsetsOf(S))
  BY FS_StrictSubsetOrderingWellFounded
<1>2. Bad \subseteq FiniteSubsetsOf(S) /\ Bad # {}
  BY <1>0
<1> HIDE DEF Bad
<1>3. PICK T \in Bad : \A U \in Bad : ~(<<U, T>> \in StrictSubsetOrdering(S))
  BY <1>1, <1>2, WFMin
<1>4. T \in SUBSET S /\ T \notin P
  BY DEF Bad
<1>5. ASSUME NEW U \in SUBSET T, U # T PROVE U \in P
  <2>1. <<U, T>> \in StrictSubsetOrdering(S)
    BY <1>4, <1>5 DEF StrictSubsetOrdering
  <2>2. QED
    BY <1>3, <1>4, <2>1 DEF Bad
<1>6. QED
  BY <1>4, <1>5

LEMMA NatInduction1 ==
    ASSUME NEW P, 0 \in P, \A n \in Nat : n \in P => n + 1 \in P
    PROVE  Nat \subseteq P
<1> SUFFICES ASSUME NEW m \in Nat, m \notin P PROVE FALSE
  OBVIOUS
<1> DEFINE Bad == {n \in Nat : n \notin P}
<1>1. Bad # {} /\ Bad \subseteq Nat
  OBVIOUS
<1> HIDE DEF Bad
<1>2. PICK x \in Bad : \A y \in Bad : ~(<<y, x>> \in OpToRel(<, Nat))
  BY <1>1, NatLessThanWellFounded, WFMin
<1>3. x \in Nat /\ x \notin P /\ \A y \in Nat : y \notin P => ~(y < x)
  BY <1>2 DEF OpToRel, Bad
<1>4. x # 0 /\ x - 1 \in Nat /\ x - 1 < x
  BY <1>3
<1>5. QED
  BY <1>3, <1>4

-----------------------------------------------------------------------------
(* Sums.  Total is defined by a recursive function on the subsets of S.    *)

Pick(s) == CHOOSE x \in s : TRUE

IsTotal(h, f, S) == h = [s \in SUBSET S |-> IF s = {} THEN 0 ELSE f[Pick(s)] + h[s \ {Pick(s)}]]

LEMMA TotalIs ==
    ASSUME NEW f, NEW S
    PROVE  Total(f, S) = (CHOOSE h : IsTotal(h, f, S))[S]
BY DEF Total, MapThenSumSet, MapThenFoldSet, IsTotal, Pick

LEMMA PickIn ==
    ASSUME NEW s, s # {}
    PROVE  Pick(s) \in s
BY DEF Pick

LEMMA IsTotalAt ==
    ASSUME NEW f, NEW S, NEW h, IsTotal(h, f, S), NEW s \in SUBSET S
    PROVE  h[s] = IF s = {} THEN 0 ELSE f[Pick(s)] + h[s \ {Pick(s)}]
BY DEF IsTotal

\* Two such functions agree where both are defined.
LEMMA IsTotalUnique ==
    ASSUME NEW f, NEW S, NEW T, NEW g, NEW h, IsTotal(g, f, S), IsTotal(h, f, T),
           NEW U \in SUBSET (S \cap T), IsFiniteSet(U)
    PROVE  g[U] = h[U]
<1> DEFINE P == {s \in SUBSET U : g[s] = h[s]}
<1>1. ASSUME NEW V \in SUBSET U, \A W \in SUBSET V : W # V => W \in P PROVE V \in P
  <2>1. V \in SUBSET S /\ V \in SUBSET T
    OBVIOUS
  <2>2. g[V] = IF V = {} THEN 0 ELSE f[Pick(V)] + g[V \ {Pick(V)}]
    BY <2>1, IsTotalAt
  <2>5. h[V] = IF V = {} THEN 0 ELSE f[Pick(V)] + h[V \ {Pick(V)}]
    BY <2>1, IsTotalAt
  <2>3. V # {} => V \ {Pick(V)} \in P
    BY <1>1, PickIn
  <2>4. QED
    BY <2>2, <2>3, <2>5
<1> HIDE DEF P
<1>2. U \in P
  BY <1>1, SetInduction
<1>3. QED
  BY <1>2 DEF P

LEMMA IsTotalExists ==
    ASSUME NEW f, NEW S, IsFiniteSet(S)
    PROVE  \E h : IsTotal(h, f, S)
<1> DEFINE P == {s \in SUBSET S : \E h : IsTotal(h, f, s)}
<1>1. ASSUME NEW T \in SUBSET S, \A U \in SUBSET T : U # T => U \in P PROVE T \in P
  <2> DEFINE fn(s) == CHOOSE h : IsTotal(h, f, s)
             rest(s) == s \ {Pick(s)}
             h == [s \in SUBSET T |-> IF s = {} THEN 0 ELSE f[Pick(s)] + fn(rest(s))[rest(s)]]
  <2>1. ASSUME NEW s \in SUBSET T, s # T PROVE IsTotal(fn(s), f, s)
    BY <1>1, <2>1
  <2>2. ASSUME NEW s \in SUBSET T, s # {} PROVE h[rest(s)] = fn(rest(s))[rest(s)]
    <3>1. rest(s) \in SUBSET T /\ rest(s) # T
      BY <2>2, PickIn
    <3> DEFINE u == rest(s)
    <3>2. IsTotal(fn(u), f, u)
      BY <2>1, <3>1
    <3>3. fn(u)[u] = IF u = {} THEN 0 ELSE f[Pick(u)] + fn(u)[rest(u)]
      <4> HIDE DEF fn, u
      <4>1. QED
        BY <3>2, IsTotalAt
    <3>4. CASE u = {}
      BY <3>1, <3>3, <3>4
    <3>5. CASE u # {}
      <4>1. rest(u) \in SUBSET T /\ rest(u) # T /\ rest(u) \in SUBSET u
        BY <3>1, <3>5, PickIn
      <4>2. IsTotal(fn(rest(u)), f, rest(u))
        BY <2>1, <4>1
      <4>3. IsFiniteSet(rest(u))
        BY <4>1, FS_Subset
      <4>4. fn(u)[rest(u)] = fn(rest(u))[rest(u)]
        <5> DEFINE w == rest(u)
        <5> HIDE DEF fn, w, u
        <5>1. IsTotal(fn(u), f, u) /\ IsTotal(fn(w), f, w) /\ w \in SUBSET (u \cap w) /\ IsFiniteSet(w)
          BY <3>2, <4>1, <4>2, <4>3 DEF w
        <5>2. fn(u)[w] = fn(w)[w]
          BY <5>1, IsTotalUnique
        <5>3. QED
          BY <5>2 DEF w
      <4>5. h[u] = f[Pick(u)] + fn(rest(u))[rest(u)]
        BY <3>1, <3>5
      <4>6. QED
        BY <3>3, <3>5, <4>4, <4>5
    <3>6. QED
      BY <3>4, <3>5
  <2>3. h = [s \in SUBSET T |-> IF s = {} THEN 0 ELSE f[Pick(s)] + h[rest(s)]]
    <3>1. ASSUME NEW s \in SUBSET T PROVE h[s] = IF s = {} THEN 0 ELSE f[Pick(s)] + h[rest(s)]
      <4> HIDE DEF fn
      <4>1. QED
        BY <2>2
    <3> HIDE DEF fn
    <3>2. QED
      BY <3>1
  <2>4. IsTotal(h, f, T)
    <3> HIDE DEF h
    <3>1. QED
      BY <2>3 DEF IsTotal
  <2> HIDE DEF h
  <2>5. QED
    BY <2>4
<1> HIDE DEF P
<1>2. S \in P
  BY <1>1, SetInduction
<1>3. QED
  BY <1>2 DEF P

LEMMA TotalRec ==
    ASSUME NEW f, NEW S, IsFiniteSet(S)
    PROVE  Total(f, S) = IF S = {} THEN 0 ELSE f[Pick(S)] + Total(f, S \ {Pick(S)})
<1> DEFINE h == CHOOSE x : IsTotal(x, f, S)
           R == S \ {Pick(S)}
           g == CHOOSE x : IsTotal(x, f, R)
<1>1. IsFiniteSet(R)
  BY FS_RemoveElement
<1>2. IsTotal(h, f, S) /\ IsTotal(g, f, R)
  BY <1>1, IsTotalExists
<1>3. Total(f, S) = h[S] /\ Total(f, R) = g[R]
  BY TotalIs
<1> HIDE DEF h, g
<1>4. h[S] = IF S = {} THEN 0 ELSE f[Pick(S)] + h[R]
  BY <1>2, IsTotalAt
<1>5. h[R] = g[R]
  <2>1. R \in SUBSET (S \cap R)
    OBVIOUS
  <2> HIDE DEF R
  <2>2. QED
    BY <1>1, <1>2, <2>1, IsTotalUnique
<1>6. QED
  BY <1>3, <1>4, <1>5

LEMMA TotalEmpty == \A f : Total(f, {}) = 0
BY TotalRec, FS_EmptySet

LEMMA TotalInt ==
    ASSUME NEW S, IsFiniteSet(S), NEW f, \A x \in S : f[x] \in Int
    PROVE  Total(f, S) \in Int
<1> DEFINE P == {s \in SUBSET S : Total(f, s) \in Int}
<1>1. ASSUME NEW T \in SUBSET S, \A U \in SUBSET T : U # T => U \in P PROVE T \in P
  <2>1. IsFiniteSet(T)
    BY FS_Subset
  <2>2. CASE T = {}
    BY <2>2, TotalEmpty
  <2>3. CASE T # {}
    <3>1. Pick(T) \in T /\ T \ {Pick(T)} \in P
      BY <1>1, <2>3, PickIn
    <3>2. Total(f, T) = f[Pick(T)] + Total(f, T \ {Pick(T)})
      BY <2>1, <2>3, TotalRec
    <3>3. QED
      BY <3>1, <3>2
  <2>4. QED
    BY <2>2, <2>3
<1> HIDE DEF P
<1>2. S \in P
  BY <1>1, SetInduction
<1>3. QED
  BY <1>2 DEF P

\* Any summand may be taken out, not only the one that CHOOSE picks.
LEMMA TotalRemove ==
    ASSUME NEW S, IsFiniteSet(S), NEW f, \A x \in S : f[x] \in Int, NEW x \in S
    PROVE  Total(f, S) = f[x] + Total(f, S \ {x})
<1> DEFINE P == {s \in SUBSET S : \A y \in s : Total(f, s) = f[y] + Total(f, s \ {y})}
<1>1. ASSUME NEW T \in SUBSET S, \A U \in SUBSET T : U # T => U \in P PROVE T \in P
  <2>0. IsFiniteSet(T)
    BY FS_Subset
  <2> SUFFICES ASSUME NEW y \in T PROVE Total(f, T) = f[y] + Total(f, T \ {y})
    OBVIOUS
  <2> DEFINE p == Pick(T)
  <2>1. p \in T
    BY PickIn
  <2>2. Total(f, T) = f[p] + Total(f, T \ {p})
    BY <2>0, TotalRec
  <2> HIDE DEF p
  <2>3. CASE y = p
    BY <2>2, <2>3
  <2>4. CASE y # p
    <3>1. T \ {p} \in P /\ T \ {y} \in P
      BY <1>1, <2>1
    <3>2. /\ Total(f, T \ {p}) = f[y] + Total(f, (T \ {p}) \ {y})
          /\ Total(f, T \ {y}) = f[p] + Total(f, (T \ {y}) \ {p})
      BY <2>1, <2>4, <3>1
    <3>3. (T \ {p}) \ {y} = (T \ {y}) \ {p}
      OBVIOUS
    <3>4. IsFiniteSet((T \ {y}) \ {p}) /\ \A z \in (T \ {y}) \ {p} : f[z] \in Int
      BY <2>0, FS_RemoveElement
    <3>5. Total(f, (T \ {y}) \ {p}) \in Int
      BY <3>4, TotalInt
    <3>6. f[y] \in Int /\ f[p] \in Int
      BY <2>1
    <3>7. Total(f, T \ {p}) = f[y] + Total(f, (T \ {y}) \ {p})
      BY <3>2, <3>3
    <3>8. QED
      BY <2>2, <3>2, <3>5, <3>6, <3>7
  <2>5. QED
    BY <2>3, <2>4
<1> HIDE DEF P
<1>2. S \in P
  BY <1>1, SetInduction
<1>3. QED
  BY <1>2 DEF P

\* What holds of {} and is kept when an element is added holds of S.
LEMMA StepInduction ==
    ASSUME NEW S, IsFiniteSet(S), NEW P, {} \in P,
           \A T \in SUBSET S : \A x \in T : T \ {x} \in P => T \in P
    PROVE  S \in P
<1>1. ASSUME NEW T \in SUBSET S, \A U \in SUBSET T : U # T => U \in P PROVE T \in P
  <2>1. CASE T = {}
    BY <2>1
  <2>2. CASE T # {}
    <3>1. PICK x \in T : TRUE
      BY <2>2
    <3>2. T \ {x} \in SUBSET T /\ T \ {x} # T
      BY <3>1
    <3>3. QED
      BY <1>1, <3>1, <3>2
  <2>3. QED
    BY <2>1, <2>2
<1>2. QED
  BY <1>1, SetInduction

LEMMA TotalEqual ==
    ASSUME NEW S, IsFiniteSet(S), NEW f, NEW g, \A x \in S : f[x] \in Int /\ f[x] = g[x]
    PROVE  Total(f, S) = Total(g, S)
<1> DEFINE P == {s \in SUBSET S : Total(f, s) = Total(g, s)}
<1>1. {} \in P
  BY TotalEmpty
<1>2. ASSUME NEW T \in SUBSET S, NEW x \in T, T \ {x} \in P PROVE T \in P
  <2>1. IsFiniteSet(T) /\ (\A y \in T : f[y] \in Int) /\ (\A y \in T : g[y] \in Int)
    BY FS_Subset
  <2>2. Total(f, T) = f[x] + Total(f, T \ {x})
    BY <2>1, TotalRemove
  <2>3. Total(g, T) = g[x] + Total(g, T \ {x})
    BY <2>1, TotalRemove
  <2>4. QED
    BY <1>2, <2>2, <2>3
<1> HIDE DEF P
<1>3. S \in P
  BY <1>1, <1>2, StepInduction
<1>4. QED
  BY <1>3 DEF P

LEMMA TotalNat ==
    ASSUME NEW S, IsFiniteSet(S), NEW f, \A x \in S : f[x] \in Nat
    PROVE  Total(f, S) \in Nat
<1> DEFINE P == {s \in SUBSET S : Total(f, s) \in Nat}
<1>1. {} \in P
  BY TotalEmpty
<1>2. ASSUME NEW T \in SUBSET S, NEW x \in T, T \ {x} \in P PROVE T \in P
  <2>1. IsFiniteSet(T) /\ \A y \in T : f[y] \in Int
    BY FS_Subset
  <2>2. Total(f, T) = f[x] + Total(f, T \ {x})
    BY <2>1, TotalRemove
  <2>3. QED
    BY <1>2, <2>2
<1> HIDE DEF P
<1>3. S \in P
  BY <1>1, <1>2, StepInduction
<1>4. QED
  BY <1>3 DEF P

LEMMA TotalPlus ==
    ASSUME NEW S, IsFiniteSet(S), NEW f, NEW g, NEW h,
           \A x \in S : f[x] \in Int /\ g[x] \in Int /\ h[x] = f[x] + g[x]
    PROVE  Total(h, S) = Total(f, S) + Total(g, S)
<1> DEFINE P == {s \in SUBSET S : Total(h, s) = Total(f, s) + Total(g, s)}
<1>1. {} \in P
  BY TotalEmpty
<1>2. ASSUME NEW T \in SUBSET S, NEW x \in T, T \ {x} \in P PROVE T \in P
  <2>1. /\ IsFiniteSet(T) /\ IsFiniteSet(T \ {x})
        /\ \A y \in T : f[y] \in Int
        /\ \A y \in T : g[y] \in Int
        /\ \A y \in T : h[y] \in Int
    BY FS_Subset
  <2>2. Total(f, T) = f[x] + Total(f, T \ {x})
    BY <2>1, TotalRemove
  <2>3. Total(g, T) = g[x] + Total(g, T \ {x})
    BY <2>1, TotalRemove
  <2>4. Total(h, T) = h[x] + Total(h, T \ {x})
    BY <2>1, TotalRemove
  <2>5. Total(f, T \ {x}) \in Int /\ Total(g, T \ {x}) \in Int
    BY <2>1, TotalInt
  <2>6. QED
    BY <1>2, <2>2, <2>3, <2>4, <2>5
<1> HIDE DEF P
<1>3. S \in P
  BY <1>1, <1>2, StepInduction
<1>4. QED
  BY <1>3 DEF P

LEMMA TotalMono ==
    ASSUME NEW S, IsFiniteSet(S), NEW f, NEW g,
           \A x \in S : f[x] \in Int /\ g[x] \in Int /\ f[x] <= g[x]
    PROVE  Total(f, S) <= Total(g, S)
<1> DEFINE d == [x \in S |-> g[x] - f[x]]
<1>1. \A x \in S : d[x] \in Nat /\ g[x] = f[x] + d[x]
  OBVIOUS
<1> HIDE DEF d
<1>2. Total(g, S) = Total(f, S) + Total(d, S)
  BY <1>1, TotalPlus
<1>3. Total(d, S) \in Nat
  BY <1>1, TotalNat
<1>4. Total(f, S) \in Int
  BY TotalInt
<1>5. QED
  BY <1>2, <1>3, <1>4

\* A sum over some rows is one over all of them in which the others count nothing.
LEMMA TotalFilter ==
    ASSUME NEW S, IsFiniteSet(S), NEW T \in SUBSET S, NEW f, NEW g,
           \A x \in T : f[x] \in Int /\ g[x] = f[x],
           \A x \in S \ T : g[x] = 0
    PROVE  Total(f, T) = Total(g, S)
<1> DEFINE P == {s \in SUBSET S : Total(f, s \cap T) = Total(g, s)}
<1>1. {} \in P
  <2>1. {} \cap T = {}
    OBVIOUS
  <2>2. QED
    BY <2>1, TotalEmpty
<1>2. ASSUME NEW U \in SUBSET S, NEW x \in U, U \ {x} \in P PROVE U \in P
  <2>1. /\ IsFiniteSet(U) /\ IsFiniteSet(U \cap T)
        /\ \A y \in U : g[y] \in Int
        /\ \A y \in U \cap T : f[y] \in Int
    BY FS_Subset
  <2>2. Total(g, U) = g[x] + Total(g, U \ {x})
    BY <2>1, TotalRemove
  <2>3. CASE x \in T
    <3>1. Total(f, U \cap T) = f[x] + Total(f, (U \cap T) \ {x})
      BY <2>1, <2>3, TotalRemove
    <3>2. (U \cap T) \ {x} = (U \ {x}) \cap T
      OBVIOUS
    <3>3. Total(f, (U \cap T) \ {x}) = Total(g, U \ {x})
      BY <1>2, <3>2
    <3>4. QED
      BY <2>2, <2>3, <3>1, <3>3
  <2>4. CASE x \notin T
    <3>1. (U \ {x}) \cap T = U \cap T
      BY <2>4
    <3>2. Total(f, U \cap T) = Total(g, U \ {x})
      BY <1>2, <3>1
    <3>3. Total(g, U \ {x}) \in Int
      BY <2>1, TotalInt, FS_RemoveElement
    <3>4. QED
      BY <2>2, <2>4, <3>2, <3>3
  <2>5. QED
    BY <2>3, <2>4
<1> HIDE DEF P
<1>3. S \in P
  BY <1>1, <1>2, StepInduction
<1>4. S \cap T = T
  OBVIOUS
<1>5. QED
  BY <1>3, <1>4 DEF P

\* One summand changes.
LEMMA TotalUpdate ==
    ASSUME NEW S, IsFiniteSet(S), NEW f, NEW g, NEW x \in S,
           \A y \in S : f[y] \in Int /\ g[y] \in Int,
           \A y \in S \ {x} : g[y] = f[y]
    PROVE  Total(g, S) = Total(f, S) + (g[x] - f[x])
<1>1. IsFiniteSet(S \ {x})
  BY FS_RemoveElement
<1>2. Total(f, S) = f[x] + Total(f, S \ {x})
  BY TotalRemove
<1>3. Total(g, S) = g[x] + Total(g, S \ {x})
  BY TotalRemove
<1>4. Total(f, S \ {x}) = Total(g, S \ {x})
  BY <1>1, TotalEqual
<1>5. Total(f, S \ {x}) \in Int
  BY <1>1, TotalInt
<1>6. QED
  BY <1>2, <1>3, <1>4, <1>5

LEMMA TotalZero ==
    ASSUME NEW S, IsFiniteSet(S), NEW f, \A x \in S : f[x] = 0
    PROVE  Total(f, S) = 0
<1>1. \A x \in S \ {} : f[x] = 0
  OBVIOUS
<1>2. Total(f, {}) = Total(f, S)
  BY <1>1, TotalFilter
<1>3. QED
  BY <1>2, TotalEmpty

\* One summand more.
LEMMA TotalAdd ==
    ASSUME NEW S, IsFiniteSet(S), NEW x, x \notin S, NEW f, NEW g,
           f[x] \in Int, \A y \in S : f[y] \in Int /\ f[y] = g[y]
    PROVE  Total(f, S \cup {x}) = Total(g, S) + f[x]
<1>1. IsFiniteSet(S \cup {x}) /\ (\A y \in S \cup {x} : f[y] \in Int)
  BY FS_AddElement
<1>2. Total(f, S \cup {x}) = f[x] + Total(f, (S \cup {x}) \ {x})
  BY <1>1, TotalRemove
<1>3. (S \cup {x}) \ {x} = S
  OBVIOUS
<1>4. Total(f, S) = Total(g, S) /\ Total(f, S) \in Int
  BY TotalEqual, TotalInt
<1>5. Total(f, S \cup {x}) = f[x] + Total(f, S)
  BY <1>2, <1>3
<1>6. QED
  BY <1>4, <1>5

LEMMA TotalSubset ==
    ASSUME NEW S, IsFiniteSet(S), NEW T \in SUBSET S, NEW f, \A x \in S : f[x] \in Nat
    PROVE  Total(f, T) <= Total(f, S)
<1> DEFINE g == [x \in S |-> IF x \in T THEN f[x] ELSE 0]
<1>1. /\ \A x \in T : f[x] \in Int /\ g[x] = f[x]
      /\ \A x \in S \ T : g[x] = 0
      /\ \A x \in S : g[x] \in Int /\ f[x] \in Int /\ g[x] <= f[x]
  OBVIOUS
<1> HIDE DEF g
<1>2. Total(f, T) = Total(g, S)
  BY <1>1, TotalFilter
<1>3. Total(g, S) <= Total(f, S)
  BY <1>1, TotalMono
<1>4. QED
  BY <1>2, <1>3

\* Some summands are one larger.
LEMMA TotalCount ==
    ASSUME NEW S, IsFiniteSet(S), NEW T \in SUBSET S, NEW f, NEW g,
           \A x \in S : f[x] \in Int /\ g[x] = f[x] + (IF x \in T THEN 1 ELSE 0)
    PROVE  Total(g, S) = Total(f, S) + Cardinality(T)
<1> DEFINE P == {s \in SUBSET S : Total(g, s) = Total(f, s) + Cardinality(s \cap T)}
<1>1. {} \in P
  <2>1. {} \cap T = {} /\ Cardinality({}) = 0
    BY FS_EmptySet
  <2>2. QED
    BY <2>1, TotalEmpty
<1>2. ASSUME NEW U \in SUBSET S, NEW x \in U, U \ {x} \in P PROVE U \in P
  <2>1. /\ IsFiniteSet(U) /\ IsFiniteSet(U \ {x}) /\ IsFiniteSet((U \ {x}) \cap T)
        /\ \A y \in U : g[y] \in Int /\ f[y] \in Int
    <3>1. IsFiniteSet(U) /\ IsFiniteSet(U \ {x}) /\ IsFiniteSet((U \ {x}) \cap T)
      BY FS_Subset
    <3>2. QED
      BY <3>1
  <2>2. Total(g, U) = g[x] + Total(g, U \ {x})
    BY <2>1, TotalRemove
  <2>3. Total(f, U) = f[x] + Total(f, U \ {x}) /\ Total(f, U \ {x}) \in Int
    BY <2>1, TotalRemove, TotalInt
  <2> DEFINE c == Cardinality((U \ {x}) \cap T)
  <2>4. Total(g, U \ {x}) = Total(f, U \ {x}) + c
    BY <1>2
  <2>5. c \in Nat
    BY <2>1, FS_CardinalityType
  <2>6. Cardinality(U \cap T) = c + (IF x \in T THEN 1 ELSE 0)
    <3>1. CASE x \in T
      <4>1. U \cap T = ((U \ {x}) \cap T) \cup {x} /\ x \notin (U \ {x}) \cap T
        BY <3>1
      <4>2. Cardinality(((U \ {x}) \cap T) \cup {x}) = c + 1
        BY <2>1, <4>1, FS_AddElement
      <4>3. QED
        BY <3>1, <4>1, <4>2
    <3>2. CASE x \notin T
      <4>1. U \cap T = (U \ {x}) \cap T
        BY <3>2
      <4>2. QED
        BY <2>5, <3>2, <4>1
    <3>3. QED
      BY <3>1, <3>2
  <2> HIDE DEF c
  <2>7. f[x] \in Int /\ g[x] = f[x] + (IF x \in T THEN 1 ELSE 0)
    OBVIOUS
  <2>8. Total(g, U) = Total(f, U) + Cardinality(U \cap T)
    BY <2>2, <2>3, <2>4, <2>5, <2>6, <2>7
  <2>9. QED
    BY <2>8
<1> HIDE DEF P
<1>3. S \in P
  BY <1>1, <1>2, StepInduction
<1>4. S \cap T = T
  OBVIOUS
<1>5. QED
  BY <1>3, <1>4 DEF P

-----------------------------------------------------------------------------
(* consume_compute_credits.                                                *)

LEMMA MaxTwo ==
    ASSUME NEW a \in Int, NEW b \in Int
    PROVE  Max({a, b}) = IF a <= b THEN b ELSE a
BY DEF Max

LEMMA MinTwo ==
    ASSUME NEW a \in Int, NEW b \in Int
    PROVE  Min({a, b}) = IF a <= b THEN a ELSE b
BY DEF Min

GrantRows == [left: Nat, expires: Nat]

\* The assumptions on the constants, one by one.
LEMMA Constants ==
    /\ IsFiniteSet(Sandboxes) /\ GracePeriods \subseteq Nat
    /\ Limit \in Nat /\ MaxCloseDelta \in Nat /\ GrantAmount \in Nat
    /\ MaxTime \in Nat /\ MaxOps \in Nat /\ MaxGrants \in Nat /\ MaxMishaps \in Nat
    /\ PeriodLength \in Nat /\ PeriodLength > 0
BY MeteringAssumption

\* The grants, and the time.
GrantsOK == grants \in Seq(GrantRows) /\ now \in Nat

Ours == {g \in DOMAIN grants : Usable(g)}

\* The order in which grants are drawn.
Before(h, g) == \/ grants[h].expires < grants[g].expires
                \/ grants[h].expires = grants[g].expires /\ h < g

LEMMA GrantFacts ==
    ASSUME GrantsOK
    PROVE  /\ DOMAIN grants = 1..Len(grants) /\ Len(grants) \in Nat
           /\ IsFiniteSet(DOMAIN grants) /\ IsFiniteSet(Ours) /\ Ours \subseteq DOMAIN grants
           /\ \A g \in DOMAIN grants : /\ grants[g] \in GrantRows /\ g \in Nat
                                       /\ Left[g] \in Nat /\ Left[g] = grants[g].left
                                       /\ grants[g].left \in Nat /\ grants[g].expires \in Nat
           /\ Extra \in Nat
<1>1. DOMAIN grants = 1..Len(grants) /\ Len(grants) \in Nat
  BY DEF GrantsOK
<1>2. IsFiniteSet(DOMAIN grants)
  BY <1>1, FS_Interval
<1>3. Ours \in SUBSET (DOMAIN grants)
  BY DEF Ours
<1>4. IsFiniteSet(Ours)
  BY <1>2, <1>3, FS_Subset
<1>5. ASSUME NEW g \in DOMAIN grants
      PROVE  /\ grants[g] \in GrantRows /\ g \in Nat /\ Left[g] = grants[g].left
             /\ grants[g].left \in Nat /\ grants[g].expires \in Nat
  <2>1. grants[g] \in GrantRows /\ g \in Nat
    BY <1>1 DEF GrantsOK
  <2>2. grants[g].left \in Nat /\ grants[g].expires \in Nat
    BY <2>1 DEF GrantRows
  <2>3. Left[g] = grants[g].left
    BY DEF Left
  <2>4. QED
    BY <2>1, <2>2, <2>3
<1>6. \A g \in Ours : Left[g] \in Nat
  BY <1>3, <1>5
<1>7. Total(Left, Ours) \in Nat
  BY <1>4, <1>6, TotalNat
<1>8. QED
  BY <1>1, <1>2, <1>3, <1>4, <1>5, <1>7 DEF Extra, Ours

LEMMA LastGrant ==
    ASSUME GrantsOK, NEW S \in SUBSET DOMAIN grants, S # {}
    PROVE  \E m \in S : \A h \in S : h # m => Before(h, m)
<1> DEFINE P == {s \in SUBSET S : s # {} => \E m \in s : \A h \in s : h # m => Before(h, m)}
<1>0. IsFiniteSet(S)
  BY GrantFacts, FS_Subset
<1>1. {} \in P
  OBVIOUS
<1>2. ASSUME NEW T \in SUBSET S, NEW x \in T, T \ {x} \in P PROVE T \in P
  <2>1. CASE T \ {x} = {}
    <3>1. \A h \in T : h = x
      BY <2>1
    <3>2. QED
      BY <3>1
  <2>2. CASE T \ {x} # {}
    <3>1. PICK m \in T \ {x} : \A h \in T \ {x} : h # m => Before(h, m)
      BY <1>2, <2>2
    <3>2. \A g, h \in T : g # h => Before(g, h) \/ Before(h, g)
      BY GrantFacts DEF Before
    <3>3. \A f, g, h \in T : Before(f, g) /\ Before(g, h) => Before(f, h)
      BY GrantFacts DEF Before
    <3>4. CASE Before(x, m)
      BY <3>1, <3>4
    <3>5. CASE Before(m, x)
      <4>1. \A h \in T : h # x => Before(h, x)
        BY <3>1, <3>3, <3>5
      <4>2. QED
        BY <4>1
    <3>6. QED
      BY <3>1, <3>2, <3>4, <3>5
  <2>3. QED
    BY <2>1, <2>2
<1> HIDE DEF P
<1>3. S \in P
  BY <1>0, <1>1, <1>2, StepInduction
<1>4. QED
  BY <1>3 DEF P

\* What is drawn of a grant.
LEMMA DeductFacts ==
    ASSUME GrantsOK, NEW needed \in Nat, NEW g \in DOMAIN grants
    PROVE  /\ Total(Left, Earlier(g)) \in Nat
           /\ Deduct(g, needed) \in Nat
           /\ Deduct(g, needed) <= grants[g].left
           /\ ~Usable(g) => Deduct(g, needed) = 0
           /\ Usable(g) => LET rest == needed - Total(Left, Earlier(g))
                           IN  Deduct(g, needed) = IF rest <= 0 THEN 0
                                                   ELSE IF grants[g].left <= rest THEN grants[g].left ELSE rest
<1> DEFINE e == Total(Left, Earlier(g))
           l == grants[g].left
<1>1. Earlier(g) \in SUBSET DOMAIN grants
  BY DEF Earlier
<1>2. e \in Nat
  <2>1. IsFiniteSet(Earlier(g)) /\ \A h \in Earlier(g) : Left[h] \in Nat
    BY <1>1, GrantFacts, FS_Subset
  <2>2. QED
    BY <2>1, TotalNat
<1>3. l \in Nat
  BY GrantFacts
<1>4. Deduct(g, needed) = IF ~Usable(g) THEN 0 ELSE Max({0, Min({l, needed - e})})
  BY DEF Deduct
<1> HIDE DEF e, l
<1>5. Min({l, needed - e}) = IF l <= needed - e THEN l ELSE needed - e
  BY <1>2, <1>3, MinTwo
<1>6. Min({l, needed - e}) \in Int
  BY <1>2, <1>3, <1>5
<1>7. Max({0, Min({l, needed - e})}) = IF 0 <= Min({l, needed - e}) THEN Min({l, needed - e}) ELSE 0
  BY <1>6, MaxTwo
<1>8. Max({0, Min({l, needed - e})}) = IF needed - e <= 0 THEN 0 ELSE IF l <= needed - e THEN l ELSE needed - e
  BY <1>2, <1>3, <1>5, <1>7
<1> HIDE DEF Deduct
<1>9. QED
  BY <1>2, <1>3, <1>4, <1>8 DEF e, l

\* The grants give what is needed, or all they have.
LEMMA DeductTotal ==
    ASSUME GrantsOK, NEW needed \in Nat, NEW D, \A g \in DOMAIN grants : D[g] = Deduct(g, needed)
    PROVE  Total(D, DOMAIN grants) = IF needed <= Extra THEN needed ELSE Extra
<1>0. \A g \in DOMAIN grants : D[g] \in Nat /\ (~Usable(g) => D[g] = 0)
  <2> TAKE g \in DOMAIN grants
  <2>1. Deduct(g, needed) \in Nat /\ (~Usable(g) => Deduct(g, needed) = 0)
    BY DeductFacts
  <2>2. QED
    BY <2>1
<1> DEFINE Down(s) == \A g \in s : Earlier(g) \subseteq s
           least(a, b) == IF a <= b THEN a ELSE b
           P == {s \in SUBSET Ours : Down(s) => Total(D, s) = least(needed, Total(Left, s))}
<1>1. ASSUME NEW T \in SUBSET Ours, \A U \in SUBSET T : U # T => U \in P PROVE T \in P
  <2> SUFFICES ASSUME Down(T) PROVE Total(D, T) = least(needed, Total(Left, T))
    OBVIOUS
  <2>1. CASE T = {}
    BY <2>1, TotalEmpty
  <2>2. CASE T # {}
    <3>0. IsFiniteSet(T) /\ T \in SUBSET DOMAIN grants
      BY GrantFacts, FS_Subset
    <3>1. PICK m \in T : \A h \in T : h # m => Before(h, m)
      BY <2>2, <3>0, LastGrant
    <3> DEFINE R == T \ {m}
    <3>2. Earlier(m) = R
      <4>1. \A h \in DOMAIN grants : h \in Earlier(m) <=> Usable(h) /\ Before(h, m)
        BY DEF Earlier, Before
      <4>2. ~Before(m, m)
        BY <3>0, GrantFacts DEF Before
      <4>3. \A h \in T : Usable(h)
        BY DEF Ours
      <4>4. \A h \in T : h \in Earlier(m) <=> h # m
        BY <3>0, <3>1, <4>1, <4>2, <4>3
      <4>5. QED
        BY <3>1, <4>4
    <3>3. Down(R)
      <4>1. ASSUME NEW g \in R PROVE m \notin Earlier(g)
        <5>1. Before(g, m)
          BY <3>1
        <5>2. ~Before(m, g)
          BY <3>0, <5>1, GrantFacts DEF Before
        <5>3. QED
          BY <5>2 DEF Earlier, Before
      <4>2. QED
        BY <4>1
    <3>4. R \in P
      BY <1>1, <3>1
    <3>5. Total(D, R) = least(needed, Total(Left, R))
      BY <3>3, <3>4
    <3>6. m \in DOMAIN grants /\ Usable(m)
      BY <3>0 DEF Ours
    <3>7. \A x \in T : D[x] \in Int /\ Left[x] \in Int
      BY <1>0, <3>0, GrantFacts
    <3>8. Total(D, T) = D[m] + Total(D, R)
      BY <3>0, <3>7, TotalRemove
    <3>9. Total(Left, T) = Left[m] + Total(Left, R)
      BY <3>0, <3>7, TotalRemove
    <3>10. Total(Left, R) \in Nat
      BY <3>2, <3>6, DeductFacts
    <3>11. LET rest == needed - Total(Left, R)
           IN  D[m] = IF rest <= 0 THEN 0 ELSE IF Left[m] <= rest THEN Left[m] ELSE rest
      BY <3>2, <3>6, DeductFacts, GrantFacts
    <3>12. Left[m] \in Nat
      BY <3>6, GrantFacts
    <3> HIDE DEF R
    <3>13. QED
      BY <3>5, <3>8, <3>9, <3>10, <3>11, <3>12
  <2>3. QED
    BY <2>1, <2>2
<1>2. Down(Ours)
  BY DEF Earlier, Ours
<1>3. IsFiniteSet(Ours)
  BY GrantFacts
<1>4. Ours \in P
  <2> HIDE DEF P
  <2>1. QED
    BY <1>1, <1>3, SetInduction
<1>5. Total(D, Ours) = least(needed, Total(Left, Ours))
  BY <1>2, <1>4
<1>6. Total(D, Ours) = Total(D, DOMAIN grants)
  <2>1. /\ \A x \in Ours : D[x] \in Int /\ D[x] = D[x]
        /\ \A x \in DOMAIN grants \ Ours : D[x] = 0
        /\ IsFiniteSet(DOMAIN grants) /\ Ours \in SUBSET DOMAIN grants
    BY <1>0, GrantFacts DEF Ours
  <2>2. QED
    BY <2>1, TotalFilter
<1>7. QED
  BY <1>5, <1>6 DEF Extra, Ours

\* What the grants have given.
Spent(gs) == [g \in DOMAIN gs |-> GrantAmount - gs[g].left]

LEMMA ExtraNeededFacts ==
    ASSUME NEW p \in PlanRows, NEW amount \in Nat
    PROVE  /\ ExtraNeeded(p, amount) \in Nat /\ ExtraNeeded(p, amount) <= amount
           /\ ExtraNeeded(p, amount) > 0 => p.used + (amount - ExtraNeeded(p, amount)) >= Limit
           /\ amount > 0 /\ p.used >= Limit => ExtraNeeded(p, amount) = amount
           /\ ExtraNeeded(p, amount) < amount => p.used + (amount - ExtraNeeded(p, amount)) <= Limit
<1> DEFINE r == Limit - p.used
           k == Min({amount, r})
<1>1. r \in Int /\ p.used \in Nat /\ Limit \in Nat
  BY Constants DEF PlanRows
<1>2. ExtraNeeded(p, amount) = amount - Max({0, k})
  BY DEF ExtraNeeded
<1>3. k = IF amount <= r THEN amount ELSE r
  BY <1>1, MinTwo
<1>4. k \in Int
  BY <1>1, <1>3
<1>5. Max({0, k}) = IF 0 <= k THEN k ELSE 0
  BY <1>4, MaxTwo
<1>6. p.used + r = Limit
  BY <1>1
<1> HIDE DEF k, r
<1>7. QED
  BY <1>1, <1>2, <1>3, <1>4, <1>5, <1>6

\* Grants after some of them were drawn.
LEMMA ConsumedGrantsFacts ==
    ASSUME GrantsOK, NEW p \in PlanRows, NEW amount \in Nat,
           NEW gs, gs = ConsumedGrants(p, amount),
           NEW needed, needed = ExtraNeeded(p, amount)
    PROVE  /\ gs \in Seq(GrantRows) /\ Len(gs) = Len(grants) /\ DOMAIN gs = DOMAIN grants
           /\ \A g \in DOMAIN grants : gs[g].expires = grants[g].expires /\ gs[g].left <= grants[g].left
           /\ needed = 0 => gs = grants
           /\ needed >= Extra => \A g \in Ours : gs[g].left = 0
           /\ Total(Spent(gs), DOMAIN gs)
                = Total(Spent(grants), DOMAIN grants) + (IF needed <= Extra THEN needed ELSE Extra)
<1>1. needed \in Nat
  BY ExtraNeededFacts
<1> DEFINE D == [g \in DOMAIN grants |-> Deduct(g, needed)]
<1>2. ASSUME NEW g \in DOMAIN grants
      PROVE  /\ D[g] \in Nat /\ D[g] <= grants[g].left
             /\ needed >= Extra /\ Usable(g) => D[g] = grants[g].left
             /\ needed = 0 => D[g] = 0
  <2> DEFINE e == Total(Left, Earlier(g))
             l == grants[g].left
  <2>1. D[g] = Deduct(g, needed)
    OBVIOUS
  <2>2. /\ e \in Nat /\ Deduct(g, needed) \in Nat /\ Deduct(g, needed) <= l
        /\ ~Usable(g) => Deduct(g, needed) = 0
        /\ Usable(g) => Deduct(g, needed) = IF needed - e <= 0 THEN 0
                                            ELSE IF l <= needed - e THEN l ELSE needed - e
    BY <1>1, DeductFacts
  <2>3. l \in Nat
    BY GrantFacts
  <2>4. Usable(g) => e + l <= Extra
    <3> SUFFICES ASSUME Usable(g) PROVE e + l <= Extra
      OBVIOUS
    <3>1. g \notin Earlier(g) /\ Earlier(g) \cup {g} \in SUBSET Ours
      BY GrantFacts DEF Earlier, Ours
    <3>2. IsFiniteSet(Ours) /\ \A x \in Ours : Left[x] \in Nat
      BY GrantFacts
    <3>3. IsFiniteSet(Earlier(g))
      BY <3>1, <3>2, FS_Subset
    <3>4. Left[g] \in Int /\ \A y \in Earlier(g) : Left[y] \in Int /\ Left[y] = Left[y]
      BY <3>1, <3>2
    <3>5. Total(Left, Earlier(g) \cup {g}) = e + Left[g]
      BY <3>1, <3>3, <3>4, TotalAdd
    <3>6. Total(Left, Earlier(g) \cup {g}) <= Total(Left, Ours)
      BY <3>1, <3>2, TotalSubset
    <3>7. Left[g] = l
      BY DEF Left
    <3>8. Total(Left, Ours) = Extra
      BY DEF Extra, Ours
    <3>9. QED
      BY <3>5, <3>6, <3>7, <3>8
  <2>5. Extra \in Nat
    BY GrantFacts
  <2> HIDE DEF D, e
  <2>6. QED
    BY <1>1, <2>1, <2>2, <2>3, <2>4, <2>5
<1>3. gs = IF needed = 0 THEN grants ELSE [g \in DOMAIN grants |-> [grants[g] EXCEPT !.left = @ - D[g]]]
  BY DEF ConsumedGrants
<1>4. ASSUME NEW g \in DOMAIN grants
      PROVE  gs[g] \in GrantRows /\ gs[g].expires = grants[g].expires /\ gs[g].left = grants[g].left - D[g]
  <2>1. grants[g] \in GrantRows /\ grants[g].left \in Nat
    BY GrantFacts
  <2> HIDE DEF D
  <2>2. CASE needed = 0
    <3>1. gs[g] = grants[g] /\ D[g] = 0
      BY <1>2, <1>3, <2>2
    <3>2. QED
      BY <2>1, <3>1
  <2>3. CASE needed # 0
    <3>1. gs[g] = [grants[g] EXCEPT !.left = @ - D[g]]
      BY <1>3, <2>3
    <3>2. D[g] \in Nat /\ D[g] <= grants[g].left
      BY <1>2
    <3>3. QED
      BY <2>1, <3>1, <3>2 DEF GrantRows
  <2>4. QED
    BY <2>2, <2>3
<1>5. /\ DOMAIN gs = DOMAIN grants /\ gs \in Seq(GrantRows) /\ Len(gs) = Len(grants)
  <2>1. DOMAIN grants = 1..Len(grants) /\ Len(grants) \in Nat
    BY GrantFacts
  <2>2. gs = [g \in DOMAIN grants |-> gs[g]]
    BY <1>3 DEF GrantsOK
  <2>3. gs \in [1..Len(grants) -> GrantRows]
    BY <1>4, <2>1, <2>2
  <2>4. QED
    BY <2>1, <2>3
<1>6. Total(D, DOMAIN grants) = IF needed <= Extra THEN needed ELSE Extra
  <2>1. \A g \in DOMAIN grants : D[g] = Deduct(g, needed)
    OBVIOUS
  <2> HIDE DEF D
  <2>2. QED
    BY <1>1, <2>1, DeductTotal
<1> HIDE DEF D
<1>7. Total(Spent(gs), DOMAIN gs) = Total(Spent(grants), DOMAIN grants) + Total(D, DOMAIN grants)
  <2>1. ASSUME NEW g \in DOMAIN grants
        PROVE  /\ Spent(grants)[g] \in Int /\ D[g] \in Int
               /\ Spent(gs)[g] = Spent(grants)[g] + D[g]
    <3>1. grants[g].left \in Nat /\ D[g] \in Nat /\ GrantAmount \in Nat
      BY <1>2, GrantFacts, Constants
    <3>2. Spent(gs)[g] = GrantAmount - gs[g].left /\ Spent(grants)[g] = GrantAmount - grants[g].left
      BY <1>5 DEF Spent
    <3>3. QED
      BY <1>4, <3>1, <3>2
  <2>2. IsFiniteSet(DOMAIN grants)
    BY GrantFacts
  <2> DEFINE f == Spent(grants)
             h == Spent(gs)
  <2>3. \A g \in DOMAIN grants : f[g] \in Int /\ D[g] \in Int /\ h[g] = f[g] + D[g]
    BY <2>1
  <2> HIDE DEF f, h
  <2>4. Total(h, DOMAIN grants) = Total(f, DOMAIN grants) + Total(D, DOMAIN grants)
    BY <2>2, <2>3, TotalPlus
  <2>5. QED
    BY <1>5, <2>4 DEF f, h
<1>8. \A g \in DOMAIN grants : gs[g].expires = grants[g].expires /\ gs[g].left <= grants[g].left
  <2> TAKE g \in DOMAIN grants
  <2>1. grants[g].left \in Nat /\ D[g] \in Nat
    BY <1>2, GrantFacts
  <2>2. QED
    BY <1>4, <2>1
<1>9. needed >= Extra => \A g \in Ours : gs[g].left = 0
  <2> SUFFICES ASSUME needed >= Extra, NEW g \in Ours PROVE gs[g].left = 0
    OBVIOUS
  <2>1. g \in DOMAIN grants /\ Usable(g)
    BY DEF Ours
  <2>2. grants[g].left \in Nat /\ D[g] = grants[g].left
    BY <1>2, <2>1, GrantFacts
  <2>3. QED
    BY <1>4, <2>1, <2>2
<1>10. QED
  BY <1>3, <1>5, <1>6, <1>7, <1>8, <1>9

\* The plan after a charge.
LEMMA ConsumedPlanFacts ==
    ASSUME GrantsOK, NEW p \in PlanRows, NEW amount \in Nat,
           NEW q, q = ConsumedPlan(p, amount),
           NEW needed, needed = ExtraNeeded(p, amount)
    PROVE  /\ q \in PlanRows
           /\ q.start = p.start /\ q.end = p.end /\ q.patience = p.patience
           /\ q.grace = p.grace /\ q.warn80 = p.warn80 /\ q.warn100 = p.warn100
           /\ q.used = p.used + (amount - needed)
           /\ q.overage = p.overage + (IF needed <= Extra THEN 0 ELSE needed - Extra)
           /\ amount = 0 => q = p
<1>1. /\ needed \in Nat /\ needed <= amount /\ Extra \in Nat
      /\ p.used \in Nat /\ p.overage \in Nat
  BY ExtraNeededFacts, GrantFacts DEF PlanRows
<1>2. Max({0, needed - Extra}) = IF needed <= Extra THEN 0 ELSE needed - Extra
  <2>1. Max({0, needed - Extra}) = IF 0 <= needed - Extra THEN needed - Extra ELSE 0
    BY <1>1, MaxTwo
  <2>2. QED
    BY <1>1, <2>1
<1> DEFINE o == Max({0, needed - Extra})
<1>3. q = IF amount = 0 THEN p ELSE [p EXCEPT !.used = @ + (amount - needed), !.overage = @ + o]
  BY DEF ConsumedPlan
<1>4. o \in Nat
  BY <1>1, <1>2
<1> HIDE DEF o
<1>5. CASE amount = 0
  <2>1. needed = 0 /\ o = 0
    BY <1>1, <1>2, <1>5 DEF o
  <2>2. q = p
    BY <1>3, <1>5
  <2>3. QED
    BY <1>1, <1>5, <2>1, <2>2
<1>6. CASE amount # 0
  <2>1. q = [p EXCEPT !.used = @ + (amount - needed), !.overage = @ + o]
    BY <1>3, <1>6
  <2>2. /\ q.used = p.used + (amount - needed)
        /\ q.overage = p.overage + o
        /\ q.start = p.start /\ q.end = p.end /\ q.patience = p.patience
        /\ q.grace = p.grace /\ q.warn80 = p.warn80 /\ q.warn100 = p.warn100
    BY <2>1 DEF PlanRows
  <2>3. p.used + (amount - needed) \in Nat /\ p.overage + o \in Nat
    BY <1>1, <1>4
  <2>4. q \in PlanRows
    BY <2>1, <2>3 DEF PlanRows
  <2>5. QED
    BY <1>2, <1>6, <2>2, <2>4 DEF o
<1>7. QED
  BY <1>5, <1>6

\* What is charged arrives: in the month's credits, in the grants or as overage.
LEMMA Conservation ==
    ASSUME GrantsOK, NEW p \in PlanRows, NEW amount \in Nat,
           NEW q, q = ConsumedPlan(p, amount), NEW gs, gs = ConsumedGrants(p, amount)
    PROVE  q.used + q.overage + Total(Spent(gs), DOMAIN gs)
             = p.used + p.overage + Total(Spent(grants), DOMAIN grants) + amount
<1> DEFINE needed == ExtraNeeded(p, amount)
           a == Total(Spent(gs), DOMAIN gs)
           b == Total(Spent(grants), DOMAIN grants)
<1>1. needed \in Nat /\ Extra \in Nat /\ p.used \in Nat /\ p.overage \in Nat
  BY ExtraNeededFacts, GrantFacts DEF PlanRows
<1>2. a = b + (IF needed <= Extra THEN needed ELSE Extra)
  BY ConsumedGrantsFacts
<1>3. /\ q.used = p.used + (amount - needed)
      /\ q.overage = p.overage + (IF needed <= Extra THEN 0 ELSE needed - Extra)
  BY ConsumedPlanFacts
<1>4. b \in Int
  <2>1. \A g \in DOMAIN grants : Spent(grants)[g] \in Int
    <3> TAKE g \in DOMAIN grants
    <3>1. grants[g].left \in Nat /\ GrantAmount \in Nat
      BY GrantFacts, Constants
    <3>2. QED
      BY <3>1 DEF Spent
  <2>2. QED
    BY <2>1, GrantFacts, TotalInt
<1> HIDE DEF needed, a, b
<1>5. q.used + q.overage + a = p.used + p.overage + b + amount
  BY <1>1, <1>2, <1>3, <1>4
<1>6. QED
  BY <1>5 DEF a, b

-----------------------------------------------------------------------------
(* Rows, and tables of rows.                                               *)

LEMMA MergedSession ==
    ASSUME NEW r \in SessionRows, NEW l \in SessionRows, NEW c \in SessionRows,
           NEW m, m = Merge(r, l, c)
    PROVE  /\ m \in SessionRows
           /\ m.sandbox = IF c.sandbox # l.sandbox THEN c.sandbox ELSE r.sandbox
           /\ m.open = IF c.open # l.open THEN c.open ELSE r.open
           /\ m.started = IF c.started # l.started THEN c.started ELSE r.started
           /\ m.last = IF c.last # l.last THEN c.last ELSE r.last
           /\ m.hours = IF c.hours # l.hours THEN c.hours ELSE r.hours
<1>1. DOMAIN r = {"sandbox", "open", "started", "last", "hours"}
  BY DEF SessionRows
<1>2. m = [f \in {"sandbox", "open", "started", "last", "hours"} |-> IF c[f] # l[f] THEN c[f] ELSE r[f]]
  BY <1>1 DEF Merge
<1>3. /\ m.sandbox = IF c.sandbox # l.sandbox THEN c.sandbox ELSE r.sandbox
      /\ m.open = IF c.open # l.open THEN c.open ELSE r.open
      /\ m.started = IF c.started # l.started THEN c.started ELSE r.started
      /\ m.last = IF c.last # l.last THEN c.last ELSE r.last
      /\ m.hours = IF c.hours # l.hours THEN c.hours ELSE r.hours
  BY <1>2
<1>4. m \in SessionRows
  <2>1. m.sandbox \in Sandboxes /\ m.open \in BOOLEAN /\ m.started \in Nat /\ m.last \in Nat /\ m.hours \in Nat
    BY <1>3 DEF SessionRows
  <2>2. m = [sandbox |-> m.sandbox, open |-> m.open, started |-> m.started, last |-> m.last, hours |-> m.hours]
    BY <1>2
  <2>3. QED
    BY <2>1, <2>2 DEF SessionRows
<1>5. QED
  BY <1>3, <1>4

LEMMA MergedPlan ==
    ASSUME NEW r \in PlanRows, NEW l \in PlanRows, NEW c \in PlanRows,
           NEW m, m = Merge(r, l, c)
    PROVE  /\ m \in PlanRows
           /\ m.used = IF c.used # l.used THEN c.used ELSE r.used
           /\ m.overage = IF c.overage # l.overage THEN c.overage ELSE r.overage
           /\ m.start = IF c.start # l.start THEN c.start ELSE r.start
           /\ m.end = IF c.end # l.end THEN c.end ELSE r.end
           /\ m.patience = IF c.patience # l.patience THEN c.patience ELSE r.patience
           /\ m.grace = IF c.grace # l.grace THEN c.grace ELSE r.grace
           /\ m.warn80 = IF c.warn80 # l.warn80 THEN c.warn80 ELSE r.warn80
           /\ m.warn100 = IF c.warn100 # l.warn100 THEN c.warn100 ELSE r.warn100
           /\ l = r => m = c
<1> DEFINE F == {"used", "overage", "start", "end", "patience", "grace", "warn80", "warn100"}
<1>1. DOMAIN r = F /\ DOMAIN c = F
  BY DEF PlanRows
<1>2. m = [f \in F |-> IF c[f] # l[f] THEN c[f] ELSE r[f]]
  BY <1>1 DEF Merge
<1>3. /\ m.used = IF c.used # l.used THEN c.used ELSE r.used
      /\ m.overage = IF c.overage # l.overage THEN c.overage ELSE r.overage
      /\ m.start = IF c.start # l.start THEN c.start ELSE r.start
      /\ m.end = IF c.end # l.end THEN c.end ELSE r.end
      /\ m.patience = IF c.patience # l.patience THEN c.patience ELSE r.patience
      /\ m.grace = IF c.grace # l.grace THEN c.grace ELSE r.grace
      /\ m.warn80 = IF c.warn80 # l.warn80 THEN c.warn80 ELSE r.warn80
      /\ m.warn100 = IF c.warn100 # l.warn100 THEN c.warn100 ELSE r.warn100
  BY <1>2
<1>4. m \in PlanRows
  <2>1. /\ m.used \in Nat /\ m.overage \in Nat /\ m.start \in Nat /\ m.end \in Nat /\ m.patience \in Nat
        /\ m.grace \in Nat \cup {None} /\ m.warn80 \in BOOLEAN /\ m.warn100 \in BOOLEAN
    BY <1>3 DEF PlanRows
  <2>2. m = [used |-> m.used, overage |-> m.overage, start |-> m.start, end |-> m.end,
             patience |-> m.patience, grace |-> m.grace, warn80 |-> m.warn80, warn100 |-> m.warn100]
    BY <1>2
  <2>3. QED
    BY <2>1, <2>2 DEF PlanRows
<1>5. l = r => m = c
  <2> SUFFICES ASSUME l = r PROVE m = c
    OBVIOUS
  <2>1. m = [f \in F |-> c[f]]
    BY <1>2
  <2>2. c = [f \in F |-> c[f]]
    BY <1>1 DEF PlanRows
  <2>3. QED
    BY <2>1, <2>2
<1>6. QED
  BY <1>3, <1>4, <1>5

LEMMA ResetPlanFacts ==
    ASSUME NEW p \in PlanRows
    PROVE  /\ ResetPlan(p) \in PlanRows
           /\ ResetPlan(p) = [used |-> 0, overage |-> 0, start |-> p.end, end |-> p.end + PeriodLength,
                              patience |-> p.patience, grace |-> None, warn80 |-> FALSE, warn100 |-> FALSE]
           /\ p.end \in Nat /\ p.end < ResetPlan(p).end
<1>1. p.end \in Nat /\ p.patience \in Nat /\ PeriodLength \in Nat /\ PeriodLength > 0
  BY Constants DEF PlanRows
<1>2. ResetPlan(p) = [used |-> 0, overage |-> 0, start |-> p.end, end |-> p.end + PeriodLength,
                      patience |-> p.patience, grace |-> None, warn80 |-> FALSE, warn100 |-> FALSE]
  <2> DEFINE n == NewPlan(p.patience)
  <2>1. n = [used |-> 0, overage |-> 0, start |-> 0, end |-> PeriodLength,
             patience |-> p.patience, grace |-> None, warn80 |-> FALSE, warn100 |-> FALSE]
    BY Zenon DEF NewPlan
  <2>2. ResetPlan(p) = [n EXCEPT !.start = p.end, !.end = p.end + PeriodLength]
    BY DEF ResetPlan
  <2> HIDE DEF n
  <2>3. QED
    BY <2>1, <2>2
<1>3. ResetPlan(p) \in PlanRows
  BY <1>1, <1>2 DEF PlanRows
<1>4. QED
  BY <1>1, <1>2, <1>3

-----------------------------------------------------------------------------
(* reset_monthly_credits: what the rounds of its loop keep.                *)

\* What the step has read.
RollOK ==
    /\ tick.cs \in Seq(SessionRows) /\ tick.plan \in PlanRows /\ tick.ready \in SUBSET Sandboxes
    /\ now \in Nat /\ \A i \in DOMAIN tick.cs : tick.cs[i].last <= now
    /\ tick.plan.end <= now

Rounds == [cs: Seq(SessionRows), plan: PlanRows, list: Seq(Nat), next: Seq(Nat)]

\* A plan that was reset.
Fresh(p) == tick.plan.end <= p.start /\ p.start < p.end /\ p.used = 0 /\ p.overage = 0 /\ p.grace = None

RoundOK(w) ==
    /\ w \in Rounds
    /\ Len(tick.cs) <= Len(w.cs)
    /\ \A i \in DOMAIN w.cs : w.cs[i].last <= now
    /\ \A k \in DOMAIN w.list : w.list[k] \in DOMAIN w.cs
    /\ \A k \in DOMAIN w.next : w.next[k] \in DOMAIN w.cs
    /\ tick.plan.end <= w.plan.end
    /\ w.plan = tick.plan \/ Fresh(w.plan)

LEMMA RolloverOK ==
    ASSUME RollOK, NEW w, RoundOK(w), NEW i \in DOMAIN w.cs
    PROVE  /\ RoundOK(Rollover(w, i)) /\ Rollover(w, i).list = w.list
           /\ Len(w.cs) <= Len(Rollover(w, i).cs)
           /\ w.plan.end <= Rollover(w, i).plan.end
           /\ w.plan # tick.plan => Rollover(w, i).plan # tick.plan
<1> DEFINE v == Rollover(w, i)
           c == w.cs[i]
           b == w.plan.end
           d == [c EXCEPT !.open = FALSE, !.last = b, !.hours = @ + Max({0, b - c.last})]
           split == [w.cs EXCEPT ![i] = d]
<1>1. CASE ~c.open \/ now <= b
  <2>1. v = w
    BY <1>1 DEF Rollover
  <2>2. w.plan.end \in Nat
    BY DEF RoundOK, Rounds, PlanRows
  <2>3. Len(w.cs) \in Nat
    BY DEF RoundOK, Rounds
  <2>4. QED
    BY <2>1, <2>2, <2>3
<1>2. CASE c.open /\ ~(now <= b)
  <2>1. w.cs \in Seq(SessionRows) /\ w.plan \in PlanRows /\ c \in SessionRows /\ w.next \in Seq(Nat) /\ w.list \in Seq(Nat)
    BY DEF RoundOK, Rounds
  <2>2. b \in Nat /\ now \in Nat /\ b < now /\ c.last \in Nat /\ c.hours \in Nat /\ c.sandbox \in Sandboxes
    <3>1. b \in Nat
      BY <2>1 DEF PlanRows
    <3>2. now \in Nat
      BY DEF RollOK
    <3> HIDE DEF c, b
    <3>3. c.last \in Nat /\ c.hours \in Nat /\ c.sandbox \in Sandboxes
      BY <2>1 DEF SessionRows
    <3>4. QED
      BY <1>2, <3>1, <3>2, <3>3
  <2>3. Max({0, b - c.last}) \in Nat
    <3>1. Max({0, b - c.last}) = IF 0 <= b - c.last THEN b - c.last ELSE 0
      BY <2>2, MaxTwo
    <3>2. QED
      BY <2>2, <3>1
  <2>4. d \in SessionRows /\ d.last = b
    <3> DEFINE h == Max({0, b - c.last})
    <3>1. h \in Nat
      BY <2>3
    <3>2. d = [c EXCEPT !.open = FALSE, !.last = b, !.hours = @ + h]
      OBVIOUS
    <3> HIDE DEF c, b, h, d
    <3>3. c.hours + h \in Nat
      BY <2>2, <3>1
    <3>4. c \in SessionRows /\ b \in Nat
      BY <2>1, <2>2
    <3>5. QED
      BY <3>2, <3>3, <3>4 DEF SessionRows
  <2> HIDE DEF d
  <2>5. /\ split \in Seq(SessionRows) /\ Len(split) = Len(w.cs) /\ DOMAIN split = DOMAIN w.cs
        /\ \A j \in DOMAIN w.cs : split[j] = IF j = i THEN d ELSE w.cs[j]
    BY <2>1, <2>4
  <2>6. \A j \in DOMAIN split : split[j].last <= now
    BY <2>2, <2>4, <2>5 DEF RoundOK
  <2>7. /\ ResetPlan(w.plan) \in PlanRows /\ ResetPlan(w.plan).start = b
        /\ b < ResetPlan(w.plan).end /\ ResetPlan(w.plan).end \in Nat
    <3>1. ResetPlan(w.plan) \in PlanRows
      BY <2>1, ResetPlanFacts
    <3>2. ResetPlan(w.plan).start = b
      BY <2>1, ResetPlanFacts
    <3>3. b < ResetPlan(w.plan).end
      BY <2>1, ResetPlanFacts
    <3>4. ResetPlan(w.plan).end \in Nat
      BY <3>1 DEF PlanRows
    <3>5. QED
      BY <3>1, <3>2, <3>3, <3>4
  <2>8. tick.plan.end <= b /\ tick.plan.end \in Nat
    BY DEF RoundOK, RollOK, PlanRows
  <2> DEFINE p == ResetPlan(w.plan)
  <2>9. /\ tick.plan.end <= p.end /\ Fresh(p) /\ p \in PlanRows
        /\ b <= p.end /\ p # tick.plan
    <3>1. p.used = 0 /\ p.overage = 0 /\ p.grace = None
      BY <2>1, ResetPlanFacts
    <3> HIDE DEF p
    <3>2. p \in PlanRows /\ p.start = b /\ b < p.end /\ p.end \in Nat
      BY <2>7 DEF p
    <3>3. QED
      BY <2>2, <2>8, <3>1, <3>2 DEF Fresh
  <2> HIDE DEF split, p
  <2>10. CASE c.sandbox \in tick.ready
    <3> DEFINE e == NewSession(c.sandbox, b)
               t == Append(split, e)
               x == Append(w.next, Len(split) + 1)
    <3>1. v = [cs |-> t, plan |-> p, list |-> w.list, next |-> x]
      BY <1>2, <2>10 DEF Rollover, split, d, p
    <3>2. e \in SessionRows /\ e.last = b
      BY <2>2 DEF NewSession, SessionRows
    <3> HIDE DEF e
    <3>3. /\ t \in Seq(SessionRows) /\ Len(t) = Len(w.cs) + 1 /\ Len(w.cs) \in Nat
          /\ DOMAIN t = 1..(Len(w.cs) + 1) /\ DOMAIN w.cs = 1..Len(w.cs)
          /\ \A j \in DOMAIN t : t[j] = IF j \in DOMAIN w.cs THEN split[j] ELSE e
      <4>1. Len(split) = Len(w.cs) /\ Len(w.cs) \in Nat /\ DOMAIN w.cs = 1..Len(w.cs) /\ DOMAIN split = 1..Len(w.cs)
        BY <2>1, <2>5
      <4>2. t \in Seq(SessionRows) /\ Len(t) = Len(split) + 1
        BY <2>5, <3>2
      <4>3. DOMAIN t = 1..(Len(split) + 1)
        BY <4>2
      <4>4. \A j \in 1..(Len(split) + 1) : t[j] = IF j <= Len(split) THEN split[j] ELSE e
        BY <2>5, <3>2
      <4>5. QED
        BY <4>1, <4>2, <4>3, <4>4
    <3>4. x \in Seq(Nat) /\ \A k \in DOMAIN x : x[k] \in DOMAIN t
      <4>1. /\ x \in Seq(Nat) /\ DOMAIN x = 1..(Len(w.next) + 1) /\ DOMAIN w.next = 1..Len(w.next)
            /\ \A k \in DOMAIN x : x[k] = IF k \in DOMAIN w.next THEN w.next[k] ELSE Len(w.cs) + 1
        <5> DEFINE z == w.next
                   y == Len(split) + 1
        <5>1. z \in Seq(Nat) /\ y \in Nat /\ y = Len(w.cs) + 1 /\ x = Append(z, y)
          BY <2>1, <2>5, <3>3
        <5> HIDE DEF z, y, x
        <5>2. /\ x \in Seq(Nat) /\ DOMAIN x = 1..(Len(z) + 1) /\ DOMAIN z = 1..Len(z)
              /\ \A k \in DOMAIN x : x[k] = IF k \in DOMAIN z THEN z[k] ELSE y
          BY <5>1
        <5>3. QED
          BY <5>1, <5>2 DEF z
      <4>2. \A k \in DOMAIN w.next : w.next[k] \in DOMAIN w.cs
        BY DEF RoundOK
      <4>3. Len(w.cs) + 1 \in DOMAIN t /\ \A j \in DOMAIN w.cs : j \in DOMAIN t
        BY <3>3
      <4> HIDE DEF t, x
      <4>4. QED
        BY <4>1, <4>2, <4>3
    <3>5. \A j \in DOMAIN t : t[j].last <= now
      BY <2>2, <2>5, <2>6, <3>2, <3>3
    <3>6. \A k \in DOMAIN w.list : w.list[k] \in DOMAIN t
      BY <3>3 DEF RoundOK
    <3>7. Len(tick.cs) <= Len(t)
      BY <3>3 DEF RoundOK, RollOK
    <3> HIDE DEF t, x, v
    <3>8. RoundOK(v)
      BY <2>1, <2>9, <3>1, <3>3, <3>4, <3>5, <3>6, <3>7 DEF RoundOK, Rounds
    <3>9. v.list = w.list /\ Len(w.cs) <= Len(v.cs) /\ b <= v.plan.end /\ v.plan # tick.plan
      BY <2>9, <3>1, <3>3
    <3>10. QED
      BY <3>8, <3>9 DEF v
  <2>11. CASE c.sandbox \notin tick.ready
    <3>1. v = [w EXCEPT !.cs = split, !.plan = p]
      BY <1>2, <2>11 DEF Rollover, split, d, p
    <3>2. v.cs = split /\ v.plan = p /\ v.list = w.list /\ v.next = w.next /\ v \in Rounds
      BY <2>5, <2>9, <3>1 DEF RoundOK, Rounds
    <3> HIDE DEF v
    <3>3. RoundOK(v)
      BY <2>5, <2>6, <2>9, <3>2 DEF RoundOK
    <3>4. Len(w.cs) <= Len(v.cs)
      BY <2>1, <2>5, <3>2
    <3>5. QED
      BY <2>9, <3>2, <3>3, <3>4 DEF v
  <2>12. QED
    BY <2>10, <2>11
<1>3. QED
  BY <1>1, <1>2

IsRollovers(r, w, n) ==
    r = [k \in 0..n |-> IF k = 0 THEN [w EXCEPT !.next = <<>>] ELSE Rollover(r[k - 1], w.list[k])]

LEMMA RolloversExist ==
    ASSUME NEW w, NEW n \in Nat
    PROVE  \E r : IsRollovers(r, w, n)
<1> DEFINE P == {m \in Nat : \E r : IsRollovers(r, w, m)}
           first == [w EXCEPT !.next = <<>>]
<1>1. 0 \in P
  <2> DEFINE r == [k \in 0..0 |-> first]
  <2>1. r = [k \in 0..0 |-> IF k = 0 THEN first ELSE Rollover(r[k - 1], w.list[k])]
    <3> HIDE DEF first
    <3>1. QED
      OBVIOUS
  <2> HIDE DEF r
  <2>2. IsRollovers(r, w, 0)
    BY <2>1 DEF IsRollovers
  <2>3. QED
    BY <2>2
<1>2. ASSUME NEW m \in Nat, m \in P PROVE m + 1 \in P
  <2>1. PICK r : IsRollovers(r, w, m)
    BY <1>2
  <2> DEFINE last == Rollover(r[m], w.list[m + 1])
             q == [k \in 0..(m + 1) |-> IF k <= m THEN r[k] ELSE last]
  <2>2. \A k \in 0..m : r[k] = IF k = 0 THEN first ELSE Rollover(r[k - 1], w.list[k])
    BY <2>1 DEF IsRollovers
  <2>3. \A k \in 0..(m + 1) : q[k] = IF k = 0 THEN first ELSE Rollover(q[k - 1], w.list[k])
    <3> SUFFICES ASSUME NEW k \in 0..(m + 1) PROVE q[k] = IF k = 0 THEN first ELSE Rollover(q[k - 1], w.list[k])
      OBVIOUS
    <3>1. CASE k <= m
      <4>1. q[k] = r[k] /\ (k # 0 => q[k - 1] = r[k - 1]) /\ k \in 0..m
        <5> HIDE DEF last
        <5>1. QED
          BY <3>1
      <4> HIDE DEF q, first
      <4>2. QED
        BY <2>2, <4>1
    <3>2. CASE k = m + 1
      <4>1. q[k] = last /\ q[k - 1] = r[m] /\ k # 0
        <5> HIDE DEF last
        <5>1. QED
          BY <3>2
      <4> HIDE DEF q
      <4>2. QED
        BY <3>2, <4>1
    <3>3. QED
      BY <3>1, <3>2
  <2>4. q = [k \in 0..(m + 1) |-> IF k = 0 THEN first ELSE Rollover(q[k - 1], w.list[k])]
    <3>1. q = [k \in 0..(m + 1) |-> q[k]]
      <4> HIDE DEF last
      <4>1. QED
        OBVIOUS
    <3> HIDE DEF q, first
    <3>2. QED
      BY <2>3, <3>1
  <2> HIDE DEF q
  <2>5. IsRollovers(q, w, m + 1)
    BY <2>4 DEF IsRollovers
  <2>6. QED
    BY <2>5
<1> HIDE DEF P
<1>3. n \in P
  BY <1>1, <1>2, NatInduction1
<1>4. QED
  BY <1>3 DEF P

LEMMA RolloversOK ==
    ASSUME RollOK, NEW w, RoundOK(w)
    PROVE  LET v == Rollovers(w)
           IN  RoundOK(v) /\ w.plan.end <= v.plan.end /\ (w.plan # tick.plan => v.plan # tick.plan)
<1> DEFINE n == Len(w.list)
           r == CHOOSE x : IsRollovers(x, w, n)
           first == [w EXCEPT !.next = <<>>]
<1>1. n \in Nat /\ DOMAIN w.list = 1..n /\ w.plan.end \in Nat /\ Len(w.cs) \in Nat
  <2>1. w.list \in Seq(Nat) /\ w.plan \in PlanRows /\ w.cs \in Seq(SessionRows)
    BY DEF RoundOK, Rounds
  <2>2. QED
    BY <2>1 DEF PlanRows
<1>2. Rollovers(w) = r[n]
  BY DEF Rollovers, IsRollovers
<1>3. IsRollovers(r, w, n)
  BY <1>1, RolloversExist
<1> HIDE DEF r, n
<1>4. \A k \in 0..n : r[k] = IF k = 0 THEN first ELSE Rollover(r[k - 1], w.list[k])
  BY <1>3 DEF IsRollovers
<1> DEFINE Good(v) == /\ RoundOK(v) /\ v.list = w.list /\ Len(w.cs) <= Len(v.cs)
                      /\ w.plan.end <= v.plan.end
                      /\ w.plan # tick.plan => v.plan # tick.plan
           P == {k \in Nat : k <= n => Good(r[k])}
<1>5. Good(first)
  <2>1. w \in Rounds
    BY DEF RoundOK
  <2>2. first.cs = w.cs /\ first.plan = w.plan /\ first.list = w.list /\ first.next = <<>>
    BY <2>1 DEF Rounds
  <2>5. first \in Rounds
    <3>1. <<>> \in Seq(Nat)
      OBVIOUS
    <3> DEFINE e == <<>>
    <3>2. first = [w EXCEPT !.next = e] /\ e \in Seq(Nat)
      BY <3>1
    <3> HIDE DEF e, first
    <3>3. QED
      BY <2>1, <3>2 DEF Rounds
  <2> HIDE DEF first
  <2>3. RoundOK(first)
    BY <2>2, <2>5 DEF RoundOK
  <2>4. QED
    BY <1>1, <2>2, <2>3
<1>6. ASSUME NEW u, NEW v, NEW k \in 1..n, v = Rollover(u, w.list[k]), Good(u) PROVE Good(v)
  <2> DEFINE i == w.list[k]
  <2>1. i \in DOMAIN u.cs
    <3>1. k \in DOMAIN u.list /\ u.list[k] = i
      BY <1>1, <1>6
    <3>2. RoundOK(u)
      BY <1>6
    <3>3. QED
      BY <3>1, <3>2 DEF RoundOK
  <2>2. RoundOK(u) /\ v = Rollover(u, i)
    BY <1>6
  <2> HIDE DEF i
  <2>3. /\ RoundOK(v) /\ v.list = u.list /\ Len(u.cs) <= Len(v.cs)
        /\ u.plan.end <= v.plan.end /\ (u.plan # tick.plan => v.plan # tick.plan)
    BY <2>1, <2>2, RolloverOK
  <2>4. u \in Rounds /\ v \in Rounds
    BY <2>2, <2>3 DEF RoundOK
  <2>5. u.plan \in PlanRows /\ v.plan \in PlanRows /\ u.cs \in Seq(SessionRows) /\ v.cs \in Seq(SessionRows)
    BY <2>4 DEF Rounds
  <2>6. u.plan.end \in Nat /\ v.plan.end \in Nat
    BY <2>5 DEF PlanRows
  <2>7. Len(u.cs) \in Nat /\ Len(v.cs) \in Nat
    BY <2>5
  <2>8. QED
    BY <1>1, <1>6, <2>3, <2>6, <2>7
<1> HIDE DEF Good, first
<1>7. 0 \in P
  BY <1>1, <1>4, <1>5
<1>8. ASSUME NEW k \in Nat, k \in P PROVE k + 1 \in P
  <2> SUFFICES ASSUME k + 1 <= n PROVE Good(r[k + 1])
    OBVIOUS
  <2>1. Good(r[k]) /\ k + 1 \in 1..n
    BY <1>1, <1>8
  <2>2. r[k + 1] = Rollover(r[k], w.list[k + 1])
    BY <1>1, <1>4
  <2>3. QED
    BY <1>6, <2>1, <2>2
<1> HIDE DEF P
<1>9. n \in P
  BY <1>1, <1>7, <1>8, NatInduction1
<1>10. Good(Rollovers(w))
  BY <1>1, <1>2, <1>9 DEF P
<1>11. QED
  BY <1>10 DEF Good

LEMMA MonthOK ==
    ASSUME RollOK, NEW w, RoundOK(w)
    PROVE  LET v == Month(w)
           IN  RoundOK(v) /\ (w.plan # tick.plan => v.plan # tick.plan)
                          /\ (w.plan.end <= now => v.plan # tick.plan)
<1>0. now \in Nat /\ w.plan.end \in Nat /\ tick.plan \in PlanRows /\ tick.plan.end <= now /\ tick.plan.end \in Nat
  <2>1. w.plan \in PlanRows /\ tick.plan \in PlanRows
    BY DEF RoundOK, Rounds, RollOK
  <2>2. QED
    BY <2>1 DEF RollOK, PlanRows
<1>1. CASE w.plan.end > now
  <2>1. Month(w) = w
    BY <1>1 DEF Month
  <2>2. QED
    BY <1>0, <1>1, <2>1
<1>2. CASE ~(w.plan.end > now)
  <2> DEFINE r == Rollovers(w)
             p == IF r.plan.end <= now THEN ResetPlan(r.plan) ELSE r.plan
             v == Month(w)
  <2>1. v = [r EXCEPT !.plan = p, !.list = r.next]
    BY <1>2 DEF Month
  <2>2. RoundOK(r) /\ (w.plan # tick.plan => r.plan # tick.plan)
    BY RolloversOK
  <2> HIDE DEF r, v
  <2>3. r \in Rounds /\ r.plan \in PlanRows /\ r.plan.end \in Nat /\ tick.plan.end <= r.plan.end
    <3>1. r \in Rounds /\ r.plan \in PlanRows /\ tick.plan.end <= r.plan.end
      BY <2>2 DEF RoundOK, Rounds
    <3>2. QED
      BY <3>1 DEF PlanRows
  <2>4. /\ ResetPlan(r.plan) \in PlanRows /\ ResetPlan(r.plan).start = r.plan.end
        /\ r.plan.end < ResetPlan(r.plan).end /\ ResetPlan(r.plan).end \in Nat
    <3>1. ResetPlan(r.plan) \in PlanRows
      BY <2>3, ResetPlanFacts
    <3>2. ResetPlan(r.plan).start = r.plan.end
      BY <2>3, ResetPlanFacts
    <3>3. r.plan.end < ResetPlan(r.plan).end
      BY <2>3, ResetPlanFacts
    <3>4. ResetPlan(r.plan).end \in Nat
      BY <3>1 DEF PlanRows
    <3>5. QED
      BY <3>1, <3>2, <3>3, <3>4
  <2>5. /\ p \in PlanRows /\ tick.plan.end <= p.end /\ p # tick.plan
        /\ p = tick.plan \/ Fresh(p)
    <3>1. CASE r.plan.end <= now
      <4>1. p = ResetPlan(r.plan)
        BY <3>1
      <4>2. p.used = 0 /\ p.overage = 0 /\ p.grace = None
        BY <2>3, <4>1, ResetPlanFacts
      <4>3. p \in PlanRows /\ p.start = r.plan.end /\ r.plan.end < p.end /\ p.end \in Nat
        BY <2>4, <4>1
      <4> HIDE DEF p
      <4>4. QED
        BY <1>0, <2>3, <4>2, <4>3 DEF Fresh
    <3>2. CASE ~(r.plan.end <= now)
      <4>1. p = r.plan
        BY <3>2
      <4>2. p # tick.plan
        BY <1>0, <3>2, <4>1
      <4>3. QED
        BY <2>2, <2>3, <4>1, <4>2 DEF RoundOK
    <3>3. QED
      BY <3>1, <3>2
  <2> HIDE DEF p
  <2>6. v \in Rounds /\ v.cs = r.cs /\ v.plan = p /\ v.list = r.next /\ v.next = r.next
    <3>1. r.next \in Seq(Nat) /\ r \in Rounds /\ p \in PlanRows
      BY <2>3, <2>5 DEF Rounds
    <3>2. QED
      BY <2>1, <3>1 DEF Rounds
  <2>7. RoundOK(v)
    BY <2>2, <2>5, <2>6 DEF RoundOK
  <2>8. QED
    BY <2>5, <2>6, <2>7 DEF v
<1>3. QED
  BY <1>1, <1>2

FirstRound == [cs |-> tick.cs, plan |-> tick.plan, list |-> [i \in DOMAIN tick.cs |-> i], next |-> <<>>]

IsRolled(m, n) == m = [k \in 0..n |-> IF k = 0 THEN FirstRound ELSE Month(m[k - 1])]

LEMMA RolledExists ==
    ASSUME NEW n \in Nat
    PROVE  \E m : IsRolled(m, n)
<1> DEFINE P == {l \in Nat : \E m : IsRolled(m, l)}
<1>1. 0 \in P
  <2> DEFINE m == [k \in 0..0 |-> FirstRound]
  <2>1. m = [k \in 0..0 |-> IF k = 0 THEN FirstRound ELSE Month(m[k - 1])]
    OBVIOUS
  <2> HIDE DEF m
  <2>2. IsRolled(m, 0)
    BY <2>1 DEF IsRolled
  <2>3. QED
    BY <2>2
<1>2. ASSUME NEW l \in Nat, l \in P PROVE l + 1 \in P
  <2>1. PICK m : IsRolled(m, l)
    BY <1>2
  <2> DEFINE last == Month(m[l])
             q == [k \in 0..(l + 1) |-> IF k <= l THEN m[k] ELSE last]
  <2>2. \A k \in 0..l : m[k] = IF k = 0 THEN FirstRound ELSE Month(m[k - 1])
    BY <2>1 DEF IsRolled
  <2>3. \A k \in 0..(l + 1) : q[k] = IF k = 0 THEN FirstRound ELSE Month(q[k - 1])
    <3> SUFFICES ASSUME NEW k \in 0..(l + 1) PROVE q[k] = IF k = 0 THEN FirstRound ELSE Month(q[k - 1])
      OBVIOUS
    <3>1. CASE k <= l
      <4>1. q[k] = m[k] /\ (k # 0 => q[k - 1] = m[k - 1]) /\ k \in 0..l
        <5> HIDE DEF last
        <5>1. QED
          BY <3>1
      <4> HIDE DEF q
      <4>2. QED
        BY <2>2, <4>1
    <3>2. CASE k = l + 1
      <4>1. q[k] = last /\ q[k - 1] = m[l] /\ k # 0
        <5> HIDE DEF last
        <5>1. QED
          BY <3>2
      <4> HIDE DEF q
      <4>2. QED
        BY <3>2, <4>1
    <3>3. QED
      BY <3>1, <3>2
  <2>4. q = [k \in 0..(l + 1) |-> IF k = 0 THEN FirstRound ELSE Month(q[k - 1])]
    <3>1. q = [k \in 0..(l + 1) |-> q[k]]
      <4> HIDE DEF last
      <4>1. QED
        OBVIOUS
    <3> HIDE DEF q
    <3>2. QED
      BY <2>3, <3>1
  <2> HIDE DEF q
  <2>5. IsRolled(q, l + 1)
    BY <2>4 DEF IsRolled
  <2>6. QED
    BY <2>5
<1> HIDE DEF P
<1>3. n \in P
  BY <1>1, <1>2, NatInduction1
<1>4. QED
  BY <1>3 DEF P

LEMMA FirstRoundOK ==
    ASSUME RollOK
    PROVE  RoundOK(FirstRound) /\ FirstRound.plan = tick.plan /\ FirstRound.cs = tick.cs
<1> DEFINE ids == [i \in DOMAIN tick.cs |-> i]
           f == FirstRound
           e == <<>>
<1>1. tick.cs \in Seq(SessionRows) /\ tick.plan \in PlanRows /\ Len(tick.cs) \in Nat /\ DOMAIN tick.cs = 1..Len(tick.cs)
  BY DEF RollOK
<1>2. ids \in [1..Len(tick.cs) -> Nat]
  BY <1>1
<1>3. ids \in Seq(Nat) /\ DOMAIN ids = DOMAIN tick.cs /\ \A k \in DOMAIN ids : ids[k] \in DOMAIN tick.cs
  BY <1>1, <1>2
<1>4. e \in Seq(Nat) /\ DOMAIN e = {}
  OBVIOUS
<1>5. f = [cs |-> tick.cs, plan |-> tick.plan, list |-> ids, next |-> e]
  BY DEF FirstRound
<1> HIDE DEF ids, f, e
<1>6. f.cs = tick.cs /\ f.plan = tick.plan /\ f.list = ids /\ f.next = e
  BY <1>5
<1>7. f \in Rounds
  BY <1>1, <1>3, <1>4, <1>5 DEF Rounds
<1>8. tick.plan.end \in Nat
  BY <1>1 DEF PlanRows
<1>9. RoundOK(f)
  <2>1. \A k \in DOMAIN e : e[k] \in DOMAIN tick.cs
    BY <1>4
  <2>2. \A i \in DOMAIN f.cs : f.cs[i].last <= now
    BY <1>6 DEF RollOK
  <2>3. Len(tick.cs) <= Len(f.cs)
    BY <1>1, <1>6
  <2>4. tick.plan.end <= f.plan.end
    BY <1>6, <1>8
  <2>5. \A k \in DOMAIN f.list : f.list[k] \in DOMAIN f.cs
    BY <1>3, <1>6
  <2>6. \A k \in DOMAIN f.next : f.next[k] \in DOMAIN f.cs
    BY <1>6, <2>1
  <2>7. QED
    BY <1>6, <1>7, <2>2, <2>3, <2>4, <2>5, <2>6 DEF RoundOK
<1>10. QED
  BY <1>6, <1>9 DEF f

\* The reset ends at least one month.
LEMMA RolledOK ==
    ASSUME RollOK
    PROVE  RoundOK(Rolled) /\ Fresh(Rolled.plan)
<1> DEFINE n == now - tick.plan.end + 1
           m == CHOOSE x : IsRolled(x, n)
<1>1. n \in Nat /\ n >= 1 /\ tick.plan.end <= now
  <2>1. tick.plan \in PlanRows /\ now \in Nat /\ tick.plan.end <= now
    BY DEF RollOK
  <2>2. tick.plan.end \in Nat
    BY <2>1 DEF PlanRows
  <2>3. QED
    BY <2>1, <2>2
<1>2. Rolled = m[n]
  BY DEF Rolled, IsRolled, FirstRound
<1> HIDE DEF n
<1>3. IsRolled(m, n)
  BY <1>1, RolledExists
<1> HIDE DEF m
<1>4. \A k \in 0..n : m[k] = IF k = 0 THEN FirstRound ELSE Month(m[k - 1])
  BY <1>3 DEF IsRolled
<1> DEFINE Good(v) == RoundOK(v) /\ v.plan # tick.plan
           P == {k \in Nat : k + 1 <= n => Good(m[k + 1])}
<1>5. Good(Month(FirstRound))
  <2>1. RoundOK(FirstRound) /\ FirstRound.plan.end <= now
    BY <1>1, FirstRoundOK
  <2>2. QED
    BY <2>1, MonthOK
<1>6. ASSUME NEW v, Good(v) PROVE Good(Month(v))
  BY <1>6, MonthOK
<1> HIDE DEF Good
<1>7. 0 \in P
  <2>1. m[1] = Month(m[0]) /\ m[0] = FirstRound
    BY <1>1, <1>4
  <2>2. QED
    BY <1>5, <2>1
<1>8. ASSUME NEW k \in Nat, k \in P PROVE k + 1 \in P
  <2> SUFFICES ASSUME k + 1 + 1 <= n PROVE Good(m[k + 1 + 1])
    OBVIOUS
  <2>1. Good(m[k + 1])
    BY <1>1, <1>8
  <2>2. m[k + 1 + 1] = Month(m[k + 1])
    BY <1>1, <1>4
  <2>3. QED
    BY <1>6, <2>1, <2>2
<1> HIDE DEF P
<1>9. n - 1 \in P
  BY <1>1, <1>7, <1>8, NatInduction1
<1>10. Good(m[n])
  <2>1. n - 1 \in Nat /\ (n - 1) + 1 = n /\ n <= n
    BY <1>1
  <2>2. QED
    BY <1>9, <2>1 DEF P
<1>11. QED
  BY <1>2, <1>10 DEF Good, RoundOK

-----------------------------------------------------------------------------
(* Types.  The inductive invariant adds to TypeOK that a sandbox has one   *)
(* open session at most, in a form that steps can be compared with, and    *)
(* what holds of the rows that were read before they are written.          *)

OneOpen ==
    \A i, j \in DOMAIN cs : cs[i].open /\ cs[j].open /\ cs[i].sandbox = cs[j].sandbox => i = j

\* What was read is still there, and nothing was metered beyond now.
Loaded ==
    /\ repair # <<>> => repair[1] \in DOMAIN cs /\ repair[2].open /\ repair[2].last <= now
    /\ Len(tick.cs) <= Len(cs)
    /\ \A i \in DOMAIN cs : cs[i].last <= now
    /\ \A i \in DOMAIN tick.cs : tick.cs[i].last <= now
    /\ plan.start < plan.end
    /\ tick.pc = "roll" => /\ tick.plan.end <= now
                           /\ tick.plan.start = plan.start /\ tick.plan.end = plan.end

TInv == TypeOK /\ OneOpen /\ Loaded

TickRows == [pc: DOMAIN AfterStep \cup {"sleep"}, left: 0..1, cs: Seq(SessionRows), plan: PlanRows,
             ready: SUBSET Sandboxes]

LEMMA Steps == DOMAIN AfterStep = {"charge", "warn", "grace", "stop", "enforce", "reset", "roll"}
BY DEF AfterStep

LEMMA TableFacts ==
    ASSUME NEW t \in Seq(SessionRows)
    PROVE  /\ Len(t) \in Nat /\ DOMAIN t = 1..Len(t) /\ IsFiniteSet(DOMAIN t)
           /\ \A i \in DOMAIN t : /\ t[i] \in SessionRows /\ t[i].sandbox \in Sandboxes
                                  /\ t[i].open \in BOOLEAN /\ t[i].last \in Nat /\ t[i].hours \in Nat
<1>1. Len(t) \in Nat /\ DOMAIN t = 1..Len(t)
  OBVIOUS
<1>2. IsFiniteSet(DOMAIN t)
  BY <1>1, FS_Interval
<1>3. \A i \in DOMAIN t : t[i] \in SessionRows
  BY <1>1
<1>4. ASSUME NEW c \in SessionRows
      PROVE  c.sandbox \in Sandboxes /\ c.open \in BOOLEAN /\ c.last \in Nat /\ c.hours \in Nat
  BY DEF SessionRows
<1>5. QED
  BY <1>1, <1>2, <1>3, <1>4

LEMMA PlanFacts ==
    ASSUME NEW p \in PlanRows
    PROVE  /\ p.used \in Nat /\ p.overage \in Nat /\ p.start \in Nat /\ p.end \in Nat /\ p.patience \in Nat
           /\ p.grace \in Nat \cup {None} /\ p.warn80 \in BOOLEAN /\ p.warn100 \in BOOLEAN
BY DEF PlanRows

LEMMA TickFacts ==
    ASSUME NEW t \in TickRows
    PROVE  /\ t.pc \in {"sleep", "charge", "warn", "grace", "stop", "enforce", "reset", "roll"}
           /\ t.left \in 0..1 /\ t.cs \in Seq(SessionRows) /\ t.plan \in PlanRows
           /\ t.ready \in SUBSET Sandboxes
<1>1. t.pc \in DOMAIN AfterStep \cup {"sleep"}
  BY DEF TickRows
<1>2. QED
  BY <1>1, Steps DEF TickRows

LEMMA StateFacts ==
    ASSUME TInv
    PROVE  /\ now \in Nat /\ cs \in Seq(SessionRows) /\ plan \in PlanRows /\ grants \in Seq(GrantRows)
           /\ GrantsOK /\ tick \in TickRows /\ served \in [Sandboxes -> Nat]
           /\ used \in [ops: Nat, grants: Nat, faults: Nat, late: Nat]
<1>1. now \in Nat
  BY Constants DEF TInv, TypeOK
<1>2. QED
  BY <1>1 DEF TInv, TypeOK, GrantsOK, GrantRows, TickRows

\* The final slice of a session.
LEMMA ClosedFacts ==
    ASSUME now \in Nat, NEW c \in SessionRows, c.last <= now
    PROVE  /\ CloseElapsed(c) \in Nat /\ CloseElapsed(c) <= now - c.last
           /\ Closed(c) \in SessionRows /\ Closed(c).sandbox = c.sandbox /\ Closed(c).open = FALSE
           /\ Closed(c).started = c.started /\ Closed(c).last = now
           /\ Closed(c).hours = c.hours + CloseElapsed(c)
           /\ c.last = now => CloseElapsed(c) = 0
<1>1. c.last \in Nat /\ c.hours \in Nat /\ MaxCloseDelta \in Nat
  BY Constants DEF SessionRows
<1>2. CloseElapsed(c) = IF now - c.last <= MaxCloseDelta THEN now - c.last ELSE MaxCloseDelta
  BY <1>1, MinTwo DEF CloseElapsed
<1>3. CloseElapsed(c) \in Nat /\ CloseElapsed(c) <= now - c.last /\ (c.last = now => CloseElapsed(c) = 0)
  BY <1>1, <1>2
<1> DEFINE e == CloseElapsed(c)
           d == Closed(c)
<1>4. d = [c EXCEPT !.open = FALSE, !.last = now, !.hours = @ + e]
  BY DEF Closed
<1>5. c.hours + e \in Nat
  BY <1>1, <1>3
<1> HIDE DEF e, d
<1>6. d \in SessionRows /\ d.sandbox = c.sandbox /\ d.open = FALSE /\ d.started = c.started /\ d.last = now
  BY <1>4, <1>5 DEF SessionRows
<1>7. d.hours = c.hours + e
  BY <1>4, <1>5 DEF SessionRows
<1>8. QED
  BY <1>3, <1>6, <1>7 DEF d, e

\* A step that changes sessions, but inserts none and opens none.
Kept ==
    /\ cs' \in Seq(SessionRows) /\ Len(cs') = Len(cs) /\ DOMAIN cs' = DOMAIN cs
    /\ \A i \in DOMAIN cs : /\ cs'[i].sandbox = cs[i].sandbox
                            /\ cs'[i].open => cs[i].open
                            /\ cs'[i].last <= now

\* close_compute_session.
LEMMA CloseEffect ==
    ASSUME TInv, NEW S, NEW p, CloseSessions(S, p)
    PROVE  /\ Kept
           /\ \A i \in DOMAIN cs : IF i \in OpenAmong(S) THEN cs'[i] = Closed(cs[i]) ELSE cs'[i] = cs[i]
           /\ FinalSlices(S) \in Nat
           /\ (\A i \in OpenSessions : cs[i].last = now) => FinalSlices(S) = 0
           /\ Total(Metered', DOMAIN cs') = Total(Metered, DOMAIN cs) + FinalSlices(S)
<1> DEFINE O == OpenAmong(S)
           E == [i \in DOMAIN cs |-> CloseElapsed(cs[i])]
           G == [i \in DOMAIN cs |-> IF i \in O THEN CloseElapsed(cs[i]) ELSE 0]
<1>1. /\ now \in Nat /\ cs \in Seq(SessionRows) /\ Len(cs) \in Nat /\ DOMAIN cs = 1..Len(cs)
      /\ IsFiniteSet(DOMAIN cs) /\ O \in SUBSET DOMAIN cs
      /\ \A i \in DOMAIN cs : cs[i] \in SessionRows /\ cs[i].last <= now /\ cs[i].hours \in Nat
  <2>1. now \in Nat /\ cs \in Seq(SessionRows)
    BY StateFacts
  <2>2. O \in SUBSET DOMAIN cs
    BY DEF OpenAmong, OpenSessions
  <2>3. \A i \in DOMAIN cs : cs[i].last <= now
    BY DEF TInv, Loaded
  <2>4. QED
    BY <2>1, <2>2, <2>3, TableFacts
<1>0. \A i \in O : i \in OpenSessions /\ cs[i].open
  BY DEF OpenAmong, OpenSessions
<1>2. cs' = [i \in DOMAIN cs |-> IF i \in O THEN Closed(cs[i]) ELSE cs[i]]
  BY DEF CloseSessions
<1> HIDE DEF O
<1>3. ASSUME NEW i \in DOMAIN cs
      PROVE  /\ CloseElapsed(cs[i]) \in Nat /\ Closed(cs[i]) \in SessionRows
             /\ Closed(cs[i]).sandbox = cs[i].sandbox /\ Closed(cs[i]).open = FALSE
             /\ Closed(cs[i]).last = now /\ Closed(cs[i]).hours = cs[i].hours + CloseElapsed(cs[i])
             /\ cs[i].last = now => CloseElapsed(cs[i]) = 0
  <2> DEFINE c == cs[i]
  <2>1. c \in SessionRows /\ c.last <= now
    BY <1>1
  <2> HIDE DEF c
  <2>2. /\ CloseElapsed(c) \in Nat /\ Closed(c) \in SessionRows
        /\ Closed(c).sandbox = c.sandbox /\ Closed(c).open = FALSE
        /\ Closed(c).last = now /\ Closed(c).hours = c.hours + CloseElapsed(c)
        /\ c.last = now => CloseElapsed(c) = 0
    BY <1>1, <2>1, ClosedFacts
  <2>3. QED
    BY <2>2 DEF c
<1>4. \A i \in DOMAIN cs : cs'[i] = IF i \in O THEN Closed(cs[i]) ELSE cs[i]
  BY <1>2
<1>5. cs' \in [1..Len(cs) -> SessionRows]
  BY <1>1, <1>2, <1>3
<1>6. cs' \in Seq(SessionRows) /\ Len(cs') = Len(cs) /\ DOMAIN cs' = DOMAIN cs
  BY <1>1, <1>5
<1>7. Kept
  <2>1. ASSUME NEW i \in DOMAIN cs
        PROVE  cs'[i].sandbox = cs[i].sandbox /\ (cs'[i].open => cs[i].open) /\ cs'[i].last <= now
    <3>1. CASE i \in O
      <4>1. cs'[i] = Closed(cs[i]) /\ cs[i].open
        BY <1>0, <1>4, <3>1
      <4>2. cs'[i].sandbox = cs[i].sandbox /\ cs'[i].last = now
        BY <1>3, <4>1
      <4>3. QED
        BY <1>1, <4>1, <4>2
    <3>2. CASE i \notin O
      BY <1>1, <1>4, <3>2
    <3>3. QED
      BY <3>1, <3>2
  <2>2. QED
    BY <1>6, <2>1 DEF Kept
<1>8. FinalSlices(S) = Total(E, O)
  BY DEF FinalSlices, O
<1>9. /\ \A i \in DOMAIN cs : E[i] = CloseElapsed(cs[i])
      /\ \A i \in DOMAIN cs : G[i] = IF i \in O THEN CloseElapsed(cs[i]) ELSE 0
  OBVIOUS
<1> HIDE DEF E, G
<1>10. IsFiniteSet(O) /\ \A i \in O : E[i] \in Nat
  BY <1>1, <1>3, <1>9, FS_Subset
<1>11. Total(E, O) \in Nat
  BY <1>10, TotalNat
<1>12. Total(E, O) = Total(G, DOMAIN cs)
  <2>1. /\ \A i \in O : E[i] \in Int /\ G[i] = E[i]
        /\ \A i \in DOMAIN cs \ O : G[i] = 0
    <3>1. \A i \in O : E[i] \in Int /\ G[i] = E[i]
      BY <1>1, <1>9, <1>10
    <3>2. QED
      BY <1>9, <3>1
  <2>2. IsFiniteSet(DOMAIN cs) /\ O \in SUBSET DOMAIN cs
    BY <1>1
  <2> HIDE DEF O
  <2>3. QED
    BY <2>1, <2>2, TotalFilter
<1>13. (\A i \in OpenSessions : cs[i].last = now) => FinalSlices(S) = 0
  <2> SUFFICES ASSUME \A i \in OpenSessions : cs[i].last = now PROVE Total(E, O) = 0
    BY <1>8
  <2>1. \A i \in O : i \in OpenSessions
    BY DEF O, OpenAmong
  <2>2. \A i \in O : E[i] = 0
    BY <1>1, <1>3, <1>9, <2>1
  <2>3. QED
    BY <1>10, <2>2, TotalZero
<1>14. Total(Metered', DOMAIN cs') = Total(Metered, DOMAIN cs) + Total(G, DOMAIN cs)
  <2> DEFINE f == Metered
             h == Metered'
  <2>1. \A i \in DOMAIN cs : f[i] = cs[i].hours /\ h[i] = cs'[i].hours
    BY <1>6 DEF Metered
  <2> HIDE DEF f, h
  <2>2. \A i \in DOMAIN cs : f[i] \in Int /\ G[i] \in Int /\ h[i] = f[i] + G[i]
    <3> TAKE i \in DOMAIN cs
    <3>1. CASE i \in O
      <4>1. cs'[i] = Closed(cs[i]) /\ G[i] = CloseElapsed(cs[i])
        BY <1>4, <1>9, <3>1
      <4>2. CloseElapsed(cs[i]) \in Nat /\ cs'[i].hours = cs[i].hours + CloseElapsed(cs[i])
        BY <1>3, <4>1
      <4>3. cs[i].hours \in Nat /\ f[i] = cs[i].hours /\ h[i] = cs'[i].hours
        BY <1>1, <2>1
      <4>4. QED
        BY <4>1, <4>2, <4>3
    <3>2. CASE i \notin O
      BY <1>1, <1>4, <1>9, <2>1, <3>2
    <3>3. QED
      BY <3>1, <3>2
  <2>3. Total(h, DOMAIN cs) = Total(f, DOMAIN cs) + Total(G, DOMAIN cs)
    BY <1>1, <2>2, TotalPlus
  <2>4. QED
    BY <1>6, <2>3 DEF f, h
<1>15. QED
  BY <1>4, <1>7, <1>8, <1>11, <1>12, <1>13, <1>14 DEF O

\* What the repair charges.
RepairAmount == IF cs[repair[1]].open THEN CloseElapsed(repair[2]) ELSE 0

LEMMA RepairEffect ==
    ASSUME TInv, RepairCommit
    PROVE  LET i   == repair[1]
               row == repair[2]
           IN  /\ Kept /\ i \in DOMAIN cs /\ row \in SessionRows /\ row.open /\ row.last <= now
               /\ RepairAmount \in Nat /\ (cs[i].open => RepairAmount <= now - row.last)
               /\ plan' = ConsumedPlan(plan, RepairAmount) /\ grants' = ConsumedGrants(plan, RepairAmount)
               /\ \A j \in DOMAIN cs : j # i => cs'[j] = cs[j]
               /\ ~cs[i].open => cs' = cs /\ RepairAmount = 0
               /\ cs[i].open => /\ cs'[i].open = FALSE
                                /\ cs'[i].last = IF now # row.last THEN now ELSE cs[i].last
                                /\ cs'[i].hours = IF RepairAmount # 0 THEN row.hours + RepairAmount
                                                  ELSE cs[i].hours
               /\ row.last = now => RepairAmount = 0
               /\ (cs[i].open => cs[i] = row) =>
                      Total(Metered', DOMAIN cs') = Total(Metered, DOMAIN cs) + RepairAmount
               /\ ~stale' => ~stale /\ (cs[i].open => cs[i] = row)
<1> DEFINE i == repair[1]
           row == repair[2]
           m == Merge(cs[i], row, Closed(row))
<1>1. /\ now \in Nat /\ cs \in Seq(SessionRows) /\ Len(cs) \in Nat /\ DOMAIN cs = 1..Len(cs)
      /\ IsFiniteSet(DOMAIN cs)
      /\ \A j \in DOMAIN cs : cs[j] \in SessionRows /\ cs[j].last <= now /\ cs[j].hours \in Nat
  <2>1. now \in Nat /\ cs \in Seq(SessionRows)
    BY StateFacts
  <2>2. \A j \in DOMAIN cs : cs[j].last <= now
    BY DEF TInv, Loaded
  <2>3. QED
    BY <2>1, <2>2, TableFacts
<1>2. i \in DOMAIN cs /\ row \in SessionRows /\ row.open /\ row.last <= now
  <2>1. repair # <<>>
    BY DEF RepairCommit
  <2>2. repair \in Nat \X SessionRows
    BY <2>1 DEF TInv, TypeOK
  <2>3. row \in SessionRows
    BY <2>2
  <2>4. QED
    BY <2>1, <2>3 DEF TInv, Loaded
<1>3. /\ cs' = IF cs[i].open THEN [cs EXCEPT ![i] = m] ELSE cs
      /\ plan' = ConsumedPlan(plan, RepairAmount)
      /\ grants' = ConsumedGrants(plan, RepairAmount)
      /\ stale' = (stale \/ (cs[i].open /\ cs[i] # row))
  BY DEF RepairCommit, RepairAmount
<1>4. RepairAmount = IF cs[i].open THEN CloseElapsed(row) ELSE 0
  BY DEF RepairAmount
<1> HIDE DEF i, row
<1>5. /\ CloseElapsed(row) \in Nat /\ CloseElapsed(row) <= now - row.last
      /\ Closed(row) \in SessionRows /\ Closed(row).sandbox = row.sandbox /\ Closed(row).open = FALSE
      /\ Closed(row).started = row.started /\ Closed(row).last = now
      /\ Closed(row).hours = row.hours + CloseElapsed(row)
      /\ row.last = now => CloseElapsed(row) = 0
  BY <1>1, <1>2, ClosedFacts
<1>6. /\ m \in SessionRows
      /\ m.sandbox = cs[i].sandbox /\ m.open = FALSE
      /\ m.last = IF now # row.last THEN now ELSE cs[i].last
      /\ m.hours = IF CloseElapsed(row) # 0 THEN row.hours + CloseElapsed(row) ELSE cs[i].hours
  <2> DEFINE r == cs[i]
             c == Closed(row)
  <2>1. r \in SessionRows /\ row \in SessionRows /\ c \in SessionRows /\ m = Merge(r, row, c)
    BY <1>1, <1>2, <1>5
  <2>2. row.hours \in Nat /\ CloseElapsed(row) \in Nat
    BY <1>2, <1>5 DEF SessionRows
  <2>3. c.sandbox = row.sandbox /\ c.open = FALSE /\ c.last = now /\ c.hours = row.hours + CloseElapsed(row) /\ row.open
    BY <1>2, <1>5
  <2> HIDE DEF r, c, m
  <2>4. /\ m \in SessionRows
        /\ m.sandbox = IF c.sandbox # row.sandbox THEN c.sandbox ELSE r.sandbox
        /\ m.open = IF c.open # row.open THEN c.open ELSE r.open
        /\ m.last = IF c.last # row.last THEN c.last ELSE r.last
        /\ m.hours = IF c.hours # row.hours THEN c.hours ELSE r.hours
    BY <2>1, MergedSession
  <2>5. row.open = TRUE /\ row.last \in Nat
    BY <1>2 DEF SessionRows
  <2>6. m.sandbox = r.sandbox /\ m.open = FALSE /\ m.last = IF now # row.last THEN now ELSE r.last
    BY <2>3, <2>4, <2>5
  <2>7. m.hours = IF CloseElapsed(row) # 0 THEN row.hours + CloseElapsed(row) ELSE r.hours
    BY <2>2, <2>3, <2>4
  <2>8. QED
    BY <2>4, <2>6, <2>7 DEF r
<1> HIDE DEF m
<1>7. RepairAmount \in Nat /\ (row.last = now => RepairAmount = 0) /\ (cs[i].open => RepairAmount <= now - row.last)
  BY <1>4, <1>5
<1>8. CASE ~cs[i].open
  <2>1. cs' = cs /\ RepairAmount = 0
    BY <1>3, <1>4, <1>8
  <2>2. Kept
    BY <1>1, <2>1 DEF Kept
  <2>3. Metered' = Metered
    BY <2>1 DEF Metered
  <2>4. \A j \in DOMAIN cs : Metered[j] \in Int
    BY <1>1 DEF Metered
  <2>5. Total(Metered, DOMAIN cs) \in Int
    BY <1>1, <2>4, TotalInt
  <2>6. Total(Metered', DOMAIN cs') = Total(Metered, DOMAIN cs) + RepairAmount
    BY <2>1, <2>3, <2>5
  <2>7. QED
    BY <1>2, <1>3, <1>7, <1>8, <2>1, <2>2, <2>6 DEF i, row
<1>9. CASE cs[i].open
  <2>1. cs' = [cs EXCEPT ![i] = m] /\ RepairAmount = CloseElapsed(row)
    BY <1>3, <1>4, <1>9
  <2>2. /\ cs' \in Seq(SessionRows) /\ Len(cs') = Len(cs) /\ DOMAIN cs' = DOMAIN cs /\ cs'[i] = m
        /\ \A j \in DOMAIN cs : j # i => cs'[j] = cs[j]
    BY <1>1, <1>2, <1>6, <2>1
  <2>3. Kept
    <3>1. ASSUME NEW j \in DOMAIN cs
          PROVE  cs'[j].sandbox = cs[j].sandbox /\ (cs'[j].open => cs[j].open) /\ cs'[j].last <= now
      <4>1. CASE j = i
        BY <1>1, <1>6, <2>2, <4>1
      <4>2. CASE j # i
        BY <1>1, <2>2, <4>2
      <4>3. QED
        BY <4>1, <4>2
    <3>2. QED
      BY <2>2, <3>1 DEF Kept
  <2>4. cs[i] = row => Total(Metered', DOMAIN cs') = Total(Metered, DOMAIN cs) + RepairAmount
    <3> SUFFICES ASSUME cs[i] = row
                 PROVE  Total(Metered', DOMAIN cs') = Total(Metered, DOMAIN cs) + RepairAmount
      OBVIOUS
    <3> DEFINE f == Metered
               h == Metered'
               D == DOMAIN cs
    <3>1. D = DOMAIN cs' /\ \A j \in D : f[j] = cs[j].hours /\ h[j] = cs'[j].hours
      BY <2>2 DEF Metered
    <3>2. h[i] = f[i] + RepairAmount
      <4>1. m.hours = cs[i].hours + CloseElapsed(row)
        BY <1>1, <1>2, <1>5, <1>6
      <4>2. QED
        BY <1>2, <2>1, <2>2, <3>1, <4>1
    <3> HIDE DEF f, h
    <3>3. \A j \in D \ {i} : h[j] = f[j]
      BY <2>2, <3>1
    <3>4. \A j \in D : f[j] \in Nat
      BY <1>1, <3>1
    <3>5. \A j \in D : f[j] \in Int /\ h[j] \in Int
      BY <1>7, <3>2, <3>3, <3>4
    <3>10. IsFiniteSet(D) /\ i \in D
      BY <1>1, <1>2
    <3> HIDE DEF D
    <3>6. Total(h, D) = Total(f, D) + (h[i] - f[i])
      BY <3>3, <3>5, <3>10, TotalUpdate
    <3>7. Total(f, D) \in Int
      BY <3>5, <3>10, TotalInt
    <3>8. h[i] - f[i] = RepairAmount
      BY <1>7, <3>2, <3>4, <3>10
    <3>9. Total(h, D) = Total(f, D) + RepairAmount
      BY <3>6, <3>8
    <3>11. QED
      BY <3>1, <3>9 DEF f, h, D
  <2>5. QED
    BY <1>2, <1>3, <1>6, <1>7, <1>9, <2>1, <2>2, <2>3, <2>4 DEF i, row
<1>10. QED
  BY <1>8, <1>9

\* What tick_metering charges.
MeterIds == {i \in DOMAIN tick.cs : Unchanged(i) /\ now > tick.cs[i].last}
MeterAmount == Total([i \in MeterIds |-> now - tick.cs[i].last], MeterIds)

LEMMA MeterEffect ==
    ASSUME TInv, MeterCommit
    PROVE  /\ Kept
           /\ MeterIds \in SUBSET DOMAIN cs /\ MeterAmount \in Nat
           /\ plan' = ConsumedPlan(plan, MeterAmount) /\ grants' = ConsumedGrants(plan, MeterAmount)
           /\ \A i \in DOMAIN cs : i \notin MeterIds => cs'[i] = cs[i]
           /\ \A i \in MeterIds : /\ cs[i].open /\ cs'[i].open /\ cs[i] = tick.cs[i]
                                  /\ cs'[i].last = now /\ cs[i].last < now
                                  /\ cs'[i].hours = cs[i].hours + (now - cs[i].last)
           /\ Total(Metered', DOMAIN cs') = Total(Metered, DOMAIN cs) + MeterAmount
<1> DEFINE D == DOMAIN cs
           M == MeterIds
           A == [i \in M |-> now - tick.cs[i].last]
           new(i) == [cs[i] EXCEPT !.hours = @ + (now - tick.cs[i].last), !.last = now]
<1>1. /\ now \in Nat /\ cs \in Seq(SessionRows) /\ Len(cs) \in Nat /\ D = 1..Len(cs)
      /\ IsFiniteSet(D)
      /\ \A i \in D : cs[i] \in SessionRows /\ cs[i].last <= now /\ cs[i].hours \in Nat /\ cs[i].last \in Nat
  <2>1. now \in Nat /\ cs \in Seq(SessionRows)
    BY StateFacts
  <2>2. \A i \in DOMAIN cs : cs[i].last <= now
    BY DEF TInv, Loaded
  <2>3. QED
    BY <2>1, <2>2, TableFacts
<1>2. M \in SUBSET D
  <2>1. tick.cs \in Seq(SessionRows)
    BY StateFacts, TickFacts
  <2>2. DOMAIN tick.cs = 1..Len(tick.cs) /\ Len(tick.cs) \in Nat /\ Len(tick.cs) <= Len(cs)
    BY <2>1 DEF TInv, Loaded
  <2>3. QED
    BY <1>1, <2>2 DEF MeterIds
<1>3. \A i \in M : cs[i] = tick.cs[i] /\ cs[i].open /\ cs[i].last < now
  BY <1>1, <1>2 DEF MeterIds, Unchanged
<1>4. /\ cs' = [i \in D |-> IF i \in M THEN new(i) ELSE cs[i]]
      /\ plan' = ConsumedPlan(plan, MeterAmount) /\ grants' = ConsumedGrants(plan, MeterAmount)
  <2>1. cs' = [i \in D |-> IF i \in M THEN new(i) ELSE cs[i]]
    BY Zenon DEF MeterCommit, MeterIds
  <2>2. plan' = ConsumedPlan(plan, MeterAmount) /\ grants' = ConsumedGrants(plan, MeterAmount)
    BY Zenon DEF MeterCommit, MeterIds, MeterAmount
  <2>3. QED
    BY <2>1, <2>2, Zenon
<1> HIDE DEF M
<1>5. ASSUME NEW i \in M
      PROVE  /\ new(i) \in SessionRows /\ new(i).sandbox = cs[i].sandbox /\ new(i).open = cs[i].open
             /\ new(i).last = now /\ new(i).hours = cs[i].hours + (now - cs[i].last)
  <2> DEFINE c == cs[i]
             h == c.hours + (now - c.last)
  <2>1. c \in SessionRows /\ h \in Nat /\ now \in Nat
    BY <1>1, <1>2, <1>3
  <2>2. new(i) = [c EXCEPT !.hours = h, !.last = now]
    BY <1>3
  <2> HIDE DEF c, h, new
  <2>3. /\ new(i) \in SessionRows /\ new(i).sandbox = c.sandbox /\ new(i).open = c.open
        /\ new(i).last = now /\ new(i).hours = h
    BY <2>1, <2>2 DEF SessionRows
  <2>4. QED
    BY <2>3 DEF c, h
<1> HIDE DEF new
<1>6. /\ \A i \in M : cs'[i] = new(i)
      /\ \A i \in D : i \notin M => cs'[i] = cs[i]
  BY <1>2, <1>4
<1>7. cs' \in Seq(SessionRows) /\ Len(cs') = Len(cs) /\ DOMAIN cs' = D
  <2>1. cs' \in [1..Len(cs) -> SessionRows]
    BY <1>1, <1>4, <1>5
  <2>2. QED
    BY <1>1, <2>1
<1>8. \A i \in M : /\ cs'[i].sandbox = cs[i].sandbox /\ cs'[i].open /\ cs'[i].last = now
                   /\ cs'[i].hours = cs[i].hours + (now - cs[i].last)
  <2> TAKE i \in M
  <2>1. cs'[i] = new(i) /\ cs[i].open
    BY <1>3, <1>6
  <2>2. QED
    BY <1>5, <2>1
<1>9. Kept
  <2>1. ASSUME NEW i \in D
        PROVE  cs'[i].sandbox = cs[i].sandbox /\ (cs'[i].open => cs[i].open) /\ cs'[i].last <= now
    <3>1. CASE i \in M
      BY <1>1, <1>3, <1>8, <3>1
    <3>2. CASE i \notin M
      BY <1>1, <1>6, <3>2
    <3>3. QED
      BY <3>1, <3>2
  <2>2. QED
    BY <1>7, <2>1 DEF Kept
<1>10. MeterAmount = Total(A, M)
  BY DEF MeterAmount, M
<1>11. \A i \in M : A[i] \in Nat /\ A[i] = now - cs[i].last
  BY <1>1, <1>2, <1>3
<1> HIDE DEF A
<1>12. IsFiniteSet(M)
  BY <1>1, <1>2, FS_Subset
<1>13. MeterAmount \in Nat
  BY <1>10, <1>11, <1>12, TotalNat
<1>14. Total(Metered', DOMAIN cs') = Total(Metered, DOMAIN cs) + MeterAmount
  <2> DEFINE f == Metered
             h == Metered'
             g == [i \in D |-> IF i \in M THEN A[i] ELSE 0]
  <2>1. \A i \in D : f[i] = cs[i].hours /\ h[i] = cs'[i].hours
    BY <1>7 DEF Metered
  <2>2. \A i \in D : g[i] = IF i \in M THEN A[i] ELSE 0
    OBVIOUS
  <2> HIDE DEF f, h, g
  <2>3. Total(A, M) = Total(g, D)
    <3>1. \A i \in M : A[i] \in Int /\ g[i] = A[i]
      BY <1>2, <1>11, <2>2
    <3>2. \A i \in D \ M : g[i] = 0
      BY <2>2
    <3> HIDE DEF D
    <3>3. IsFiniteSet(D) /\ M \in SUBSET D
      BY <1>1, <1>2
    <3>4. QED
      BY <3>1, <3>2, <3>3, TotalFilter
  <2>4. \A i \in D : f[i] \in Int /\ g[i] \in Int /\ h[i] = f[i] + g[i]
    <3> TAKE i \in D
    <3>1. f[i] = cs[i].hours /\ h[i] = cs'[i].hours /\ cs[i].hours \in Nat
      BY <1>1, <2>1
    <3>2. CASE i \in M
      <4>1. cs'[i].hours = cs[i].hours + (now - cs[i].last) /\ g[i] = A[i]
        BY <1>8, <2>2, <3>2
      <4>2. A[i] \in Nat /\ A[i] = now - cs[i].last
        BY <1>11, <3>2
      <4>3. QED
        BY <3>1, <4>1, <4>2
    <3>3. CASE i \notin M
      <4>1. cs'[i] = cs[i] /\ g[i] = 0
        BY <1>6, <2>2, <3>3
      <4>2. QED
        BY <3>1, <4>1
    <3>4. QED
      BY <3>2, <3>3
  <2>5. Total(h, D) = Total(f, D) + Total(g, D)
    BY <1>1, <2>4, TotalPlus
  <2>6. QED
    BY <1>7, <1>10, <2>3, <2>5 DEF f, h
<1>15. QED
  BY <1>2, <1>3, <1>4, <1>6, <1>8, <1>9, <1>13, <1>14 DEF M

\* The commit of the reset, unless the unique index refuses it.
LEMMA ResetEffect ==
    ASSUME TInv, ResetCommit, ~UNCHANGED <<cs, plan>>
    PROVE  /\ cs' \in Seq(SessionRows) /\ Len(cs) <= Len(cs') /\ OneOpen'
           /\ \A i \in DOMAIN cs' : cs'[i].last <= now
           /\ plan' \in PlanRows /\ plan'.start < plan'.end /\ plan.end <= plan'.start /\ 0 < plan'.start
           /\ plan'.used = IF tick.plan.used # 0 THEN 0 ELSE plan.used
           /\ plan'.overage = IF tick.plan.overage # 0 THEN 0 ELSE plan.overage
           /\ plan'.grace = IF tick.plan.grace # None THEN None ELSE plan.grace
<1> DEFINE w == Rolled
           n == Len(tick.cs)
           m(i) == Merge(cs[i], tick.cs[i], w.cs[i])
           old == [i \in DOMAIN cs |-> IF i <= n THEN m(i) ELSE cs[i]]
           sub == SubSeq(w.cs, n + 1, Len(w.cs))
           new == old \o sub
<1>1. tick.pc = "roll"
  BY DEF ResetCommit
<1>2. /\ now \in Nat /\ cs \in Seq(SessionRows) /\ plan \in PlanRows
      /\ tick.cs \in Seq(SessionRows) /\ tick.plan \in PlanRows /\ tick.ready \in SUBSET Sandboxes
  BY StateFacts, TickFacts
<1>3. /\ tick.plan.end <= now /\ tick.plan.start = plan.start /\ tick.plan.end = plan.end /\ plan.start < plan.end
      /\ n <= Len(cs)
      /\ \A i \in DOMAIN cs : cs[i].last <= now
      /\ \A i \in DOMAIN tick.cs : tick.cs[i].last <= now
  BY <1>1 DEF TInv, Loaded
<1>4. RollOK
  BY <1>2, <1>3 DEF RollOK
<1>5. RoundOK(w) /\ Fresh(w.plan)
  BY <1>4, RolledOK
<1>6. cs' = new /\ plan' = Merge(plan, tick.plan, w.plan)
      /\ \A i, j \in DOMAIN new : new[i].open /\ new[j].open /\ new[i].sandbox = new[j].sandbox => i = j
  BY DEF ResetCommit
<1> HIDE DEF w, m, old, sub, new
<1>7. /\ w \in Rounds /\ n <= Len(w.cs) /\ \A i \in DOMAIN w.cs : w.cs[i].last <= now
  BY <1>5 DEF RoundOK
<1>8. w.cs \in Seq(SessionRows) /\ w.plan \in PlanRows
  BY <1>7 DEF Rounds
<1>9. /\ Len(cs) \in Nat /\ DOMAIN cs = 1..Len(cs) /\ Len(w.cs) \in Nat /\ DOMAIN w.cs = 1..Len(w.cs)
      /\ n \in Nat /\ DOMAIN tick.cs = 1..n
      /\ \A i \in DOMAIN cs : cs[i] \in SessionRows
      /\ \A i \in DOMAIN tick.cs : tick.cs[i] \in SessionRows
      /\ \A i \in DOMAIN w.cs : w.cs[i] \in SessionRows
  BY <1>2, <1>8, TableFacts
<1>10. ASSUME NEW i \in DOMAIN cs, i <= n PROVE m(i) \in SessionRows /\ m(i).last <= now
  <2> DEFINE r == cs[i]
             l == tick.cs[i]
             c == w.cs[i]
  <2>1. i \in DOMAIN tick.cs /\ i \in DOMAIN w.cs
    BY <1>7, <1>9, <1>10
  <2>2. r \in SessionRows /\ l \in SessionRows /\ c \in SessionRows /\ r.last <= now /\ c.last <= now
    BY <1>3, <1>7, <1>9, <2>1
  <2>3. m(i) = Merge(r, l, c)
    BY DEF m
  <2> HIDE DEF r, l, c
  <2>4. m(i) \in SessionRows /\ m(i).last = IF c.last # l.last THEN c.last ELSE r.last
    BY <2>2, <2>3, MergedSession
  <2>5. QED
    BY <2>2, <2>4
<1>11. /\ old \in Seq(SessionRows) /\ Len(old) = Len(cs) /\ \A i \in DOMAIN old : old[i].last <= now
  <2>1. old = [i \in DOMAIN cs |-> IF i <= n THEN m(i) ELSE cs[i]]
    BY DEF old
  <2>2. old \in [1..Len(cs) -> SessionRows]
    BY <1>9, <1>10, <2>1
  <2>3. \A i \in DOMAIN cs : old[i].last <= now
    BY <1>3, <1>10, <2>1
  <2>4. QED
    BY <1>9, <2>2, <2>3
<1>12. /\ sub \in Seq(SessionRows) /\ Len(sub) \in Nat
       /\ \A i \in DOMAIN sub : sub[i].last <= now
  <2> DEFINE t == w.cs
             a == n + 1
             b == Len(t)
  <2>0. /\ a \in Int /\ b \in Int /\ a <= b + 1 /\ a >= 1 /\ n \in Nat /\ a = n + 1
        /\ \A i \in a..b : t[i] \in SessionRows
        /\ sub = SubSeq(t, a, b)
    BY <1>7, <1>9 DEF sub
  <2> HIDE DEF t, a, b, n
  <2>5. /\ sub \in Seq(SessionRows)
        /\ Len(sub) = IF a <= b THEN b - a + 1 ELSE 0
        /\ \A i \in 1..(b - a + 1) : sub[i] = t[a + i - 1]
    BY <2>0, SubSeqProperties
  <2>1. sub \in Seq(SessionRows) /\ Len(sub) \in Nat /\ DOMAIN sub = 1..Len(sub)
    BY <2>5
  <2>6. Len(sub) = b - n /\ \A i \in 1..Len(sub) : sub[i] = t[n + i]
    <3>1. Len(sub) = b - n /\ b - a + 1 = b - n
      BY <2>0, <2>5
    <3>2. \A i \in 1..Len(sub) : sub[i] = t[a + i - 1] /\ a + i - 1 = n + i
      BY <2>0, <2>5, <3>1
    <3>3. QED
      BY <3>1, <3>2
  <2>2. Len(sub) = Len(w.cs) - n /\ \A i \in 1..Len(sub) : sub[i] = w.cs[n + i]
    BY <2>6 DEF t, b
  <2>3. \A i \in 1..Len(sub) : n + i \in DOMAIN w.cs
    BY <1>9, <2>2
  <2>4. QED
    BY <1>7, <2>1, <2>2, <2>3
<1>13. /\ new \in Seq(SessionRows) /\ Len(new) = Len(old) + Len(sub)
       /\ \A i \in DOMAIN new : new[i].last <= now
  <2>0. new = old \o sub /\ old \in Seq(SessionRows) /\ sub \in Seq(SessionRows)
    BY <1>11, <1>12 DEF new
  <2> HIDE DEF SessionRows
  <2>1. new \in Seq(SessionRows) /\ Len(new) = Len(old) + Len(sub) /\ DOMAIN new = 1..(Len(old) + Len(sub))
    BY <2>0
  <2>2. \A i \in DOMAIN new : new[i] = IF i <= Len(old) THEN old[i] ELSE sub[i - Len(old)]
    BY <2>0, <2>1
  <2>3. DOMAIN old = 1..Len(old) /\ Len(old) \in Nat /\ DOMAIN sub = 1..Len(sub)
    BY <1>11, <1>12
  <2>4. ASSUME NEW i \in DOMAIN new PROVE new[i].last <= now
    <3>1. CASE i <= Len(old)
      <4>1. i \in DOMAIN old /\ new[i] = old[i]
        BY <2>1, <2>2, <2>3, <3>1
      <4>2. QED
        BY <1>11, <4>1
    <3>2. CASE ~(i <= Len(old))
      <4>1. i - Len(old) \in DOMAIN sub /\ new[i] = sub[i - Len(old)]
        BY <1>12, <2>1, <2>2, <2>3, <3>2
      <4>2. QED
        BY <1>12, <4>1
    <3>3. QED
      BY <3>1, <3>2
  <2>5. QED
    BY <2>1, <2>4
<1>14. /\ plan' \in PlanRows /\ plan'.start < plan'.end /\ plan.end <= plan'.start /\ 0 < plan'.start
       /\ plan'.used = IF tick.plan.used # 0 THEN 0 ELSE plan.used
       /\ plan'.overage = IF tick.plan.overage # 0 THEN 0 ELSE plan.overage
       /\ plan'.grace = IF tick.plan.grace # None THEN None ELSE plan.grace
  <2> DEFINE r == plan
             l == tick.plan
             c == w.plan
             q == plan'
  <2>1. r \in PlanRows /\ l \in PlanRows /\ c \in PlanRows /\ q = Merge(r, l, c)
    BY <1>2, <1>6, <1>8
  <2>2. l.end <= c.start /\ c.start < c.end /\ c.used = 0 /\ c.overage = 0 /\ c.grace = None
    BY <1>5 DEF Fresh
  <2>3. l.start = r.start /\ l.end = r.end /\ r.start < r.end
    BY <1>3
  <2> HIDE DEF r, l, c, q
  <2>4. /\ q \in PlanRows
        /\ q.used = IF c.used # l.used THEN c.used ELSE r.used
        /\ q.overage = IF c.overage # l.overage THEN c.overage ELSE r.overage
        /\ q.start = IF c.start # l.start THEN c.start ELSE r.start
        /\ q.end = IF c.end # l.end THEN c.end ELSE r.end
        /\ q.grace = IF c.grace # l.grace THEN c.grace ELSE r.grace
    BY <2>1, MergedPlan
  <2>5. r.start \in Nat /\ r.end \in Nat /\ c.start \in Nat /\ c.end \in Nat
    BY <2>1 DEF PlanRows
  <2>6. q.start = c.start /\ q.end = c.end
    BY <2>2, <2>3, <2>4, <2>5
  <2>7. q.start < q.end /\ r.end <= q.start /\ 0 < q.start
    BY <2>2, <2>3, <2>5, <2>6
  <2>8. /\ q.used = IF l.used # 0 THEN 0 ELSE r.used
        /\ q.overage = IF l.overage # 0 THEN 0 ELSE r.overage
        /\ q.grace = IF l.grace # None THEN None ELSE r.grace
    BY <2>2, <2>4
  <2>9. QED
    BY <2>4, <2>7, <2>8 DEF r, l, q
<1>15. OneOpen'
  BY <1>6 DEF OneOpen
<1>16. QED
  BY <1>6, <1>9, <1>11, <1>12, <1>13, <1>14, <1>15

\* TInv, variable by variable.
World ==
    /\ now \in 0..MaxTime /\ served \in [Sandboxes -> Nat]
    /\ status \in [Sandboxes -> {"creating", "ready", "stopped"}]
    /\ mode \in [Sandboxes -> {"Running", "Suspended"}]
    /\ stale \in BOOLEAN /\ used \in [ops: Nat, grants: Nat, faults: Nat, late: Nat]

Table == cs \in Seq(SessionRows) /\ OneOpen /\ \A i \in DOMAIN cs : cs[i].last <= now

PlanOK == plan \in PlanRows /\ plan.start < plan.end

TickOK ==
    /\ tick \in TickRows /\ Len(tick.cs) <= Len(cs)
    /\ \A i \in DOMAIN tick.cs : tick.cs[i].last <= now
    /\ tick.pc = "roll" => /\ tick.plan.end <= now
                           /\ tick.plan.start = plan.start /\ tick.plan.end = plan.end

RepairOK ==
    repair # <<>> => /\ repair \in Nat \X SessionRows /\ repair[1] \in DOMAIN cs
                     /\ repair[2].open /\ repair[2].last <= now

LEMMA TypeParts ==
    TInv <=> World /\ Table /\ PlanOK /\ grants \in Seq(GrantRows) /\ TickOK /\ RepairOK
<1>1. OneOpen => \A s \in Sandboxes : Cardinality(OpenOf(s)) <= 1
  <2> SUFFICES ASSUME OneOpen, NEW s \in Sandboxes PROVE Cardinality(OpenOf(s)) <= 1
    OBVIOUS
  <2> DEFINE O == OpenOf(s)
  <2>1. \A i, j \in O : i = j
    <3> TAKE i, j \in O
    <3>1. /\ i \in DOMAIN cs /\ cs[i].open /\ cs[i].sandbox = s
          /\ j \in DOMAIN cs /\ cs[j].open /\ cs[j].sandbox = s
      BY DEF OpenOf, OpenSessions
    <3>2. QED
      BY <3>1 DEF OneOpen
  <2> HIDE DEF O
  <2>2. CASE O = {}
    <3>1. Cardinality(O) = 0
      BY <2>2, FS_EmptySet
    <3>2. QED
      BY <3>1 DEF O
  <2>3. CASE O # {}
    <3>1. PICK i \in O : TRUE
      BY <2>3
    <3>2. O = {i}
      BY <2>1, <3>1
    <3>3. Cardinality(O) = 1
      BY <3>2, FS_Singleton
    <3>4. QED
      BY <3>3 DEF O
  <2>4. QED
    BY <2>2, <2>3
<1>2. QED
  BY <1>1 DEF TInv, TypeOK, Loaded, World, Table, PlanOK, TickOK, RepairOK, GrantRows, TickRows

LEMMA TypePartsNext ==
    TInv' <=> (World /\ Table /\ PlanOK /\ grants \in Seq(GrantRows) /\ TickOK /\ RepairOK)'
BY TypeParts, PTL

\* Every step but the opening of a session, the reset and the clock leaves the
\* table as it is or changes rows of it.
LEMMA SameKept ==
    ASSUME TInv, cs' = cs
    PROVE  Kept
<1>1. cs \in Seq(SessionRows) /\ \A i \in DOMAIN cs : cs[i].last <= now
  BY StateFacts DEF TInv, Loaded
<1>2. QED
  BY <1>1 DEF Kept

LEMMA KeptTable ==
    ASSUME TInv, Kept, now' = now
    PROVE  Table'
<1>1. cs' \in Seq(SessionRows) /\ \A i \in DOMAIN cs' : cs'[i].last <= now'
  BY DEF Kept
<1>2. OneOpen'
  <2> SUFFICES ASSUME NEW i \in DOMAIN cs', NEW j \in DOMAIN cs', cs'[i].open, cs'[j].open,
                      cs'[i].sandbox = cs'[j].sandbox
               PROVE  i = j
    BY DEF OneOpen
  <2>1. /\ i \in DOMAIN cs /\ cs[i].open /\ cs'[i].sandbox = cs[i].sandbox
        /\ j \in DOMAIN cs /\ cs[j].open /\ cs'[j].sandbox = cs[j].sandbox
    BY DEF Kept
  <2>2. QED
    BY <2>1 DEF TInv, OneOpen
<1>3. QED
  BY <1>1, <1>2 DEF Table

LEMMA KeptRepair ==
    ASSUME TInv, DOMAIN cs \subseteq DOMAIN cs', now' = now, repair' = repair
    PROVE  RepairOK'
<1>1. RepairOK
  BY TypeParts
<1>2. QED
  BY <1>1 DEF RepairOK

LEMMA KeptTick ==
    ASSUME TInv, cs' \in Seq(SessionRows), Len(cs) <= Len(cs'), now' = now, tick' = tick,
           plan'.start = plan.start, plan'.end = plan.end
    PROVE  TickOK'
<1>1. TickOK
  BY TypeParts
<1>2. Len(tick.cs) \in Nat /\ Len(cs) \in Nat /\ Len(cs') \in Nat
  BY StateFacts, TickFacts
<1>3. QED
  BY <1>1, <1>2 DEF TickOK

\* The first step of what follows has read nothing yet.
LEMMA GoToFacts ==
    ASSUME NEW pc \in {"sleep", "charge", "warn", "grace", "stop", "enforce", "reset", "roll"}, GoTo(pc)
    PROVE  /\ tick' \in TickRows /\ tick'.pc = pc /\ tick'.left = 1 /\ tick'.cs = <<>>
           /\ tick'.plan = NewPlan(0) /\ tick'.ready = {}
<1>1. NewPlan(0) \in PlanRows
  BY Constants DEF NewPlan, PlanRows, None
<1>2. tick' = [pc |-> pc, left |-> 1, cs |-> <<>>, plan |-> NewPlan(0), ready |-> {}]
  BY DEF GoTo, IdleTick
<1>3. pc \in DOMAIN AfterStep \cup {"sleep"}
  BY Steps
<1> HIDE DEF TickRows
<1>4. <<>> \in Seq(SessionRows)
  OBVIOUS
<1>5. tick' \in TickRows
  BY <1>1, <1>2, <1>3, <1>4 DEF TickRows
<1>6. QED
  BY <1>2, <1>5

LEMMA GoToTick ==
    ASSUME NEW pc \in {"sleep", "charge", "warn", "grace", "stop", "enforce", "reset"}, GoTo(pc),
           cs' \in Seq(SessionRows)
    PROVE  TickOK'
<1>1. /\ tick' \in TickRows /\ tick'.pc = pc /\ tick'.cs = <<>>
  BY GoToFacts
<1>2. Len(cs') \in Nat /\ Len(<<>>) = 0 /\ DOMAIN (<<>>) = {}
  OBVIOUS
<1>3. QED
  BY <1>1, <1>2 DEF TickOK

\* What is charged leaves the rows what they are.
LEMMA ChargedRows ==
    ASSUME TInv, NEW p \in PlanRows, NEW amount \in Nat
    PROVE  /\ ConsumedPlan(p, amount) \in PlanRows
           /\ ConsumedPlan(p, amount).start = p.start /\ ConsumedPlan(p, amount).end = p.end
           /\ ConsumedGrants(p, amount) \in Seq(GrantRows)
<1>1. GrantsOK
  BY StateFacts
<1>2. QED
  BY <1>1, ConsumedPlanFacts, ConsumedGrantsFacts

LEMMA WorldKept ==
    ASSUME TInv, UNCHANGED <<now, served, stale, status, mode, used>>
    PROVE  World'
<1>1. World
  BY TypeParts
<1>2. QED
  BY <1>1 DEF World

\* The counters of what is bounded.
UsedRows == [ops: Nat, grants: Nat, faults: Nat, late: Nat]

LEMMA UsedMore ==
    ASSUME NEW u \in UsedRows, NEW k \in Nat
    PROVE  /\ [u EXCEPT !.ops = @ + 1] \in UsedRows /\ [u EXCEPT !.grants = @ + 1] \in UsedRows
           /\ [u EXCEPT !.faults = @ + k] \in UsedRows /\ [u EXCEPT !.faults = @ + 1] \in UsedRows
           /\ [u EXCEPT !.late = @ + 1] \in UsedRows
<1>1. u.ops + 1 \in Nat /\ u.grants + 1 \in Nat /\ u.faults + k \in Nat /\ u.faults + 1 \in Nat /\ u.late + 1 \in Nat
  BY DEF UsedRows
<1>2. QED
  BY <1>1 DEF UsedRows

LEMMA WorldUsed ==
    ASSUME TInv, UNCHANGED <<now, served, stale>>, used' \in UsedRows,
           status' \in [Sandboxes -> {"creating", "ready", "stopped"}],
           mode' \in [Sandboxes -> {"Running", "Suspended"}]
    PROVE  World'
<1>1. World
  BY TypeParts
<1>2. QED
  BY <1>1 DEF World, UsedRows

LEMMA WorldFacts ==
    ASSUME TInv
    PROVE  /\ used \in UsedRows /\ status \in [Sandboxes -> {"creating", "ready", "stopped"}]
           /\ mode \in [Sandboxes -> {"Running", "Suspended"}]
<1>1. World
  BY TypeParts
<1>2. QED
  BY <1>1 DEF World, UsedRows

\* A step that reads, or only changes which step comes next.
LEMMA TickMoves ==
    ASSUME NEW t \in TickRows
    PROVE  /\ \A x \in Seq(SessionRows) : [t EXCEPT !.pc = "charge", !.left = 1, !.cs = x] \in TickRows
           /\ \A p \in PlanRows, R \in SUBSET Sandboxes :
                 [t EXCEPT !.pc = "stop", !.plan = p, !.ready = R] \in TickRows
           /\ \A R \in SUBSET Sandboxes : [t EXCEPT !.pc = "enforce", !.ready = R] \in TickRows
           /\ \A p \in PlanRows, x \in Seq(SessionRows), R \in SUBSET Sandboxes :
                 [t EXCEPT !.pc = "roll", !.plan = p, !.cs = x, !.ready = R] \in TickRows
           /\ [t EXCEPT !.left = 0] \in TickRows
<1> DEFINE A == DOMAIN AfterStep \cup {"sleep"}
           Q == Seq(SessionRows)
           W == SUBSET Sandboxes
           B == 0..1
<1>0. 0 \in B /\ 1 \in B
  OBVIOUS
<1>1. "charge" \in A /\ "stop" \in A /\ "enforce" \in A /\ "roll" \in A
  BY Steps
<1>2. t \in [pc: A, left: B, cs: Q, plan: PlanRows, ready: W]
  BY DEF TickRows
<1>3. TickRows = [pc: A, left: B, cs: Q, plan: PlanRows, ready: W]
  BY DEF TickRows
<1> HIDE DEF A, B, Q, W
<1>4. \A x \in Q : [t EXCEPT !.pc = "charge", !.left = 1, !.cs = x] \in TickRows
  BY <1>0, <1>1, <1>2, <1>3
<1>5. \A p \in PlanRows, R \in W : [t EXCEPT !.pc = "stop", !.plan = p, !.ready = R] \in TickRows
  BY <1>0, <1>1, <1>2, <1>3
<1>6. \A R \in W : [t EXCEPT !.pc = "enforce", !.ready = R] \in TickRows
  BY <1>0, <1>1, <1>2, <1>3
<1>7. \A p \in PlanRows, x \in Q, R \in W :
         [t EXCEPT !.pc = "roll", !.plan = p, !.cs = x, !.ready = R] \in TickRows
  BY <1>0, <1>1, <1>2, <1>3
<1>8. [t EXCEPT !.left = 0] \in TickRows
  BY <1>0, <1>1, <1>2, <1>3
<1>9. QED
  BY <1>4, <1>5, <1>6, <1>7, <1>8, Zenon DEF Q, W

\* The plan and the tick between two steps of the tick.
LEMMA PlanKept ==
    ASSUME TInv
    PROVE  plan \in PlanRows /\ plan.start < plan.end /\ tick \in TickRows /\ grants \in Seq(GrantRows)
           /\ cs \in Seq(SessionRows) /\ Len(cs) \in Nat /\ now \in Nat /\ (now \in 0..MaxTime)
<1>1. PlanOK /\ World
  BY TypeParts
<1>2. QED
  BY <1>1, StateFacts DEF PlanOK, World

LEMMA TypeInit == Init => TInv
<1> SUFFICES ASSUME Init PROVE TInv
  OBVIOUS
<1>1. /\ now = 0 /\ served = [s \in Sandboxes |-> 0] /\ repair = <<>> /\ stale = FALSE
      /\ status = [s \in Sandboxes |-> "ready"] /\ mode = [s \in Sandboxes |-> "Running"]
      /\ cs = <<>> /\ grants = <<>> /\ tick = IdleTick
      /\ used = [ops |-> 0, grants |-> 0, faults |-> 0, late |-> 0]
  BY DEF Init
<1>2. World
  <2>1. now \in 0..MaxTime
    BY <1>1, Constants
  <2>2. QED
    BY <1>1, <2>1 DEF World
<1>3. Table
  <2>1. cs \in Seq(SessionRows) /\ DOMAIN cs = {}
    BY <1>1
  <2>2. QED
    BY <2>1 DEF Table, OneOpen
<1>4. PlanOK
  <2>1. PICK g \in GracePeriods : plan = NewPlan(g)
    BY DEF Init
  <2>2. g \in Nat
    BY Constants
  <2>3. plan = [used |-> 0, overage |-> 0, start |-> 0, end |-> PeriodLength,
                patience |-> g, grace |-> None, warn80 |-> FALSE, warn100 |-> FALSE]
    BY <2>1, Zenon DEF NewPlan
  <2>4. QED
    BY <2>2, <2>3, Constants DEF PlanOK, PlanRows
<1>5. grants \in Seq(GrantRows)
  BY <1>1
<1>6. TickOK
  <2>1. NewPlan(0) \in PlanRows
    BY Constants DEF NewPlan, PlanRows, None
  <2>2. tick = [pc |-> "sleep", left |-> 1, cs |-> <<>>, plan |-> NewPlan(0), ready |-> {}]
    BY <1>1 DEF IdleTick
  <2>3. <<>> \in Seq(SessionRows) /\ Len(<<>>) = 0 /\ DOMAIN (<<>>) = {} /\ Len(cs) = 0
    BY <1>1
  <2>4. tick \in TickRows
    BY <2>1, <2>2, <2>3 DEF TickRows
  <2>5. QED
    BY <2>2, <2>3, <2>4 DEF TickOK
<1>7. RepairOK
  BY <1>1 DEF RepairOK
<1>8. QED
  BY <1>2, <1>3, <1>4, <1>5, <1>6, <1>7, TypeParts

\* Sessions that are closed, and the repair.
LEMMA TypeSessions ==
    ASSUME TInv,
           (\E s \in Sandboxes : CloseSession(s) \/ RepairLoad(s) \/ OpenSession(s)) \/ RepairCommit
    PROVE  TInv'
<1> USE PlanKept
<1>1. ASSUME NEW s \in Sandboxes, CloseSession(s) PROVE TInv'
  <2>1. /\ CloseSessions({s}, plan) /\ plan' = ConsumedPlan(plan, FinalSlices({s}))
        /\ UNCHANGED <<now, repair, served, stale, status, mode, tick, used>>
    BY <1>1 DEF CloseSession, world
  <2>2. Kept /\ FinalSlices({s}) \in Nat
    BY <2>1, CloseEffect
  <2>3. grants' = ConsumedGrants(plan, FinalSlices({s}))
    BY <2>1 DEF CloseSessions
  <2>4. /\ plan' \in PlanRows /\ plan'.start = plan.start /\ plan'.end = plan.end
        /\ grants' \in Seq(GrantRows)
    BY <2>1, <2>2, <2>3, ChargedRows
  <2>5. PlanOK'
    BY <2>4 DEF PlanOK
  <2>6. cs' \in Seq(SessionRows) /\ Len(cs') = Len(cs) /\ DOMAIN cs' = DOMAIN cs
    BY <2>2 DEF Kept
  <2>7. World' /\ Table' /\ TickOK' /\ RepairOK'
    BY <2>1, <2>2, <2>4, <2>6, WorldKept, KeptTable, KeptTick, KeptRepair
  <2>8. QED
    BY <2>4, <2>5, <2>7, TypePartsNext
<1>2. ASSUME NEW s \in Sandboxes, RepairLoad(s) PROVE TInv'
  <2>1. UNCHANGED <<now, served, stale, status, mode, cs, plan, grants, tick, used>>
    BY <1>2 DEF RepairLoad
  <2>2. PICK i \in OpenOf(s) : repair' = <<i, cs[i]>>
    BY <1>2 DEF RepairLoad
  <2>3. Kept
    BY <2>1, SameKept
  <2>4. World' /\ Table' /\ TickOK'
    BY <2>1, <2>3, WorldKept, KeptTable, KeptTick
  <2>5. PlanOK' /\ grants' \in Seq(GrantRows)
    BY <2>1 DEF PlanOK
  <2>6. RepairOK'
    <3>1. i \in DOMAIN cs /\ cs[i].open
      BY <2>2 DEF OpenOf, OpenSessions
    <3>2. i \in Nat /\ cs[i] \in SessionRows /\ cs[i].last <= now
      BY <3>1 DEF TInv, Loaded
    <3>3. repair'[1] = i /\ repair'[2] = cs[i] /\ repair' \in Nat \X SessionRows
      BY <2>2, <3>2
    <3>4. QED
      BY <2>1, <3>1, <3>2, <3>3 DEF RepairOK
  <2>7. QED
    BY <2>4, <2>5, <2>6, TypePartsNext
<1>3. ASSUME NEW s \in Sandboxes, OpenSession(s) PROVE TInv'
  <2> DEFINE c == NewSession(s, now)
  <2>1. /\ OpenOf(s) = {} /\ cs' = Append(cs, c)
        /\ UNCHANGED <<now, repair, served, stale, status, mode, plan, grants, tick, used>>
    BY <1>3 DEF OpenSession, world
  <2>2. c = [sandbox |-> s, open |-> TRUE, started |-> now, last |-> now, hours |-> 0]
    BY DEF NewSession
  <2> HIDE DEF c
  <2>3. c \in SessionRows /\ c.sandbox = s /\ c.open /\ c.last = now
    BY <2>2 DEF SessionRows
  <2>4. /\ cs' \in Seq(SessionRows) /\ Len(cs') = Len(cs) + 1 /\ DOMAIN cs' = 1..(Len(cs) + 1)
        /\ DOMAIN cs = 1..Len(cs) /\ cs'[Len(cs) + 1] = c
        /\ \A i \in DOMAIN cs : cs'[i] = cs[i]
    BY <2>1, <2>3
  <2>5. Table'
    <3>1. \A i \in DOMAIN cs : i # Len(cs) + 1
      BY <2>4
    <3>2. \A i \in DOMAIN cs' : i \in DOMAIN cs \/ i = Len(cs) + 1
      BY <2>4
    <3>3. \A i \in DOMAIN cs : cs[i].open => cs[i].sandbox # s
      BY <2>1 DEF OpenOf, OpenSessions
    <3>4. OneOpen'
      <4>1. \A i, j \in DOMAIN cs' : cs'[i].open /\ cs'[j].open /\ cs'[i].sandbox = cs'[j].sandbox => i = j
        <5> TAKE i, j \in DOMAIN cs'
        <5>1. CASE i \in DOMAIN cs /\ j \in DOMAIN cs
          BY <2>4, <5>1 DEF TInv, OneOpen
        <5>2. CASE ~(i \in DOMAIN cs /\ j \in DOMAIN cs)
          BY <2>3, <2>4, <3>2, <3>3, <5>2
        <5>3. QED
          BY <5>1, <5>2
      <4>2. QED
        BY <4>1 DEF OneOpen
    <3>5. \A i \in DOMAIN cs' : cs'[i].last <= now'
      <4> TAKE i \in DOMAIN cs'
      <4>1. CASE i \in DOMAIN cs
        BY <2>1, <2>4, <4>1 DEF TInv, Loaded
      <4>2. CASE i = Len(cs) + 1
        BY <2>1, <2>3, <2>4, <4>2
      <4>3. QED
        BY <3>2, <4>1, <4>2
    <3>6. QED
      BY <2>4, <3>4, <3>5 DEF Table
  <2>6. World' /\ PlanOK' /\ grants' \in Seq(GrantRows)
    BY <2>1, WorldKept DEF PlanOK
  <2>7. TickOK' /\ RepairOK'
    <3>1. Len(cs) <= Len(cs') /\ DOMAIN cs \subseteq DOMAIN cs'
      BY <2>4
    <3>2. QED
      BY <2>1, <2>4, <3>1, KeptTick, KeptRepair
  <2>8. QED
    BY <2>5, <2>6, <2>7, TypePartsNext
<1>4. ASSUME RepairCommit PROVE TInv'
  <2>1. /\ repair' = <<>> /\ UNCHANGED <<now, served, status, mode, tick, used>>
        /\ stale' = (stale \/ (cs[repair[1]].open /\ cs[repair[1]] # repair[2]))
    BY <1>4 DEF RepairCommit
  <2>2. /\ Kept /\ RepairAmount \in Nat
        /\ plan' = ConsumedPlan(plan, RepairAmount) /\ grants' = ConsumedGrants(plan, RepairAmount)
    BY <1>4, RepairEffect
  <2>3. /\ plan' \in PlanRows /\ plan'.start = plan.start /\ plan'.end = plan.end
        /\ grants' \in Seq(GrantRows)
    BY <2>2, ChargedRows
  <2>4. stale' \in BOOLEAN
    BY <2>1 DEF TInv, TypeOK
  <2>5. World'
    <3>1. World
      BY TypeParts
    <3>2. QED
      BY <2>1, <2>4, <3>1 DEF World
  <2>6. cs' \in Seq(SessionRows) /\ Len(cs') = Len(cs) /\ DOMAIN cs' = DOMAIN cs
    BY <2>2 DEF Kept
  <2>7. Table' /\ TickOK' /\ PlanOK' /\ RepairOK'
    <3>1. Table' /\ TickOK'
      BY <2>1, <2>2, <2>3, <2>6, KeptTable, KeptTick
    <3>2. PlanOK' /\ RepairOK'
      BY <2>1, <2>3 DEF PlanOK, RepairOK
    <3>3. QED
      BY <3>1, <3>2
  <2>8. QED
    BY <2>3, <2>5, <2>7, TypePartsNext
<1>5. QED
  BY <1>1, <1>2, <1>3, <1>4

\* The user, the sync loop and administrators.
LEMMA TypeWorld ==
    ASSUME TInv, (\E s \in Sandboxes : Start(s) \/ Stop(s) \/ Sync(s)) \/ Grant
    PROVE  TInv'
<1> USE PlanKept
<1>1. UNCHANGED <<now, repair, served, stale, cs, plan, tick>>
  BY DEF Start, Stop, Sync, Grant, world
<1>2. Kept
  BY <1>1, SameKept
<1>3. Table' /\ PlanOK' /\ TickOK' /\ RepairOK'
  <2>1. Table' /\ RepairOK'
    BY <1>1, <1>2, KeptTable, KeptRepair
  <2>2. TickOK'
    BY <1>1, KeptTick
  <2>3. QED
    BY <1>1, <2>1, <2>2 DEF PlanOK
<1>4. /\ used \in UsedRows /\ status \in [Sandboxes -> {"creating", "ready", "stopped"}]
      /\ mode \in [Sandboxes -> {"Running", "Suspended"}]
  BY WorldFacts
<1>5. World' /\ grants' \in Seq(GrantRows)
  <2>1. ASSUME NEW s \in Sandboxes, Start(s) \/ Stop(s) \/ Sync(s) PROVE World' /\ grants' = grants
    <3>1. grants' = grants /\ used' \in {used, [used EXCEPT !.ops = @ + 1]}
      BY <2>1 DEF Start, Stop, Sync
    <3>2. used' \in UsedRows
      BY <1>4, <3>1, UsedMore
    <3>3. /\ status' \in [Sandboxes -> {"creating", "ready", "stopped"}]
          /\ mode' \in [Sandboxes -> {"Running", "Suspended"}]
      BY <1>4, <2>1 DEF Start, Stop, Sync
    <3>4. QED
      BY <1>1, <3>1, <3>2, <3>3, WorldUsed
  <2>2. ASSUME Grant PROVE World' /\ grants' \in Seq(GrantRows)
    <3>1. UNCHANGED <<now, served, stale, status, mode>> /\ used' = [used EXCEPT !.grants = @ + 1]
      BY <2>2 DEF Grant, world
    <3>2. World'
      <4>1. used' \in UsedRows
        BY <1>4, <3>1, UsedMore
      <4>2. QED
        BY <1>4, <3>1, <4>1, WorldUsed
    <3>3. PICK expires \in {now + 2, Never} :
             grants' = Append(grants, [left |-> GrantAmount, expires |-> expires])
      BY <2>2 DEF Grant
    <3>4. [left |-> GrantAmount, expires |-> expires] \in GrantRows
      BY Constants DEF GrantRows, Never
    <3>5. QED
      BY <3>2, <3>3, <3>4
  <2>3. QED
    BY <2>1, <2>2
<1>6. QED
  BY <1>3, <1>5, TypePartsNext

\* The tick.
LEMMA TypeMeter ==
    ASSUME TInv, MeterLoad \/ MeterCommit \/ Warn \/ StepFails
    PROVE  TInv'
<1> USE PlanKept
<1>1. ASSUME MeterLoad PROVE TInv'
  <2>1. /\ UNCHANGED <<now, repair, served, stale, status, mode, cs, plan, grants, used>>
        /\ tick' = [tick EXCEPT !.pc = "charge", !.left = 1, !.cs = cs]
    BY <1>1 DEF MeterLoad, world
  <2>2. Kept
    BY <2>1, SameKept
  <2>3. World' /\ Table' /\ RepairOK'
    BY <2>1, <2>2, WorldKept, KeptTable, KeptRepair
  <2>4. PlanOK' /\ grants' \in Seq(GrantRows)
    BY <2>1 DEF PlanOK
  <2>5. tick' \in TickRows
    <3>1. [tick EXCEPT !.pc = "charge", !.left = 1, !.cs = cs] \in TickRows
      BY TickMoves, Zenon
    <3>2. QED
      BY <2>1, <3>1
  <2>6. tick'.pc = "charge" /\ tick'.cs = cs
    <3>1. tick \in [pc: DOMAIN AfterStep \cup {"sleep"}, left: 0..1, cs: Seq(SessionRows), plan: PlanRows,
                    ready: SUBSET Sandboxes]
      BY DEF TickRows
    <3>2. QED
      BY <2>1, <3>1
  <2>7. TickOK'
    BY <2>1, <2>5, <2>6 DEF TickOK, TInv, Loaded
  <2>8. QED
    BY <2>3, <2>4, <2>7, TypePartsNext
<1>2. ASSUME MeterCommit PROVE TInv'
  <2>0. UNCHANGED <<world, status, mode, used>> /\ GoTo("warn")
    BY <1>2, Zenon DEF MeterCommit
  <2>1. UNCHANGED <<now, repair, served, stale, status, mode, used>> /\ GoTo("warn")
    BY <2>0 DEF world
  <2>2. /\ Kept /\ MeterAmount \in Nat
        /\ plan' = ConsumedPlan(plan, MeterAmount) /\ grants' = ConsumedGrants(plan, MeterAmount)
    BY <1>2, MeterEffect
  <2>3. /\ plan' \in PlanRows /\ plan'.start = plan.start /\ plan'.end = plan.end
        /\ grants' \in Seq(GrantRows)
    BY <2>2, ChargedRows
  <2>4. cs' \in Seq(SessionRows) /\ DOMAIN cs' = DOMAIN cs
    BY <2>2 DEF Kept
  <2>5. World' /\ Table' /\ RepairOK' /\ TickOK'
    BY <2>1, <2>2, <2>4, WorldKept, KeptTable, KeptRepair, GoToTick
  <2>6. PlanOK'
    BY <2>3 DEF PlanOK
  <2>7. QED
    BY <2>3, <2>5, <2>6, TypePartsNext
<1>3. ASSUME Warn PROVE TInv'
  <2>1. /\ UNCHANGED <<now, repair, served, stale, status, mode, cs, grants, used>> /\ GoTo("grace")
    BY <1>3 DEF Warn, world
  <2>2. plan' \in {plan, [plan EXCEPT !.warn100 = TRUE], [plan EXCEPT !.warn80 = TRUE]}
    BY <1>3 DEF Warn
  <2>3. PlanOK'
    BY <2>2 DEF PlanOK, PlanRows
  <2>4. Kept
    BY <2>1, SameKept
  <2>5. World' /\ Table' /\ RepairOK' /\ TickOK'
    BY <2>1, <2>4, WorldKept, KeptTable, KeptRepair, GoToTick
  <2>6. QED
    BY <2>1, <2>3, <2>5, TypePartsNext
<1>4. ASSUME StepFails PROVE TInv'
  <2>1. /\ UNCHANGED <<now, repair, served, stale, status, mode, cs, plan, grants>>
        /\ used' = [used EXCEPT !.faults = @ + 1] /\ tick.pc # "sleep" /\ GoTo(AfterStep[tick.pc])
    BY <1>4 DEF StepFails, world
  <2>2. used' \in UsedRows
    BY <2>1, WorldFacts, UsedMore
  <2>3. World'
    BY <2>1, <2>2, WorldFacts, WorldUsed
  <2>4. tick.pc \in {"charge", "warn", "grace", "stop", "enforce", "reset", "roll"}
    BY <2>1, TickFacts
  <2>5. AfterStep[tick.pc] \in {"warn", "grace", "reset", "sleep"}
    BY <2>4 DEF AfterStep
  <2>6. Kept
    BY <2>1, SameKept
  <2>7. Table' /\ RepairOK' /\ TickOK'
    BY <2>1, <2>5, <2>6, KeptTable, KeptRepair, GoToTick
  <2>8. PlanOK' /\ grants' \in Seq(GrantRows)
    BY <2>1 DEF PlanOK
  <2>9. QED
    BY <2>3, <2>7, <2>8, TypePartsNext
<1>5. QED
  BY <1>1, <1>2, <1>3, <1>4

\* The fields of the tick after a step that keeps some of them.
LEMMA TickFields ==
    ASSUME NEW t \in TickRows, NEW u
    PROVE  /\ \A p, R : u = [t EXCEPT !.pc = "stop", !.plan = p, !.ready = R] =>
                 u.pc = "stop" /\ u.plan = p /\ u.ready = R /\ u.cs = t.cs /\ u.left = t.left
           /\ \A R : u = [t EXCEPT !.pc = "enforce", !.ready = R] =>
                 u.pc = "enforce" /\ u.plan = t.plan /\ u.ready = R /\ u.cs = t.cs /\ u.left = t.left
           /\ \A p, x, R : u = [t EXCEPT !.pc = "roll", !.plan = p, !.cs = x, !.ready = R] =>
                 u.pc = "roll" /\ u.plan = p /\ u.ready = R /\ u.cs = x /\ u.left = t.left
           /\ u = [t EXCEPT !.left = 0] =>
                 u.pc = t.pc /\ u.left = 0 /\ u.cs = t.cs /\ u.plan = t.plan /\ u.ready = t.ready
<1>1. t = [pc |-> t.pc, left |-> t.left, cs |-> t.cs, plan |-> t.plan, ready |-> t.ready]
  BY DEF TickRows
<1>2. \A p, R : u = [t EXCEPT !.pc = "stop", !.plan = p, !.ready = R] =>
         u.pc = "stop" /\ u.plan = p /\ u.ready = R /\ u.cs = t.cs /\ u.left = t.left
  BY <1>1
<1>3. \A R : u = [t EXCEPT !.pc = "enforce", !.ready = R] =>
         u.pc = "enforce" /\ u.plan = t.plan /\ u.ready = R /\ u.cs = t.cs /\ u.left = t.left
  BY <1>1
<1>4. \A p, x, R : u = [t EXCEPT !.pc = "roll", !.plan = p, !.cs = x, !.ready = R] =>
         u.pc = "roll" /\ u.plan = p /\ u.ready = R /\ u.cs = x /\ u.left = t.left
  BY <1>1
<1>5. u = [t EXCEPT !.left = 0] =>
         u.pc = t.pc /\ u.left = 0 /\ u.cs = t.cs /\ u.plan = t.plan /\ u.ready = t.ready
  BY <1>1
<1>6. QED
  BY <1>2, <1>3, <1>4, <1>5, Zenon

LEMMA TypeGrace ==
    ASSUME TInv, GraceLoad \/ GraceStop \/ GraceCommit
    PROVE  TInv'
<1> USE PlanKept
<1>1. ASSUME GraceLoad PROVE TInv'
  <2>1. UNCHANGED <<now, repair, served, stale, status, mode, cs, grants, used>>
    BY <1>1 DEF GraceLoad, world
  <2>2. Kept
    BY <2>1, SameKept
  <2>3. World' /\ Table' /\ RepairOK' /\ grants' \in Seq(GrantRows)
    BY <2>1, <2>2, WorldKept, KeptTable, KeptRepair
  <2>4. CASE plan' = plan /\ tick' = [tick EXCEPT !.pc = "stop", !.plan = plan, !.ready = Running]
    <3>1. tick' \in TickRows /\ tick'.pc = "stop" /\ tick'.cs = tick.cs
      <4>1. Running \in SUBSET Sandboxes
        BY DEF Running
      <4>2. [tick EXCEPT !.pc = "stop", !.plan = plan, !.ready = Running] \in TickRows
        BY <4>1, TickMoves, Zenon
      <4>3. tick'.pc = "stop" /\ tick'.cs = tick.cs
        BY <2>4, TickFields, Zenon
      <4>4. QED
        BY <2>4, <4>2, <4>3
    <3>2. TickOK'
      BY <2>1, <3>1 DEF TickOK, TInv, Loaded
    <3>3. PlanOK'
      BY <2>4 DEF PlanOK
    <3>4. QED
      BY <2>3, <3>2, <3>3, TypePartsNext
  <2>5. CASE GoTo("reset") /\ plan' \in {plan, [plan EXCEPT !.grace = None], [plan EXCEPT !.grace = now]}
    <3>1. TickOK'
      BY <2>1, <2>5, GoToTick
    <3>2. PlanOK'
      BY <2>5 DEF PlanOK, PlanRows
    <3>3. QED
      BY <2>3, <3>1, <3>2, TypePartsNext
  <2>6. QED
    BY <1>1, <2>4, <2>5 DEF GraceLoad
<1>2. ASSUME GraceStop PROVE TInv'
  <2>1. UNCHANGED <<now, repair, served, stale, status, cs, plan, grants>>
    BY <1>2, Zenon DEF GraceStop, world
  <2>2. PICK failed \in {{}} \cup {{s} : s \in tick.ready} :
          /\ mode' = [s \in Sandboxes |-> IF s \in tick.ready \ failed THEN "Suspended" ELSE mode[s]]
          /\ tick' = [tick EXCEPT !.pc = "enforce", !.ready = tick.ready \ failed]
          /\ used' = [used EXCEPT !.faults = @ + Cardinality(failed)]
    BY <1>2, Zenon DEF GraceStop
  <2>3. Kept
    BY <2>1, SameKept
  <2>4. Table' /\ RepairOK' /\ PlanOK' /\ grants' \in Seq(GrantRows)
    BY <2>1, <2>3, KeptTable, KeptRepair DEF PlanOK
  <2>5. mode' \in [Sandboxes -> {"Running", "Suspended"}]
    BY <2>2, WorldFacts
  <2>6. Cardinality(failed) \in Nat
    <3>1. CASE failed = {}
      BY <3>1, FS_EmptySet
    <3>2. CASE \E s : failed = {s}
      <4>1. PICK s : failed = {s}
        BY <3>2
      <4>2. Cardinality(failed) = 1
        BY <4>1, FS_Singleton
      <4>3. QED
        BY <4>2
    <3>3. QED
      BY <3>1, <3>2
  <2>7. used' \in UsedRows
    BY <2>2, <2>6, WorldFacts, UsedMore
  <2>8. World'
    BY <2>1, <2>5, <2>7, WorldFacts, WorldUsed
  <2>9. TickOK'
    <3>1. tick.ready \ failed \in SUBSET Sandboxes
      BY TickFacts
    <3>2. [tick EXCEPT !.pc = "enforce", !.ready = tick.ready \ failed] \in TickRows
      BY <3>1, TickMoves, Zenon
    <3>3. tick'.pc = "enforce" /\ tick'.cs = tick.cs
      <4> DEFINE R == tick.ready \ failed
      <4>1. tick' = [tick EXCEPT !.pc = "enforce", !.ready = R]
        BY <2>2
      <4> HIDE DEF R
      <4>2. tick = [pc |-> tick.pc, left |-> tick.left, cs |-> tick.cs, plan |-> tick.plan, ready |-> tick.ready]
        BY PlanKept DEF TickRows
      <4>3. QED
        BY <4>1, <4>2
    <3>4. tick' \in TickRows /\ tick'.pc = "enforce" /\ tick'.cs = tick.cs
      BY <2>2, <3>2, <3>3, Zenon
    <3>5. QED
      BY <2>1, <3>4 DEF TickOK, TInv, Loaded
  <2>10. QED
    BY <2>4, <2>8, <2>9, TypePartsNext
<1>3. ASSUME GraceCommit PROVE TInv'
  <2> DEFINE q == ConsumedPlan(tick.plan, FinalSlices(tick.ready))
             c == IF Running = {} THEN [q EXCEPT !.grace = None] ELSE q
  <2>1. /\ UNCHANGED <<now, repair, served, status, mode, used>> /\ GoTo("reset")
        /\ CloseSessions(tick.ready, tick.plan)
    BY <1>3, Zenon DEF GraceCommit
  <2>2. plan' = Merge(plan, tick.plan, c) /\ stale' = (stale \/ tick.plan # plan)
    BY <1>3, Zenon DEF GraceCommit
  <2>3. Kept /\ FinalSlices(tick.ready) \in Nat
    BY <2>1, CloseEffect
  <2>4. tick.plan \in PlanRows
    BY TickFacts
  <2>5. /\ q \in PlanRows /\ q.start = tick.plan.start /\ q.end = tick.plan.end
        /\ ConsumedGrants(tick.plan, FinalSlices(tick.ready)) \in Seq(GrantRows)
    BY <2>3, <2>4, ChargedRows
  <2>6. grants' \in Seq(GrantRows)
    BY <2>1, <2>5 DEF CloseSessions
  <2> HIDE DEF q
  <2>7. c \in PlanRows /\ c.start = tick.plan.start /\ c.end = tick.plan.end
    BY <2>5 DEF PlanRows
  <2> HIDE DEF c
  <2>8. PlanOK'
    <3>1. plan' \in PlanRows /\ plan'.start = plan.start /\ plan'.end = plan.end
      BY <2>2, <2>4, <2>7, MergedPlan
    <3>2. QED
      BY <3>1 DEF PlanOK
  <2>9. stale' \in BOOLEAN
    BY <2>2 DEF TInv, TypeOK
  <2>10. World'
    <3>1. World
      BY TypeParts
    <3>2. QED
      BY <2>1, <2>9, <3>1 DEF World
  <2>11. cs' \in Seq(SessionRows) /\ DOMAIN cs' = DOMAIN cs
    BY <2>3 DEF Kept
  <2>12. Table' /\ RepairOK' /\ TickOK'
    BY <2>1, <2>3, <2>11, KeptTable, KeptRepair, GoToTick
  <2>13. QED
    BY <2>6, <2>8, <2>10, <2>12, TypePartsNext
<1>4. QED
  BY <1>1, <1>2, <1>3

LEMMA TypeReset ==
    ASSUME TInv, ResetLoad \/ ResetCommit
    PROVE  TInv'
<1> USE PlanKept
<1>1. ASSUME ResetLoad PROVE TInv'
  <2>1. UNCHANGED <<now, repair, served, stale, status, mode, cs, plan, grants, used>>
    BY <1>1 DEF ResetLoad, world
  <2>2. Kept
    BY <2>1, SameKept
  <2>3. World' /\ Table' /\ RepairOK' /\ PlanOK' /\ grants' \in Seq(GrantRows)
    BY <2>1, <2>2, WorldKept, KeptTable, KeptRepair DEF PlanOK
  <2> DEFINE R == {s \in Sandboxes : status[s] = "ready"}
             u == [tick EXCEPT !.pc = "roll", !.plan = plan, !.cs = cs, !.ready = R]
  <2>4. CASE plan.end <= now /\ tick' = u
    <3>1. R \in SUBSET Sandboxes
      OBVIOUS
    <3> HIDE DEF R
    <3>2. u \in TickRows
      BY <3>1, TickMoves, Zenon
    <3>3. tick' = [tick EXCEPT !.pc = "roll", !.plan = plan, !.cs = cs, !.ready = R]
      BY <2>4
    <3>4. tick'.pc = "roll" /\ tick'.cs = cs /\ tick'.plan = plan
      <4>1. tick = [pc |-> tick.pc, left |-> tick.left, cs |-> tick.cs, plan |-> tick.plan,
                    ready |-> tick.ready]
        BY PlanKept DEF TickRows
      <4>2. QED
        BY <3>3, <4>1
    <3> HIDE DEF u
    <3>6. TickOK'
      BY <2>1, <2>4, <3>2, <3>4 DEF TickOK, TInv, Loaded
    <3>5. QED
      BY <2>3, <3>6, TypePartsNext
  <2>5. CASE GoTo("sleep")
    <3>1. TickOK'
      BY <2>1, <2>5, GoToTick
    <3>2. QED
      BY <2>3, <3>1, TypePartsNext
  <2>6. QED
    BY <1>1, <2>4, <2>5 DEF ResetLoad
<1>2. ASSUME ResetCommit PROVE TInv'
  <2>1. UNCHANGED <<world, status, mode, grants, used>> /\ GoTo("sleep")
    BY <1>2, Zenon DEF ResetCommit
  <2>2. UNCHANGED <<now, repair, served, stale, status, mode, grants, used>>
    BY <2>1 DEF world
  <2>3. World' /\ grants' \in Seq(GrantRows)
    BY <2>2, WorldKept
  <2>4. CASE UNCHANGED <<cs, plan>>
    <3>1. Kept
      BY <2>4, SameKept
    <3>2. Table' /\ RepairOK' /\ PlanOK' /\ TickOK'
      BY <2>1, <2>2, <2>4, <3>1, KeptTable, KeptRepair, GoToTick DEF PlanOK
    <3>3. QED
      BY <2>3, <3>2, TypePartsNext
  <2>5. CASE ~UNCHANGED <<cs, plan>>
    <3>1. /\ cs' \in Seq(SessionRows) /\ Len(cs) <= Len(cs') /\ OneOpen'
          /\ \A i \in DOMAIN cs' : cs'[i].last <= now
          /\ plan' \in PlanRows /\ plan'.start < plan'.end
      BY <1>2, <2>5, ResetEffect
    <3>2. Table' /\ PlanOK' /\ TickOK'
      BY <2>1, <2>2, <3>1, GoToTick DEF Table, PlanOK
    <3>3. DOMAIN cs = 1..Len(cs) /\ DOMAIN cs' = 1..Len(cs') /\ Len(cs') \in Nat
      BY <3>1
    <3>4. DOMAIN cs \subseteq DOMAIN cs'
      BY <3>1, <3>3
    <3>5. RepairOK'
      BY <2>2, <3>4, KeptRepair
    <3>6. QED
      BY <2>3, <3>2, <3>5, TypePartsNext
  <2>6. QED
    BY <2>4, <2>5
<1>3. QED
  BY <1>1, <1>2

\* The interval.
LEMMA TypePass ==
    ASSUME TInv, NEW late \in BOOLEAN, Pass(late)
    PROVE  TInv'
<1> USE PlanKept
<1>1. /\ now < MaxTime /\ tick.pc = "sleep" /\ repair = <<>> /\ now' = now + 1
      /\ served' = [s \in Sandboxes |-> served[s] + Cardinality(OpenOf(s))]
      /\ tick' = [tick EXCEPT !.left = 0]
      /\ used' = IF late THEN [used EXCEPT !.late = @ + 1] ELSE used
      /\ UNCHANGED <<repair, stale, status, mode, cs, plan, grants>>
  BY DEF Pass
<1>2. World'
  <2>1. used' \in UsedRows
    <3>1. [used EXCEPT !.late = @ + 1] \in UsedRows
      BY WorldFacts, UsedMore
    <3>2. QED
      BY <1>1, <3>1, WorldFacts
  <2>2. served' \in [Sandboxes -> Nat]
    <3>1. served \in [Sandboxes -> Nat]
      BY StateFacts
    <3>2. \A s \in Sandboxes : Cardinality(OpenOf(s)) \in Nat
      <4> TAKE s \in Sandboxes
      <4>1. IsFiniteSet(DOMAIN cs)
        BY TableFacts
      <4>2. OpenOf(s) \in SUBSET DOMAIN cs
        BY DEF OpenOf, OpenSessions
      <4>3. QED
        BY <4>1, <4>2, FS_Subset, FS_CardinalityType
    <3>3. QED
      BY <1>1, <3>1, <3>2
  <2>3. now' \in 0..MaxTime
    <3>1. now \in Nat /\ MaxTime \in Nat
      BY Constants
    <3>2. QED
      BY <1>1, <3>1
  <2>4. World
    BY TypeParts
  <2>5. QED
    BY <1>1, <2>1, <2>2, <2>3, <2>4 DEF World, UsedRows
<1>3. Table'
  <2>1. \A i \in DOMAIN cs : cs[i].last <= now /\ cs[i].last \in Nat
    BY TableFacts DEF TInv, Loaded
  <2>2. \A i \in DOMAIN cs' : cs'[i].last <= now'
    BY <1>1, <2>1
  <2>3. OneOpen'
    BY <1>1 DEF TInv, OneOpen
  <2>4. QED
    BY <1>1, <2>2, <2>3 DEF Table
<1>4. TickOK'
  <2>1. [tick EXCEPT !.left = 0] \in TickRows
    BY TickMoves, Zenon
  <2>2. tick'.pc = tick.pc /\ tick'.cs = tick.cs
    BY <1>1, TickFields, Zenon
  <2>3. tick' \in TickRows /\ tick'.pc = "sleep" /\ tick'.cs = tick.cs
    BY <1>1, <2>1, <2>2
  <2>4. tick.cs \in Seq(SessionRows)
    BY TickFacts
  <2>5. \A i \in DOMAIN tick.cs : tick.cs[i].last <= now /\ tick.cs[i].last \in Nat
    BY <2>4, TableFacts DEF TInv, Loaded
  <2>6. \A i \in DOMAIN tick'.cs : tick'.cs[i].last <= now'
    BY <1>1, <2>3, <2>5
  <2>7. Len(tick'.cs) <= Len(cs')
    BY <1>1, <2>3 DEF TInv, Loaded
  <2>8. QED
    BY <2>3, <2>6, <2>7 DEF TickOK
<1>5. PlanOK' /\ RepairOK' /\ grants' \in Seq(GrantRows)
  BY <1>1 DEF PlanOK, RepairOK
<1>6. QED
  BY <1>2, <1>3, <1>4, <1>5, TypePartsNext

LEMMA TypeStep == TInv /\ [Next]_vars => TInv'
<1> SUFFICES ASSUME TInv, [Next]_vars PROVE TInv'
  OBVIOUS
<1>1. CASE Next
  BY <1>1, TypeSessions, TypeWorld, TypeMeter, TypeGrace, TypeReset, TypePass DEF Next, Tick
<1>2. CASE UNCHANGED vars
  <2>1. UNCHANGED <<now, served, stale, status, mode, used, repair, tick, plan, cs, grants>>
    BY <1>2 DEF vars
  <2>2. Kept
    BY <2>1, SameKept
  <2>3. World' /\ Table' /\ RepairOK' /\ TickOK'
    BY <2>1, <2>2, PlanKept, WorldKept, KeptTable, KeptRepair, KeptTick
  <2>4. PlanOK' /\ grants' \in Seq(GrantRows)
    BY <2>1, PlanKept DEF PlanOK
  <2>5. QED
    BY <2>3, <2>4, TypePartsNext
<1>3. QED
  BY <1>1, <1>2

\* TInv, the inductive invariant behind everything that follows.
LEMMA TypeInvariant == Spec => []TInv
BY TypeInit, TypeStep, PTL DEF Spec

\* TypeOK: what is charged, merged, rolled over and inserted by the tick, requests
\* and the repair keeps the type of its column, no balance becomes negative, and a
\* sandbox has one open session at most.
THEOREM TypeCorrect == Spec => []TypeOK
<1>1. TInv => TypeOK
  BY DEF TInv
<1>2. QED
  BY <1>1, TypeInvariant, PTL

-----------------------------------------------------------------------------
(* What was metered was charged, once.                                     *)

Charged == plan.used + plan.overage + Total(Spent(grants), DOMAIN grants)
Hour == Total(Metered, DOMAIN cs)

LEMMA ChargedOnceIs ==
    /\ ChargedOnce <=> (plan.start = 0 /\ ~stale => Charged = Hour)
    /\ ChargedOnce' <=> (plan'.start = 0 /\ ~stale' => Charged' = Hour')
BY DEF ChargedOnce, FirstPeriod, Charged, Hour, Spent

LEMMA ChargedTypes ==
    ASSUME TInv
    PROVE  /\ Charged \in Int /\ Hour \in Int /\ \A i \in DOMAIN cs : Metered[i] \in Nat
           /\ IsFiniteSet(DOMAIN cs) /\ IsFiniteSet(DOMAIN grants)
           /\ \A g \in DOMAIN grants : Spent(grants)[g] \in Int
<1>1. /\ GrantsOK /\ cs \in Seq(SessionRows) /\ plan \in PlanRows
  BY StateFacts
<1>2. IsFiniteSet(DOMAIN cs) /\ \A i \in DOMAIN cs : Metered[i] \in Nat
  BY <1>1, TableFacts DEF Metered
<1>3. IsFiniteSet(DOMAIN grants) /\ \A g \in DOMAIN grants : Spent(grants)[g] \in Int
  BY <1>1, GrantFacts, Constants DEF Spent
<1>4. Total(Metered, DOMAIN cs) \in Int
  BY <1>2, TotalInt
<1>5. Total(Spent(grants), DOMAIN grants) \in Int
  BY <1>3, TotalInt
<1>6. plan.used \in Nat /\ plan.overage \in Nat
  BY <1>1, PlanFacts
<1>7. QED
  BY <1>2, <1>3, <1>4, <1>5, <1>6 DEF Charged, Hour

\* A step that charges to the plan what it adds to the sessions.
LEMMA ChargeBy ==
    ASSUME TInv, ChargedOnce, NEW amount \in Nat,
           plan'.used = ConsumedPlan(plan, amount).used,
           plan'.overage = ConsumedPlan(plan, amount).overage,
           plan'.start = plan.start, grants' = ConsumedGrants(plan, amount),
           Total(Metered', DOMAIN cs') = Total(Metered, DOMAIN cs) + amount,
           ~stale' => ~stale
    PROVE  ChargedOnce'
<1>1. GrantsOK /\ plan \in PlanRows
  BY StateFacts
<1>2. plan'.used + plan'.overage + Total(Spent(grants'), DOMAIN grants')
        = plan.used + plan.overage + Total(Spent(grants), DOMAIN grants) + amount
  BY <1>1, Conservation
<1>3. Charged' = Charged + amount /\ Hour' = Hour + amount
  BY <1>2 DEF Charged, Hour
<1>4. QED
  BY <1>3, ChargedOnceIs

\* A step that charges nothing and meters nothing.
LEMMA ChargeNone ==
    ASSUME TInv, ChargedOnce, Charged' = Charged, Hour' = Hour, plan'.start = plan.start, ~stale' => ~stale
    PROVE  ChargedOnce'
BY ChargedOnceIs

LEMMA ChargedStep == TInv /\ ChargedOnce /\ [Next]_vars => ChargedOnce'
<1> SUFFICES ASSUME TInv, ChargedOnce, [Next]_vars PROVE ChargedOnce'
  OBVIOUS
<1>1. ASSUME NEW s \in Sandboxes, CloseSession(s) PROVE ChargedOnce'
  <2>1. /\ CloseSessions({s}, plan) /\ plan' = ConsumedPlan(plan, FinalSlices({s})) /\ stale' = stale
    BY <1>1 DEF CloseSession, world
  <2>2. /\ FinalSlices({s}) \in Nat
        /\ Total(Metered', DOMAIN cs') = Total(Metered, DOMAIN cs) + FinalSlices({s})
    BY <2>1, CloseEffect
  <2>3. grants' = ConsumedGrants(plan, FinalSlices({s}))
    BY <2>1 DEF CloseSessions
  <2>4. plan'.start = plan.start
    BY <2>1, <2>2, ChargedRows, PlanKept
  <2>5. QED
    BY <2>1, <2>2, <2>3, <2>4, ChargeBy
<1>2. ASSUME RepairCommit PROVE ChargedOnce'
  <2>1. /\ RepairAmount \in Nat
        /\ plan' = ConsumedPlan(plan, RepairAmount) /\ grants' = ConsumedGrants(plan, RepairAmount)
        /\ (cs[repair[1]].open => cs[repair[1]] = repair[2]) =>
              Total(Metered', DOMAIN cs') = Total(Metered, DOMAIN cs) + RepairAmount
        /\ ~stale' => ~stale /\ (cs[repair[1]].open => cs[repair[1]] = repair[2])
    BY <1>2, RepairEffect
  <2>2. plan'.start = plan.start
    BY <2>1, ChargedRows, PlanKept
  <2>3. CASE stale'
    BY <2>3, ChargedOnceIs
  <2>4. CASE ~stale'
    BY <2>1, <2>2, <2>4, ChargeBy
  <2>5. QED
    BY <2>3, <2>4
<1>3. ASSUME NEW s \in Sandboxes, OpenSession(s) PROVE ChargedOnce'
  <2> DEFINE c == NewSession(s, now)
  <2>1. /\ cs' = Append(cs, c) /\ UNCHANGED <<stale, plan, grants>>
    BY <1>3 DEF OpenSession, world
  <2>2. c.hours = 0
    BY DEF NewSession
  <2> HIDE DEF c
  <2> DEFINE f == Metered'
             g == Metered
             k == Len(cs) + 1
  <2>3. /\ DOMAIN cs' = DOMAIN cs \cup {k} /\ k \notin DOMAIN cs /\ IsFiniteSet(DOMAIN cs)
        /\ f[k] = 0 /\ \A i \in DOMAIN cs : f[i] = g[i] /\ g[i] \in Nat
    <3>1. cs \in Seq(SessionRows) /\ Len(cs) \in Nat /\ DOMAIN cs = 1..Len(cs)
      BY PlanKept
    <3>2. DOMAIN cs' = 1..k /\ cs'[k] = c /\ \A i \in DOMAIN cs : cs'[i] = cs[i]
      BY <2>1, <3>1
    <3>3. f[k] = 0 /\ \A i \in DOMAIN cs : f[i] = g[i]
      BY <2>2, <3>1, <3>2 DEF Metered
    <3>4. QED
      BY <3>1, <3>2, <3>3, ChargedTypes
  <2> HIDE DEF f, g, k
  <2>4. Total(f, DOMAIN cs \cup {k}) = Total(g, DOMAIN cs) + f[k]
    <3> DEFINE D == DOMAIN cs
    <3>1. IsFiniteSet(D) /\ k \notin D /\ f[k] \in Int /\ \A i \in D : f[i] \in Int /\ f[i] = g[i]
      BY <2>3
    <3> HIDE DEF D
    <3>2. Total(f, D \cup {k}) = Total(g, D) + f[k]
      BY <3>1, TotalAdd
    <3>3. QED
      BY <3>2 DEF D
  <2>5. Hour' = Hour
    <3>1. Hour' = Total(f, DOMAIN cs \cup {k}) /\ Hour = Total(g, DOMAIN cs)
      BY <2>3 DEF Hour, f, g
    <3>2. QED
      BY <2>3, <2>4, <3>1, ChargedTypes
  <2>6. QED
    BY <2>1, <2>5, ChargeNone DEF Charged
<1>4. ASSUME Grant PROVE ChargedOnce'
  <2>1. UNCHANGED <<stale, plan, cs>>
    BY <1>4 DEF Grant, world
  <2>2. PICK expires \in {now + 2, Never} :
           grants' = Append(grants, [left |-> GrantAmount, expires |-> expires])
    BY <1>4 DEF Grant
  <2> DEFINE f == Spent(grants')
             g == Spent(grants)
             k == Len(grants) + 1
             r == [left |-> GrantAmount, expires |-> expires]
  <2>3. /\ DOMAIN grants' = DOMAIN grants \cup {k} /\ k \notin DOMAIN grants /\ IsFiniteSet(DOMAIN grants)
        /\ f[k] = 0 /\ \A i \in DOMAIN grants : f[i] = g[i] /\ g[i] \in Int
    <3>1. grants \in Seq(GrantRows) /\ Len(grants) \in Nat /\ DOMAIN grants = 1..Len(grants)
      BY PlanKept
    <3>2. DOMAIN grants' = 1..k /\ grants'[k] = r /\ \A i \in DOMAIN grants : grants'[i] = grants[i]
      BY <2>2, <3>1
    <3>3. k \in DOMAIN grants' /\ r.left = GrantAmount /\ GrantAmount \in Nat
      BY <3>1, <3>2, Constants
    <3>4. f[k] = GrantAmount - r.left
      BY <3>2, <3>3 DEF Spent
    <3>5. \A i \in DOMAIN grants : f[i] = g[i]
      BY <3>1, <3>2 DEF Spent
    <3>6. QED
      BY <3>1, <3>2, <3>3, <3>4, <3>5, ChargedTypes
  <2> HIDE DEF f, g, k, r
  <2>4. Total(f, DOMAIN grants \cup {k}) = Total(g, DOMAIN grants) + f[k]
    <3> DEFINE D == DOMAIN grants
    <3>1. IsFiniteSet(D) /\ k \notin D /\ f[k] \in Int /\ \A i \in D : f[i] \in Int /\ f[i] = g[i]
      BY <2>3
    <3> HIDE DEF D
    <3>2. Total(f, D \cup {k}) = Total(g, D) + f[k]
      BY <3>1, TotalAdd
    <3>3. QED
      BY <3>2 DEF D
  <2>5. Total(f, DOMAIN grants') = Total(g, DOMAIN grants)
    <3>1. Total(g, DOMAIN grants) \in Int
      BY <2>3, TotalInt
    <3>2. QED
      BY <2>3, <2>4, <3>1
  <2>6. Charged' = Charged
    BY <2>1, <2>5 DEF Charged, f, g
  <2>7. Hour' = Hour
    BY <2>1 DEF Hour, Metered
  <2>8. QED
    BY <2>1, <2>6, <2>7, ChargeNone
<1>5. ASSUME MeterCommit PROVE ChargedOnce'
  <2>1. /\ MeterAmount \in Nat
        /\ plan' = ConsumedPlan(plan, MeterAmount) /\ grants' = ConsumedGrants(plan, MeterAmount)
        /\ Total(Metered', DOMAIN cs') = Total(Metered, DOMAIN cs) + MeterAmount
    BY <1>5, MeterEffect
  <2>2. UNCHANGED world
    BY <1>5, Zenon DEF MeterCommit
  <2>3. stale' = stale
    BY <2>2 DEF world
  <2>4. plan'.start = plan.start
    BY <2>1, ChargedRows, PlanKept
  <2>5. QED
    BY <2>1, <2>3, <2>4, ChargeBy
<1>6. ASSUME GraceCommit PROVE ChargedOnce'
  <2> DEFINE a == FinalSlices(tick.ready)
             q == ConsumedPlan(tick.plan, a)
             c == IF Running = {} THEN [q EXCEPT !.grace = None] ELSE q
  <2>1. /\ CloseSessions(tick.ready, tick.plan) /\ plan' = Merge(plan, tick.plan, c)
        /\ stale' = (stale \/ tick.plan # plan)
    BY <1>6, Zenon DEF GraceCommit
  <2>2. CASE stale'
    BY <2>2, ChargedOnceIs
  <2>3. CASE ~stale'
    <3>1. tick.plan = plan /\ ~stale
      BY <2>1, <2>3
    <3>2. a \in Nat /\ Total(Metered', DOMAIN cs') = Total(Metered, DOMAIN cs) + a
      BY <2>1, CloseEffect
    <3>3. grants' = ConsumedGrants(plan, a)
      BY <2>1, <3>1 DEF CloseSessions
    <3> HIDE DEF a
    <3>4. q \in PlanRows /\ q = ConsumedPlan(plan, a) /\ q.start = plan.start
      BY <3>1, <3>2, ChargedRows, PlanKept
    <3> HIDE DEF q
    <3>5. c \in PlanRows /\ c.start = q.start /\ c.used = q.used /\ c.overage = q.overage
      BY <3>4 DEF PlanRows, None
    <3> HIDE DEF c
    <3>6. plan' = c
      BY <2>1, <3>1, <3>5, MergedPlan, PlanKept
    <3>7. QED
      BY <2>3, <3>1, <3>2, <3>3, <3>4, <3>5, <3>6, ChargeBy
  <2>4. QED
    BY <2>2, <2>3
<1>7. ASSUME ResetCommit PROVE ChargedOnce'
  <2>1. UNCHANGED <<world, status, mode, grants, used>>
    BY <1>7, Zenon DEF ResetCommit
  <2>2. UNCHANGED <<stale, grants>>
    BY <2>1 DEF world
  <2>3. CASE UNCHANGED <<cs, plan>>
    BY <2>2, <2>3, ChargeNone DEF Charged, Hour, Metered
  <2>4. CASE ~UNCHANGED <<cs, plan>>
    <3>1. plan'.start \in Nat /\ 0 < plan'.start
      BY <1>7, <2>4, ResetEffect, PlanFacts
    <3>2. QED
      BY <3>1, ChargedOnceIs
  <2>5. QED
    BY <2>3, <2>4
<1>8. ASSUME Warn \/ GraceLoad PROVE ChargedOnce'
  <2>1. UNCHANGED <<stale, cs, grants>>
    BY <1>8 DEF Warn, GraceLoad, world
  <2>2. plan' \in {plan, [plan EXCEPT !.warn100 = TRUE], [plan EXCEPT !.warn80 = TRUE],
                   [plan EXCEPT !.grace = None], [plan EXCEPT !.grace = now]}
    BY <1>8 DEF Warn, GraceLoad
  <2>3. plan'.used = plan.used /\ plan'.overage = plan.overage /\ plan'.start = plan.start
    BY <2>2, PlanKept DEF PlanRows
  <2>4. QED
    BY <2>1, <2>3, ChargeNone DEF Charged, Hour, Metered
<1>9. ASSUME UNCHANGED <<stale, cs, plan, grants>> PROVE ChargedOnce'
  BY <1>9, ChargeNone DEF Charged, Hour, Metered
<1>10. ASSUME \/ \E s \in Sandboxes : RepairLoad(s) \/ Start(s) \/ Stop(s) \/ Sync(s)
              \/ MeterLoad \/ GraceStop \/ ResetLoad \/ StepFails \/ \E late \in BOOLEAN : Pass(late)
              \/ UNCHANGED vars
       PROVE  UNCHANGED <<stale, cs, plan, grants>>
  BY <1>10, Zenon DEF RepairLoad, Start, Stop, Sync, MeterLoad, GraceStop, ResetLoad, StepFails, Pass, vars, world
<1>11. QED
  BY <1>1, <1>2, <1>3, <1>4, <1>5, <1>6, <1>7, <1>8, <1>9, <1>10 DEF Next, Tick

\* ChargedOnce: within a billing period, and as long as nobody charged from a row
\* that had changed since it was loaded, the monthly pool, the grants and the
\* overage together have been charged what the sessions show
\* (consume_compute_credits, tick_metering, close_compute_session).
THEOREM ChargedCorrect == Spec => []ChargedOnce
<1>1. Init => ChargedOnce
  <2> SUFFICES ASSUME Init PROVE ChargedOnce
    OBVIOUS
  <2>1. cs = <<>> /\ grants = <<>>
    BY DEF Init
  <2>2. PICK g \in GracePeriods : plan = NewPlan(g)
    BY DEF Init
  <2>3. plan.used = 0 /\ plan.overage = 0
    BY <2>2 DEF NewPlan
  <2>4. DOMAIN cs = {} /\ DOMAIN grants = {}
    BY <2>1
  <2>5. Total(Metered, DOMAIN cs) = 0 /\ Total(Spent(grants), DOMAIN grants) = 0
    BY <2>4, TotalEmpty
  <2>6. QED
    BY <2>3, <2>5, ChargedOnceIs DEF Charged, Hour
<1>2. QED
  BY <1>1, ChargedStep, TypeInvariant, PTL DEF Spec

-----------------------------------------------------------------------------
(* The order of the pools.                                                 *)

\* When every grant that could be used is empty, no extra credits are left.
LEMMA Drained ==
    ASSUME GrantsOK, now' = now, grants' \in Seq(GrantRows), DOMAIN grants' = DOMAIN grants,
           \A g \in DOMAIN grants : grants'[g].expires = grants[g].expires /\ grants'[g].left <= grants[g].left,
           \A g \in Ours : grants'[g].left = 0
    PROVE  Extra' = 0
<1> DEFINE U == {g \in DOMAIN grants' : Usable(g)'}
<1>1. ASSUME NEW g \in U PROVE FALSE
  <2>1. g \in DOMAIN grants /\ grants'[g].left > 0 /\ grants'[g].expires > now'
    BY DEF Usable
  <2>5. grants'[g] \in GrantRows
    BY <2>1
  <2>2. grants'[g].left \in Nat /\ grants[g].left \in Nat
    BY <2>1, <2>5, GrantFacts DEF GrantRows
  <2>3. g \in Ours
    BY <2>1, <2>2 DEF Ours, Usable
  <2>4. QED
    BY <2>1, <2>3
<1>2. U = {}
  BY <1>1
<1>3. Extra' = Total(Left', U)
  BY DEF Extra
<1>4. QED
  BY <1>2, <1>3, TotalEmpty

\* consume_compute_credits by itself.
LEMMA ConsumeOrder ==
    ASSUME GrantsOK, NEW p \in PlanRows, NEW amount \in Nat, NEW q, q = ConsumedPlan(p, amount),
           grants' = ConsumedGrants(p, amount), now' = now
    PROVE  /\ q \in PlanRows /\ p.used <= q.used
           /\ (\E g \in DOMAIN grants : grants'[g].left < grants[g].left) => q.used >= Limit
           /\ q.overage # p.overage => q.used >= Limit /\ Extra' = 0
<1> DEFINE needed == ExtraNeeded(p, amount)
<1>1. /\ needed \in Nat /\ needed <= amount
      /\ needed > 0 => p.used + (amount - needed) >= Limit
  BY ExtraNeededFacts
<1>2. /\ q \in PlanRows /\ q.used = p.used + (amount - needed)
      /\ q.overage = p.overage + (IF needed <= Extra THEN 0 ELSE needed - Extra)
  BY ConsumedPlanFacts
<1>3. /\ grants' \in Seq(GrantRows) /\ DOMAIN grants' = DOMAIN grants
      /\ \A g \in DOMAIN grants : grants'[g].expires = grants[g].expires /\ grants'[g].left <= grants[g].left
      /\ needed = 0 => grants' = grants
      /\ needed >= Extra => \A g \in Ours : grants'[g].left = 0
  BY ConsumedGrantsFacts
<1> HIDE DEF needed
<1>4. p.used \in Nat /\ p.overage \in Nat /\ Extra \in Nat
  BY PlanFacts, GrantFacts
<1>5. p.used <= q.used
  BY <1>1, <1>2, <1>4
<1>6. (\E g \in DOMAIN grants : grants'[g].left < grants[g].left) => q.used >= Limit
  <2> SUFFICES ASSUME NEW g \in DOMAIN grants, grants'[g].left < grants[g].left PROVE q.used >= Limit
    OBVIOUS
  <2>1. grants[g].left \in Nat
    BY GrantFacts
  <2>2. grants' # grants
    BY <2>1
  <2>3. QED
    BY <1>1, <1>2, <1>3, <2>2
<1>7. q.overage # p.overage => q.used >= Limit /\ Extra' = 0
  <2> SUFFICES ASSUME q.overage # p.overage PROVE q.used >= Limit /\ Extra' = 0
    OBVIOUS
  <2>1. needed > Extra
    BY <1>1, <1>2, <1>4
  <2>2. q.used >= Limit
    BY <1>1, <1>2, <1>4, <2>1
  <2>3. \A g \in Ours : grants'[g].left = 0
    BY <1>1, <1>3, <1>4, <2>1
  <2>4. Extra' = 0
    BY <1>3, <2>3, Drained
  <2>5. QED
    BY <2>2, <2>4
<1>8. QED
  BY <1>2, <1>5, <1>6, <1>7

\* Enforcement knows no more of the month's credits used than are.
UsedKnown == tick.pc \in {"stop", "enforce"} => tick.plan.used <= plan.used

\* PoolOrder, for one step.
Ordered ==
    /\ (\E g \in DOMAIN grants : grants'[g].left < grants[g].left) => plan'.used >= Limit
    /\ plan'.overage > plan.overage => plan'.used >= Limit /\ Extra' = 0

\* What a step of one of these kinds does to the pools.
LEMMA PoolSteps ==
    ASSUME TInv, UsedKnown
    PROVE  /\ \A s \in Sandboxes : CloseSession(s) => Ordered /\ plan'.used >= plan.used
           /\ RepairCommit => Ordered /\ plan'.used >= plan.used
           /\ MeterCommit => Ordered
           /\ GraceCommit => Ordered
<1>0. GrantsOK /\ plan \in PlanRows /\ plan.used \in Nat /\ plan.overage \in Nat /\ Limit \in Nat
  BY StateFacts, PlanFacts, Constants
<1>1. ASSUME NEW amount \in Nat, plan' = ConsumedPlan(plan, amount), grants' = ConsumedGrants(plan, amount),
             now' = now
      PROVE  Ordered /\ plan'.used >= plan.used
  <2>1. /\ plan' \in PlanRows /\ plan.used <= plan'.used
        /\ (\E g \in DOMAIN grants : grants'[g].left < grants[g].left) => plan'.used >= Limit
        /\ plan'.overage # plan.overage => plan'.used >= Limit /\ Extra' = 0
    BY <1>0, <1>1, ConsumeOrder
  <2>2. plan'.overage \in Nat /\ plan'.used \in Nat
    BY <2>1, PlanFacts
  <2>3. QED
    BY <1>0, <2>1, <2>2 DEF Ordered
<1>2. ASSUME NEW s \in Sandboxes, CloseSession(s) PROVE Ordered /\ plan'.used >= plan.used
  <2>1. CloseSessions({s}, plan) /\ plan' = ConsumedPlan(plan, FinalSlices({s})) /\ now' = now
    BY <1>2 DEF CloseSession, world
  <2>2. FinalSlices({s}) \in Nat /\ grants' = ConsumedGrants(plan, FinalSlices({s}))
    BY <2>1, CloseEffect DEF CloseSessions
  <2>3. QED
    BY <1>1, <2>1, <2>2
<1>3. ASSUME RepairCommit PROVE Ordered /\ plan'.used >= plan.used
  <2>1. /\ RepairAmount \in Nat
        /\ plan' = ConsumedPlan(plan, RepairAmount) /\ grants' = ConsumedGrants(plan, RepairAmount)
    BY <1>3, RepairEffect
  <2>2. now' = now
    BY <1>3 DEF RepairCommit
  <2>3. QED
    BY <1>1, <2>1, <2>2
<1>4. ASSUME MeterCommit PROVE Ordered
  <2>1. /\ MeterAmount \in Nat
        /\ plan' = ConsumedPlan(plan, MeterAmount) /\ grants' = ConsumedGrants(plan, MeterAmount)
    BY <1>4, MeterEffect
  <2>2. UNCHANGED world
    BY <1>4, Zenon DEF MeterCommit
  <2>3. now' = now
    BY <2>2 DEF world
  <2>4. QED
    BY <1>1, <2>1, <2>3
<1>5. ASSUME GraceCommit PROVE Ordered
  <2> DEFINE a == FinalSlices(tick.ready)
             p == tick.plan
             q == ConsumedPlan(p, a)
             c == IF Running = {} THEN [q EXCEPT !.grace = None] ELSE q
  <2>1. /\ CloseSessions(tick.ready, p) /\ plan' = Merge(plan, p, c) /\ tick.pc = "enforce" /\ now' = now
    BY <1>5, Zenon DEF GraceCommit
  <2>2. a \in Nat /\ grants' = ConsumedGrants(p, a)
    BY <2>1, CloseEffect DEF CloseSessions
  <2>3. p \in PlanRows /\ p.used <= plan.used
    BY <2>1, PlanKept, TickFacts DEF UsedKnown
  <2> HIDE DEF a
  <2>4. /\ q \in PlanRows /\ p.used <= q.used
        /\ (\E g \in DOMAIN grants : grants'[g].left < grants[g].left) => q.used >= Limit
        /\ q.overage # p.overage => q.used >= Limit /\ Extra' = 0
    BY <1>0, <2>1, <2>2, <2>3, ConsumeOrder
  <2> HIDE DEF p, q
  <2>5. c \in PlanRows /\ c.used = q.used /\ c.overage = q.overage
    BY <2>4 DEF PlanRows, None
  <2> HIDE DEF c
  <2>6. /\ plan'.used = IF c.used # p.used THEN c.used ELSE plan.used
        /\ plan'.overage = IF c.overage # p.overage THEN c.overage ELSE plan.overage
    BY <1>0, <2>1, <2>3, <2>5, MergedPlan
  <2>7. p.used \in Nat /\ q.used \in Nat
    BY <2>3, <2>4, PlanFacts
  <2>8. q.used >= Limit => plan'.used >= Limit
    BY <1>0, <2>3, <2>5, <2>6, <2>7
  <2>9. plan'.overage > plan.overage => q.overage # p.overage
    BY <1>0, <2>5, <2>6
  <2>10. QED
    BY <2>4, <2>8, <2>9 DEF Ordered
<1>6. QED
  BY <1>2, <1>3, <1>4, <1>5

LEMMA OrderedKept ==
    ASSUME TInv, plan'.overage = plan.overage, \A g \in DOMAIN grants : grants'[g].left = grants[g].left
    PROVE  Ordered
<1>1. plan.overage \in Nat /\ \A g \in DOMAIN grants : grants[g].left \in Nat
  BY StateFacts, PlanFacts, GrantFacts
<1>2. QED
  BY <1>1 DEF Ordered

\* The steps that leave the plan as it is.
LEMMA QuietSteps ==
    ASSUME \/ \E s \in Sandboxes : RepairLoad(s) \/ OpenSession(s) \/ Start(s) \/ Stop(s) \/ Sync(s)
           \/ Grant \/ MeterLoad \/ GraceStop \/ ResetLoad \/ StepFails \/ \E late \in BOOLEAN : Pass(late)
           \/ UNCHANGED vars
    PROVE  plan' = plan /\ (Grant \/ grants' = grants)
BY Zenon DEF RepairLoad, OpenSession, Start, Stop, Sync, Grant, MeterLoad, GraceStop, ResetLoad, StepFails,
             Pass, vars, world

LEMMA OrderedStep == TInv /\ UsedKnown /\ [Next]_vars => Ordered
<1> SUFFICES ASSUME TInv, UsedKnown, [Next]_vars PROVE Ordered
  OBVIOUS
<1>1. ASSUME \/ \E s \in Sandboxes : CloseSession(s)
             \/ RepairCommit \/ MeterCommit \/ GraceCommit
      PROVE  Ordered
  BY <1>1, PoolSteps
<1>2. ASSUME Warn \/ GraceLoad PROVE Ordered
  <2>1. grants' = grants
    BY <1>2 DEF Warn, GraceLoad
  <2>2. plan' \in {plan, [plan EXCEPT !.warn100 = TRUE], [plan EXCEPT !.warn80 = TRUE],
                   [plan EXCEPT !.grace = None], [plan EXCEPT !.grace = now]}
    BY <1>2 DEF Warn, GraceLoad
  <2>3. plan'.overage = plan.overage
    BY <2>2, PlanKept DEF PlanRows
  <2>4. QED
    BY <2>1, <2>3, OrderedKept
<1>3. ASSUME ResetCommit PROVE Ordered
  <2>1. UNCHANGED <<world, status, mode, grants, used>>
    BY <1>3, Zenon DEF ResetCommit
  <2>2. plan.overage \in Nat /\ \A g \in DOMAIN grants : grants[g].left \in Nat
    BY StateFacts, PlanFacts, GrantFacts
  <2>3. CASE UNCHANGED <<cs, plan>>
    BY <2>1, <2>3, OrderedKept
  <2>4. CASE ~UNCHANGED <<cs, plan>>
    <3>1. plan'.overage \in {0, plan.overage}
      BY <1>3, <2>4, ResetEffect
    <3>2. QED
      BY <2>1, <2>2, <3>1 DEF Ordered
  <2>5. QED
    BY <2>3, <2>4
<1>4. ASSUME plan' = plan, Grant \/ grants' = grants PROVE Ordered
  <2>1. ASSUME Grant PROVE \A g \in DOMAIN grants : grants'[g].left = grants[g].left
    <3>1. PICK expires : grants' = Append(grants, [left |-> GrantAmount, expires |-> expires])
      BY <2>1 DEF Grant
    <3>2. grants \in Seq(GrantRows)
      BY PlanKept
    <3>3. QED
      BY <3>1, <3>2
  <2>2. QED
    BY <1>4, <2>1, OrderedKept
<1>5. QED
  BY <1>1, <1>2, <1>3, <1>4, QuietSteps DEF Next, Tick

-----------------------------------------------------------------------------
(* What each step of the tick does, field by field.                        *)

LEMMA MeterLoadIs ==
    ASSUME TInv, MeterLoad
    PROVE  /\ tick.pc = "sleep" /\ tick.left = 0 /\ tick'.pc = "charge" /\ tick'.left = 1 /\ tick'.cs = cs
           /\ UNCHANGED <<now, repair, served, stale, status, mode, cs, plan, grants, used>>
<1>1. /\ tick.pc = "sleep" /\ tick.left = 0
      /\ tick' = [tick EXCEPT !.pc = "charge", !.left = 1, !.cs = cs]
      /\ UNCHANGED <<now, repair, served, stale, status, mode, cs, plan, grants, used>>
  BY DEF MeterLoad, world
<1>2. tick = [pc |-> tick.pc, left |-> tick.left, cs |-> tick.cs, plan |-> tick.plan, ready |-> tick.ready]
  BY PlanKept DEF TickRows
<1>3. QED
  BY <1>1, <1>2

LEMMA MeterCommitIs ==
    ASSUME TInv, MeterCommit
    PROVE  /\ tick.pc = "charge" /\ tick'.pc = "warn" /\ tick'.left = 1
           /\ UNCHANGED <<now, repair, served, stale, status, mode, used>>
<1>1. tick.pc = "charge" /\ GoTo("warn") /\ UNCHANGED <<world, status, mode, used>>
  BY Zenon DEF MeterCommit
<1>2. tick'.pc = "warn" /\ tick'.left = 1
  BY <1>1, GoToFacts
<1>3. QED
  BY <1>1, <1>2 DEF world

LEMMA WarnIs ==
    ASSUME TInv, Warn
    PROVE  /\ tick.pc = "warn" /\ tick'.pc = "grace" /\ tick'.left = 1
           /\ plan' = IF Running = {} THEN plan
                      ELSE IF TotalRemaining(plan) <= 0 /\ ~plan.warn100 THEN [plan EXCEPT !.warn100 = TRUE]
                      ELSE IF Limit > 0 /\ 5 * plan.used >= 4 * Limit /\ ~plan.warn80
                           THEN [plan EXCEPT !.warn80 = TRUE]
                      ELSE plan
           /\ plan'.used = plan.used /\ plan'.overage = plan.overage /\ plan'.start = plan.start
           /\ plan'.end = plan.end /\ plan'.patience = plan.patience /\ plan'.grace = plan.grace
           /\ plan.warn100 => plan'.warn100
           /\ Running # {} /\ TotalRemaining(plan) <= 0 => plan'.warn100
           /\ UNCHANGED <<now, repair, served, stale, status, mode, cs, grants, used>>
<1>1. /\ tick.pc = "warn" /\ GoTo("grace")
      /\ plan' = IF Running = {} THEN plan
                 ELSE IF TotalRemaining(plan) <= 0 /\ ~plan.warn100 THEN [plan EXCEPT !.warn100 = TRUE]
                 ELSE IF Limit > 0 /\ 5 * plan.used >= 4 * Limit /\ ~plan.warn80
                      THEN [plan EXCEPT !.warn80 = TRUE]
                 ELSE plan
      /\ UNCHANGED <<now, repair, served, stale, status, mode, cs, grants, used>>
  BY DEF Warn, world
<1>2. tick'.pc = "grace" /\ tick'.left = 1
  BY <1>1, GoToFacts
<1>3. plan \in PlanRows
  BY PlanKept
<1>4. /\ plan'.used = plan.used /\ plan'.overage = plan.overage /\ plan'.start = plan.start
      /\ plan'.end = plan.end /\ plan'.patience = plan.patience /\ plan'.grace = plan.grace
      /\ plan.warn100 => plan'.warn100
      /\ Running # {} /\ TotalRemaining(plan) <= 0 => plan'.warn100
  BY <1>1, <1>3 DEF PlanRows
<1>5. QED
  BY <1>1, <1>2, <1>4

LEMMA GraceLoadIs ==
    ASSUME TInv, GraceLoad
    PROVE  /\ tick.pc = "grace" /\ UNCHANGED <<now, repair, served, stale, status, mode, cs, grants, used>>
           /\ \/ /\ Running # {} /\ TotalRemaining(plan) <= 0 /\ MustStop(plan)
                 /\ tick'.pc = "stop" /\ tick'.plan = plan /\ tick'.ready = Running /\ tick'.left = tick.left
                 /\ plan' = plan
              \/ /\ ~(Running # {} /\ TotalRemaining(plan) <= 0 /\ MustStop(plan))
                 /\ tick'.pc = "reset" /\ tick'.left = 1
                 /\ plan'.used = plan.used /\ plan'.overage = plan.overage /\ plan'.start = plan.start
                 /\ plan'.end = plan.end /\ plan'.patience = plan.patience /\ plan'.warn100 = plan.warn100
                 /\ plan'.grace = IF Running = {} THEN plan.grace
                                  ELSE IF TotalRemaining(plan) > 0 THEN None
                                  ELSE IF plan.grace = None THEN now ELSE plan.grace
<1>1. tick.pc = "grace" /\ UNCHANGED <<now, repair, served, stale, status, mode, cs, grants, used>>
  BY DEF GraceLoad, world
<1>2. CASE Running # {} /\ TotalRemaining(plan) <= 0 /\ MustStop(plan)
  <2>1. plan' = plan /\ tick' = [tick EXCEPT !.pc = "stop", !.plan = plan, !.ready = Running]
    BY <1>2 DEF GraceLoad
  <2>2. tick'.pc = "stop" /\ tick'.plan = plan /\ tick'.ready = Running /\ tick'.left = tick.left
    <3>1. tick = [pc |-> tick.pc, left |-> tick.left, cs |-> tick.cs, plan |-> tick.plan,
                  ready |-> tick.ready]
      BY PlanKept DEF TickRows
    <3>2. QED
      BY <2>1, <3>1
  <2>3. QED
    BY <1>1, <1>2, <2>1, <2>2
<1>3. CASE ~(Running # {} /\ TotalRemaining(plan) <= 0 /\ MustStop(plan))
  <2>1. /\ GoTo("reset")
        /\ plan' = IF Running = {} THEN plan
                   ELSE IF TotalRemaining(plan) > 0 THEN [plan EXCEPT !.grace = None]
                   ELSE IF plan.grace = None THEN [plan EXCEPT !.grace = now]
                   ELSE plan
    BY <1>3 DEF GraceLoad
  <2>2. tick'.pc = "reset" /\ tick'.left = 1
    BY <2>1, GoToFacts
  <2>3. plan \in PlanRows
    BY PlanKept
  <2>4. /\ plan'.used = plan.used /\ plan'.overage = plan.overage /\ plan'.start = plan.start
        /\ plan'.end = plan.end /\ plan'.patience = plan.patience /\ plan'.warn100 = plan.warn100
        /\ plan'.grace = IF Running = {} THEN plan.grace
                         ELSE IF TotalRemaining(plan) > 0 THEN None
                         ELSE IF plan.grace = None THEN now ELSE plan.grace
    BY <2>1, <2>3 DEF PlanRows
  <2>5. QED
    BY <1>1, <1>3, <2>2, <2>4
<1>4. QED
  BY <1>2, <1>3

LEMMA GraceStopIs ==
    ASSUME TInv, GraceStop
    PROVE  /\ tick.pc = "stop" /\ UNCHANGED <<now, repair, served, stale, status, cs, plan, grants>>
           /\ tick'.pc = "enforce" /\ tick'.plan = tick.plan /\ tick'.left = tick.left
           /\ \E failed \in {{}} \cup {{s} : s \in tick.ready} :
                 /\ mode' = [s \in Sandboxes |-> IF s \in tick.ready \ failed THEN "Suspended" ELSE mode[s]]
                 /\ tick'.ready = tick.ready \ failed
                 /\ used' = [used EXCEPT !.faults = @ + Cardinality(failed)]
                 /\ used'.faults = 0 => failed = {} /\ used.faults = 0
                 /\ used'.late = used.late
<1>1. tick.pc = "stop" /\ UNCHANGED <<now, repair, served, stale, status, cs, plan, grants>>
  BY Zenon DEF GraceStop, world
<1>2. PICK failed \in {{}} \cup {{s} : s \in tick.ready} :
        /\ mode' = [s \in Sandboxes |-> IF s \in tick.ready \ failed THEN "Suspended" ELSE mode[s]]
        /\ tick' = [tick EXCEPT !.pc = "enforce", !.ready = tick.ready \ failed]
        /\ used' = [used EXCEPT !.faults = @ + Cardinality(failed)]
  BY Zenon DEF GraceStop
<1>3. /\ tick'.pc = "enforce" /\ tick'.plan = tick.plan /\ tick'.left = tick.left
      /\ tick'.ready = tick.ready \ failed
  <2>1. tick = [pc |-> tick.pc, left |-> tick.left, cs |-> tick.cs, plan |-> tick.plan,
                ready |-> tick.ready]
    BY PlanKept DEF TickRows
  <2>2. QED
    BY <1>2, <2>1
<1>4. used'.faults = used.faults + Cardinality(failed) /\ used'.late = used.late /\ used.faults \in Nat
  BY <1>2, WorldFacts DEF UsedRows
<1>5. used'.faults = 0 => failed = {} /\ used.faults = 0
  <2>1. CASE failed = {}
    <3>1. Cardinality(failed) = 0
      BY <2>1, FS_EmptySet
    <3>2. QED
      BY <1>4, <2>1, <3>1
  <2>2. CASE \E s : failed = {s}
    <3>1. PICK s : failed = {s}
      BY <2>2
    <3>2. Cardinality(failed) = 1
      BY <3>1, FS_Singleton
    <3>3. QED
      BY <1>4, <3>2
  <2>3. QED
    BY <2>1, <2>2
<1>6. QED
  BY <1>1, <1>2, <1>3, <1>4, <1>5

\* The plan as the enforcement charges it, and as it leaves it.
Enforced == ConsumedPlan(tick.plan, FinalSlices(tick.ready))
Ended == IF Running = {} THEN [Enforced EXCEPT !.grace = None] ELSE Enforced

LEMMA GraceCommitIs ==
    ASSUME TInv, GraceCommit
    PROVE  /\ tick.pc = "enforce" /\ tick'.pc = "reset" /\ tick'.left = 1
           /\ CloseSessions(tick.ready, tick.plan)
           /\ UNCHANGED <<now, repair, served, status, mode, used>>
           /\ ~stale' => ~stale /\ tick.plan = plan
           /\ Enforced \in PlanRows /\ Enforced.start = tick.plan.start /\ Enforced.end = tick.plan.end
           /\ Ended \in PlanRows /\ plan' = Merge(plan, tick.plan, Ended)
           /\ tick.plan = plan => plan' = Ended
           /\ Ended.used = Enforced.used /\ Ended.overage = Enforced.overage
           /\ Ended.start = Enforced.start /\ Ended.end = Enforced.end
           /\ Ended.patience = Enforced.patience /\ Ended.warn100 = Enforced.warn100
           /\ Ended.grace = IF Running = {} THEN None ELSE Enforced.grace
<1>1. /\ tick.pc = "enforce" /\ UNCHANGED <<now, repair, served, status, mode, used>> /\ GoTo("reset")
      /\ CloseSessions(tick.ready, tick.plan)
  BY Zenon DEF GraceCommit
<1>2. plan' = Merge(plan, tick.plan, Ended) /\ stale' = (stale \/ tick.plan # plan)
  BY Zenon DEF GraceCommit, Ended, Enforced
<1>3. tick'.pc = "reset" /\ tick'.left = 1
  BY <1>1, GoToFacts
<1>4. tick.plan \in PlanRows /\ FinalSlices(tick.ready) \in Nat
  BY <1>1, PlanKept, TickFacts, CloseEffect
<1>5. Enforced \in PlanRows /\ Enforced.start = tick.plan.start /\ Enforced.end = tick.plan.end
  BY <1>4, ChargedRows DEF Enforced
<1>6. /\ Ended \in PlanRows
      /\ Ended.used = Enforced.used /\ Ended.overage = Enforced.overage
      /\ Ended.start = Enforced.start /\ Ended.end = Enforced.end
      /\ Ended.patience = Enforced.patience /\ Ended.warn100 = Enforced.warn100
      /\ Ended.grace = IF Running = {} THEN None ELSE Enforced.grace
  BY <1>5 DEF PlanRows, Ended
<1>7. tick.plan = plan => plan' = Ended
  BY <1>2, <1>4, <1>6, MergedPlan, PlanKept
<1>8. ~stale' => ~stale /\ tick.plan = plan
  BY <1>2
<1>9. QED
  BY <1>1, <1>2, <1>3, <1>5, <1>6, <1>7, <1>8

LEMMA ResetLoadIs ==
    ASSUME TInv, ResetLoad
    PROVE  /\ tick.pc = "reset"
           /\ UNCHANGED <<now, repair, served, stale, status, mode, cs, plan, grants, used>>
           /\ \/ /\ plan.end <= now /\ tick'.pc = "roll" /\ tick'.plan = plan /\ tick'.cs = cs
                 /\ tick'.left = tick.left
              \/ /\ ~(plan.end <= now) /\ tick'.pc = "sleep" /\ tick'.left = 1
<1>1. tick.pc = "reset" /\ UNCHANGED <<now, repair, served, stale, status, mode, cs, plan, grants, used>>
  BY DEF ResetLoad, world
<1> DEFINE R == {s \in Sandboxes : status[s] = "ready"}
<1>2. IF plan.end <= now THEN tick' = [tick EXCEPT !.pc = "roll", !.plan = plan, !.cs = cs, !.ready = R]
      ELSE GoTo("sleep")
  BY DEF ResetLoad
<1> HIDE DEF R
<1>3. tick = [pc |-> tick.pc, left |-> tick.left, cs |-> tick.cs, plan |-> tick.plan, ready |-> tick.ready]
  BY PlanKept DEF TickRows
<1>4. CASE plan.end <= now
  <2>1. tick' = [tick EXCEPT !.pc = "roll", !.plan = plan, !.cs = cs, !.ready = R]
    BY <1>2, <1>4
  <2>2. tick'.pc = "roll" /\ tick'.plan = plan /\ tick'.cs = cs /\ tick'.left = tick.left
    BY <1>3, <2>1
  <2>3. QED
    BY <1>1, <1>4, <2>2
<1>5. CASE ~(plan.end <= now)
  <2>1. GoTo("sleep")
    BY <1>2, <1>5
  <2>2. tick'.pc = "sleep" /\ tick'.left = 1
    BY <2>1, GoToFacts
  <2>3. QED
    BY <1>1, <1>5, <2>2
<1>6. QED
  BY <1>4, <1>5

LEMMA ResetCommitIs ==
    ASSUME TInv, ResetCommit
    PROVE  /\ tick.pc = "roll" /\ tick'.pc = "sleep" /\ tick'.left = 1
           /\ UNCHANGED <<now, repair, served, stale, status, mode, grants, used>>
<1>1. tick.pc = "roll" /\ GoTo("sleep") /\ UNCHANGED <<world, status, mode, grants, used>>
  BY Zenon DEF ResetCommit
<1>2. tick'.pc = "sleep" /\ tick'.left = 1
  BY <1>1, GoToFacts
<1>3. QED
  BY <1>1, <1>2 DEF world

LEMMA StepFailsIs ==
    ASSUME TInv, StepFails
    PROVE  /\ UNCHANGED <<now, repair, served, stale, status, mode, cs, plan, grants>>
           /\ tick'.pc \in {"warn", "grace", "reset", "sleep"}
           /\ used'.faults > 0
<1>1. /\ UNCHANGED <<now, repair, served, stale, status, mode, cs, plan, grants>>
      /\ tick.pc # "sleep" /\ GoTo(AfterStep[tick.pc]) /\ used' = [used EXCEPT !.faults = @ + 1]
  BY DEF StepFails, world
<1>2. tick.pc \in {"charge", "warn", "grace", "stop", "enforce", "reset", "roll"}
  BY <1>1, PlanKept, TickFacts
<1>3. AfterStep[tick.pc] \in {"warn", "grace", "reset", "sleep"}
  BY <1>2 DEF AfterStep
<1>4. tick'.pc = AfterStep[tick.pc]
  BY <1>1, <1>3, GoToFacts
<1>5. used'.faults > 0
  BY <1>1, WorldFacts DEF UsedRows
<1>6. QED
  BY <1>1, <1>3, <1>4, <1>5

LEMMA PassIs ==
    ASSUME TInv, NEW late \in BOOLEAN, Pass(late)
    PROVE  /\ Settled /\ tick.pc = "sleep" /\ repair = <<>> /\ now' = now + 1
           /\ served' = [s \in Sandboxes |-> served[s] + Cardinality(OpenOf(s))]
           /\ tick'.pc = "sleep" /\ tick'.left = 0 /\ tick'.plan = tick.plan /\ tick'.cs = tick.cs
           /\ used'.faults = used.faults /\ (used'.late = 0 => used.late = 0 /\ tick.left > 0)
           /\ UNCHANGED <<repair, stale, status, mode, cs, plan, grants>>
<1>1. /\ Settled /\ tick.pc = "sleep" /\ repair = <<>> /\ now' = now + 1
      /\ served' = [s \in Sandboxes |-> served[s] + Cardinality(OpenOf(s))]
      /\ tick' = [tick EXCEPT !.left = 0]
      /\ IF late THEN CanFail ELSE tick.left > 0
      /\ used' = IF late THEN [used EXCEPT !.late = @ + 1] ELSE used
      /\ UNCHANGED <<repair, stale, status, mode, cs, plan, grants>>
  BY DEF Pass
<1>2. tick'.pc = "sleep" /\ tick'.left = 0 /\ tick'.plan = tick.plan /\ tick'.cs = tick.cs
  BY <1>1, PlanKept, TickFields, Zenon
<1>3. used'.faults = used.faults /\ (used'.late = 0 => used.late = 0 /\ tick.left > 0)
  BY <1>1, WorldFacts DEF UsedRows
<1>4. QED
  BY <1>1, <1>2, <1>3

\* The steps of requests, observers and administrators leave the tick alone.
LEMMA OthersAre ==
    ASSUME \/ \E s \in Sandboxes : \/ CloseSession(s) \/ RepairLoad(s) \/ OpenSession(s)
                                   \/ Start(s) \/ Stop(s) \/ Sync(s)
           \/ RepairCommit \/ Grant
    PROVE  UNCHANGED <<now, tick>>
BY Zenon DEF CloseSession, RepairLoad, OpenSession, Start, Stop, Sync, RepairCommit, Grant, world

LEMMA UsedKnownStep == TInv /\ UsedKnown /\ [Next]_vars => UsedKnown'
<1> SUFFICES ASSUME TInv, UsedKnown, [Next]_vars PROVE UsedKnown'
  OBVIOUS
<1>0. plan.used \in Nat /\ tick.plan.used \in Nat
  BY PlanKept, TickFacts, PlanFacts
<1>1. ASSUME (\E s \in Sandboxes : CloseSession(s)) \/ RepairCommit PROVE UsedKnown'
  <2>1. plan'.used >= plan.used
    BY <1>1, PoolSteps
  <2>2. tick' = tick
    BY <1>1, OthersAre
  <2>3. CASE tick.pc \in {"stop", "enforce"}
    <3>1. plan'.used \in Nat
      BY TypeStep, StateFacts, PlanFacts DEF TInv, TypeOK
    <3>2. QED
      BY <1>0, <2>1, <2>2, <2>3, <3>1 DEF UsedKnown
  <2>4. CASE tick.pc \notin {"stop", "enforce"}
    BY <2>2, <2>4 DEF UsedKnown
  <2>5. QED
    BY <2>3, <2>4
<1>2. ASSUME tick'.pc \notin {"stop", "enforce"} PROVE UsedKnown'
  BY <1>2 DEF UsedKnown
<1>3. ASSUME GraceLoad PROVE UsedKnown'
  BY <1>0, <1>2, <1>3, GraceLoadIs DEF UsedKnown
<1>4. ASSUME GraceStop PROVE UsedKnown'
  <2>1. tick.pc = "stop" /\ plan' = plan /\ tick'.plan = tick.plan
    BY <1>4, GraceStopIs
  <2>2. QED
    BY <2>1 DEF UsedKnown
<1>5. ASSUME plan' = plan, tick' = tick PROVE UsedKnown'
  BY <1>5 DEF UsedKnown
<1>6. ASSUME (\E s \in Sandboxes : RepairLoad(s) \/ OpenSession(s) \/ Start(s) \/ Stop(s) \/ Sync(s)) \/ Grant
      PROVE  UsedKnown'
  BY <1>5, <1>6, OthersAre, QuietSteps
<1>7. ASSUME \/ MeterLoad \/ MeterCommit \/ Warn \/ GraceCommit \/ ResetLoad \/ ResetCommit \/ StepFails
             \/ \E late \in BOOLEAN : Pass(late)
      PROVE  UsedKnown'
  <2>1. tick'.pc \in {"charge", "warn", "grace", "reset", "roll", "sleep"}
    BY <1>7, MeterLoadIs, MeterCommitIs, WarnIs, GraceCommitIs, ResetLoadIs, ResetCommitIs, StepFailsIs, PassIs
  <2>2. QED
    BY <1>2, <2>1
<1>8. ASSUME UNCHANGED vars PROVE UsedKnown'
  BY <1>5, <1>8 DEF vars
<1>9. QED
  BY <1>1, <1>3, <1>4, <1>6, <1>7, <1>8 DEF Next, Tick

\* PoolOrder: a grant is drawn only in a step that leaves the monthly pool used up,
\* and a debt made only in one that leaves no grant that could be used
\* (consume_compute_credits).  What the enforcement writes was computed from a plan
\* that may be out of date: UsedKnown says that it knew no more credits used.
THEOREM PoolOrderCorrect == Spec => PoolOrder
<1>1. Init => UsedKnown
  BY DEF Init, UsedKnown, IdleTick
<1>2. Spec => []UsedKnown
  BY <1>1, UsedKnownStep, TypeInvariant, PTL DEF Spec
<1>3. Ordered => /\ (\E g \in DOMAIN grants : grants'[g].left < grants[g].left) => plan'.used >= Limit
                 /\ plan'.overage > plan.overage => plan'.used >= Limit /\ Extra' = 0
  BY DEF Ordered
<1>4. QED
  BY <1>2, <1>3, OrderedStep, TypeInvariant, PTL DEF Spec, PoolOrder

-----------------------------------------------------------------------------
(* No interval is metered twice.  Not only what was metered, but what is   *)
(* still due as well, is bounded by the intervals that were served; and    *)
(* the repair's row is only behind by what the tick has metered since.     *)

\* What session i has metered and what is still to be metered of it.
Due == [i \in DOMAIN cs |-> cs[i].hours + (IF cs[i].open THEN now - cs[i].last ELSE 0)]
RowsOf(s) == {i \in DOMAIN cs : cs[i].sandbox = s}

\* The row that the repair holds is the session, or the tick has metered it since.
RepairRow ==
    repair # <<>> /\ cs[repair[1]].open =>
        LET c == cs[repair[1]]
            r == repair[2]
        IN  c = r \/ (c.last = now /\ c.hours = r.hours + (now - r.last))

Bounded == \A s \in Sandboxes : Total(Due, RowsOf(s)) <= served[s]

MInv == FirstPeriod => RepairRow /\ Bounded

LEMMA DueFacts ==
    ASSUME TInv
    PROVE  /\ now \in Nat /\ IsFiniteSet(DOMAIN cs) /\ DOMAIN cs = 1..Len(cs) /\ Len(cs) \in Nat
           /\ \A i \in DOMAIN cs : /\ cs[i] \in SessionRows /\ cs[i].last <= now
                                   /\ cs[i].last \in Nat /\ cs[i].hours \in Nat
                                   /\ Due[i] = cs[i].hours + (IF cs[i].open THEN now - cs[i].last ELSE 0)
                                   /\ Due[i] \in Nat
           /\ \A s : IsFiniteSet(RowsOf(s)) /\ RowsOf(s) \in SUBSET DOMAIN cs
           /\ \A s : Total(Due, RowsOf(s)) \in Nat
<1>1. /\ now \in Nat /\ cs \in Seq(SessionRows) /\ \A i \in DOMAIN cs : cs[i].last <= now
  BY StateFacts DEF TInv, Loaded
<1>2. /\ IsFiniteSet(DOMAIN cs) /\ DOMAIN cs = 1..Len(cs) /\ Len(cs) \in Nat
      /\ \A i \in DOMAIN cs : cs[i] \in SessionRows /\ cs[i].last \in Nat /\ cs[i].hours \in Nat
  BY <1>1, TableFacts
<1>3. \A i \in DOMAIN cs : Due[i] = cs[i].hours + (IF cs[i].open THEN now - cs[i].last ELSE 0)
  BY DEF Due
<1>4. ASSUME NEW i \in DOMAIN cs PROVE Due[i] \in Nat
  <2>1. cs[i].last \in Nat /\ cs[i].hours \in Nat /\ cs[i].last <= now /\ now \in Nat
    BY <1>1, <1>2
  <2>2. now - cs[i].last \in Nat
    BY <2>1
  <2>3. QED
    BY <1>3, <2>1, <2>2
<1>5. ASSUME NEW s PROVE IsFiniteSet(RowsOf(s)) /\ RowsOf(s) \in SUBSET DOMAIN cs
  <2>1. RowsOf(s) \in SUBSET DOMAIN cs
    BY DEF RowsOf
  <2>2. QED
    BY <1>2, <2>1, FS_Subset
<1>6. ASSUME NEW s PROVE Total(Due, RowsOf(s)) \in Nat
  <2>1. \A i \in RowsOf(s) : Due[i] \in Nat
    BY <1>4, <1>5
  <2>2. QED
    BY <1>5, <2>1, TotalNat
<1>7. QED
  BY <1>1, <1>2, <1>3, <1>4, <1>5, <1>6

\* The first period does not come back.
LEMMA FirstPeriodStep == TInv /\ [Next]_vars /\ FirstPeriod' => FirstPeriod
<1> SUFFICES ASSUME TInv, [Next]_vars, plan'.start = 0 PROVE plan.start = 0
  BY DEF FirstPeriod
<1>1. ASSUME plan' = plan PROVE plan.start = 0
  BY <1>1
<1>2. ASSUME NEW s \in Sandboxes, CloseSession(s) PROVE plan.start = 0
  <2>1. CloseSessions({s}, plan) /\ plan' = ConsumedPlan(plan, FinalSlices({s}))
    BY <1>2 DEF CloseSession
  <2>2. FinalSlices({s}) \in Nat
    BY <2>1, CloseEffect
  <2>3. QED
    BY <2>1, <2>2, ChargedRows, PlanKept
<1>3. ASSUME RepairCommit PROVE plan.start = 0
  <2>1. RepairAmount \in Nat /\ plan' = ConsumedPlan(plan, RepairAmount)
    BY <1>3, RepairEffect
  <2>2. QED
    BY <2>1, ChargedRows, PlanKept
<1>4. ASSUME MeterCommit PROVE plan.start = 0
  <2>1. MeterAmount \in Nat /\ plan' = ConsumedPlan(plan, MeterAmount)
    BY <1>4, MeterEffect
  <2>2. QED
    BY <2>1, ChargedRows, PlanKept
<1>5. ASSUME Warn PROVE plan.start = 0
  BY <1>5, WarnIs
<1>6. ASSUME GraceLoad PROVE plan.start = 0
  BY <1>6, GraceLoadIs
<1>7. ASSUME GraceCommit PROVE plan.start = 0
  <2>1. /\ Ended \in PlanRows /\ Ended.start = tick.plan.start /\ plan' = Merge(plan, tick.plan, Ended)
    BY <1>7, GraceCommitIs
  <2>2. tick.plan \in PlanRows /\ plan \in PlanRows
    BY PlanKept, TickFacts
  <2>3. plan'.start = plan.start
    BY <2>1, <2>2, MergedPlan
  <2>4. QED
    BY <2>3
<1>8. ASSUME ResetCommit PROVE plan.start = 0
  <2>1. CASE UNCHANGED <<cs, plan>>
    BY <1>1, <2>1
  <2>2. CASE ~UNCHANGED <<cs, plan>>
    <3>1. 0 < plan'.start
      BY <1>8, <2>2, ResetEffect
    <3>2. QED
      BY <3>1
  <2>3. QED
    BY <2>1, <2>2
<1>9. QED
  BY <1>1, <1>2, <1>3, <1>4, <1>5, <1>6, <1>7, <1>8, QuietSteps DEF Next, Tick

\* A step that changes rows of the table, and none so that more is due of it.
LEMMA DueLess ==
    ASSUME TInv, Bounded, DOMAIN cs' = DOMAIN cs, served' = served,
           \A i \in DOMAIN cs : cs'[i].sandbox = cs[i].sandbox,
           \A i \in DOMAIN cs : Due'[i] \in Int /\ Due'[i] <= Due[i]
    PROVE  Bounded'
<1> SUFFICES ASSUME NEW s \in Sandboxes PROVE Total(Due', RowsOf(s)') <= served[s]
  BY DEF Bounded
<1>1. RowsOf(s)' = RowsOf(s)
  BY DEF RowsOf
<1> DEFINE f == Due
           g == Due'
           S == RowsOf(s)
<1>2. IsFiniteSet(S) /\ \A i \in S : g[i] \in Int /\ f[i] \in Int /\ g[i] <= f[i]
  BY DueFacts
<1>3. Total(f, S) \in Nat /\ Total(f, S) <= served[s] /\ served[s] \in Nat
  BY DueFacts, StateFacts DEF Bounded
<1> HIDE DEF f, g, S
<1>4. Total(g, S) <= Total(f, S)
  BY <1>2, TotalMono
<1>5. Total(g, S) \in Int
  BY <1>2, TotalInt
<1>6. Total(g, S) <= served[s]
  BY <1>3, <1>4, <1>5
<1>7. QED
  BY <1>1, <1>6 DEF g, S

\* A closed session is due no more than it was.
LEMMA DueClosed ==
    ASSUME TInv, NEW S, NEW p, CloseSessions(S, p), now' = now
    PROVE  /\ DOMAIN cs' = DOMAIN cs /\ \A i \in DOMAIN cs : cs'[i].sandbox = cs[i].sandbox
           /\ \A i \in DOMAIN cs : Due'[i] \in Int /\ Due'[i] <= Due[i]
<1>1. /\ Kept
      /\ \A i \in DOMAIN cs : IF i \in OpenAmong(S) THEN cs'[i] = Closed(cs[i]) ELSE cs'[i] = cs[i]
  BY CloseEffect
<1>2. \A i \in OpenAmong(S) : i \in DOMAIN cs /\ cs[i].open
  BY DEF OpenAmong, OpenSessions
<1>3. DOMAIN cs' = DOMAIN cs /\ \A i \in DOMAIN cs : cs'[i].sandbox = cs[i].sandbox
  BY <1>1 DEF Kept
<1>4. ASSUME NEW i \in DOMAIN cs PROVE Due'[i] \in Int /\ Due'[i] <= Due[i]
  <2>1. Due'[i] = cs'[i].hours + (IF cs'[i].open THEN now - cs'[i].last ELSE 0)
    BY <1>3 DEF Due
  <2>2. Due[i] \in Nat /\ Due[i] = cs[i].hours + (IF cs[i].open THEN now - cs[i].last ELSE 0)
    BY DueFacts
  <2>3. CASE i \in OpenAmong(S)
    <3>1. cs'[i] = Closed(cs[i]) /\ cs[i].open
      BY <1>1, <1>2, <2>3
    <3>2. /\ now \in Nat /\ cs[i] \in SessionRows /\ cs[i].last <= now
          /\ cs[i].last \in Nat /\ cs[i].hours \in Nat
      BY DueFacts
    <3>3. /\ CloseElapsed(cs[i]) \in Nat /\ CloseElapsed(cs[i]) <= now - cs[i].last
          /\ Closed(cs[i]).open = FALSE /\ Closed(cs[i]).hours = cs[i].hours + CloseElapsed(cs[i])
      BY <3>2, ClosedFacts
    <3>4. Due'[i] = cs[i].hours + CloseElapsed(cs[i])
      BY <2>1, <3>1, <3>2, <3>3
    <3>5. Due[i] = cs[i].hours + (now - cs[i].last)
      BY <2>2, <3>1
    <3>6. QED
      BY <3>2, <3>3, <3>4, <3>5
  <2>4. CASE i \notin OpenAmong(S)
    BY <1>1, <2>1, <2>2, <2>4
  <2>5. QED
    BY <2>3, <2>4
<1>5. QED
  BY <1>3, <1>4

\* The closing of sessions.
LEMMA DueClose ==
    ASSUME TInv, RepairRow /\ Bounded, NEW S, NEW p, CloseSessions(S, p),
           UNCHANGED <<now, repair, served>>
    PROVE  RepairRow' /\ Bounded'
<1>1. /\ Kept
      /\ \A i \in DOMAIN cs : IF i \in OpenAmong(S) THEN cs'[i] = Closed(cs[i]) ELSE cs'[i] = cs[i]
  BY CloseEffect
<1>5. Bounded'
  BY DueClosed, DueLess
<1>6. RepairRow'
  <2> SUFFICES ASSUME repair # <<>>, cs'[repair[1]].open
               PROVE  LET c == cs'[repair[1]]
                          r == repair[2]
                      IN  c = r \/ (c.last = now /\ c.hours = r.hours + (now - r.last))
    BY DEF RepairRow
  <2>1. repair[1] \in DOMAIN cs
    BY DEF TInv, Loaded
  <2>2. repair[1] \notin OpenAmong(S)
    <3>1. ASSUME repair[1] \in OpenAmong(S) PROVE FALSE
      <4>1. cs'[repair[1]] = Closed(cs[repair[1]])
        BY <1>1, <2>1, <3>1
      <4>4. cs[repair[1]] \in SessionRows /\ cs[repair[1]].last <= now /\ now \in Nat
        BY <2>1, DueFacts
      <4>2. Closed(cs[repair[1]]).open = FALSE
        BY <4>4, ClosedFacts
      <4>3. QED
        BY <4>1, <4>2
    <3>2. QED
      BY <3>1
  <2>3. cs'[repair[1]] = cs[repair[1]]
    BY <1>1, <2>1, <2>2
  <2>4. QED
    BY <2>3 DEF RepairRow
<1>7. QED
  BY <1>5, <1>6

\* A step that touches neither the sessions, nor the time, nor the repair.
LEMMA DueKept ==
    ASSUME RepairRow /\ Bounded, UNCHANGED <<now, repair, served, cs>>
    PROVE  RepairRow' /\ Bounded'
<1>1. Due' = Due /\ \A s : RowsOf(s)' = RowsOf(s)
  BY DEF Due, RowsOf
<1>2. QED
  BY <1>1 DEF RepairRow, Bounded

LEMMA DueRepaired ==
    ASSUME TInv, RepairRow, RepairCommit
    PROVE  /\ DOMAIN cs' = DOMAIN cs /\ \A i \in DOMAIN cs : cs'[i].sandbox = cs[i].sandbox
           /\ \A i \in DOMAIN cs : Due'[i] \in Int /\ Due'[i] <= Due[i]
<1> DEFINE k == repair[1]
           r == repair[2]
           a == RepairAmount
<1>1. repair # <<>> /\ repair' = <<>> /\ UNCHANGED <<now, served>>
  BY DEF RepairCommit
<1>3. /\ Kept /\ k \in DOMAIN cs /\ r \in SessionRows /\ r.last <= now
      /\ a \in Nat /\ (cs[k].open => a <= now - r.last)
      /\ \A j \in DOMAIN cs : j # k => cs'[j] = cs[j]
      /\ ~cs[k].open => cs' = cs
      /\ cs[k].open => /\ cs'[k].open = FALSE
                       /\ cs'[k].hours = IF a # 0 THEN r.hours + a ELSE cs[k].hours
  BY RepairEffect
<1>4. cs[k].open => cs[k] = r \/ (cs[k].last = now /\ cs[k].hours = r.hours + (now - r.last))
  BY <1>1 DEF RepairRow
<1>5. DOMAIN cs' = DOMAIN cs /\ \A i \in DOMAIN cs : cs'[i].sandbox = cs[i].sandbox
  BY <1>3 DEF Kept
<1> HIDE DEF k, r, a
<1>6. r.last \in Nat /\ r.hours \in Nat
  BY <1>3 DEF SessionRows
<1>7. ASSUME NEW i \in DOMAIN cs PROVE Due'[i] \in Int /\ Due'[i] <= Due[i]
  <2>1. Due'[i] = cs'[i].hours + (IF cs'[i].open THEN now - cs'[i].last ELSE 0)
    BY <1>1, <1>5 DEF Due
  <2>2. /\ Due[i] \in Nat /\ Due[i] = cs[i].hours + (IF cs[i].open THEN now - cs[i].last ELSE 0)
        /\ now \in Nat /\ cs[i].last \in Nat /\ cs[i].last <= now /\ cs[i].hours \in Nat
    BY DueFacts
  <2>3. CASE i = k /\ cs[k].open
    <3>1. Due'[i] = IF a # 0 THEN r.hours + a ELSE cs[k].hours
      BY <1>3, <1>6, <2>1, <2>2, <2>3
    <3>2. Due[i] = cs[k].hours + (now - cs[k].last)
      BY <2>2, <2>3
    <3>3. CASE cs[k] = r
      BY <1>3, <1>6, <2>2, <2>3, <3>1, <3>2, <3>3
    <3>4. CASE cs[k].last = now /\ cs[k].hours = r.hours + (now - r.last)
      BY <1>3, <1>6, <2>2, <2>3, <3>1, <3>2, <3>4
    <3>5. QED
      BY <1>4, <2>3, <3>3, <3>4
  <2>4. CASE ~(i = k /\ cs[k].open)
    <3>1. cs'[i] = cs[i]
      BY <1>3, <2>4
    <3>2. QED
      BY <2>1, <2>2, <3>1
  <2>5. QED
    BY <2>3, <2>4
<1>8. QED
  BY <1>5, <1>7

LEMMA DueRepair ==
    ASSUME TInv, RepairRow /\ Bounded, RepairCommit
    PROVE  RepairRow' /\ Bounded'
<1>1. repair' = <<>> /\ served' = served
  BY DEF RepairCommit
<1>2. RepairRow'
  BY <1>1 DEF RepairRow
<1>3. Bounded'
  BY <1>1, DueRepaired, DueLess
<1>4. QED
  BY <1>2, <1>3

LEMMA DueMetered ==
    ASSUME TInv, MeterCommit
    PROVE  /\ DOMAIN cs' = DOMAIN cs /\ \A i \in DOMAIN cs : cs'[i].sandbox = cs[i].sandbox
           /\ \A i \in DOMAIN cs : Due'[i] \in Int /\ Due'[i] <= Due[i]
<1>1. UNCHANGED <<now, repair, served>>
  BY MeterCommitIs
<1>2. /\ Kept /\ MeterIds \in SUBSET DOMAIN cs
      /\ \A i \in DOMAIN cs : i \notin MeterIds => cs'[i] = cs[i]
      /\ \A i \in MeterIds : /\ cs[i].open /\ cs'[i].open /\ cs[i] = tick.cs[i]
                             /\ cs'[i].last = now /\ cs[i].last < now
                             /\ cs'[i].hours = cs[i].hours + (now - cs[i].last)
  BY MeterEffect
<1>3. DOMAIN cs' = DOMAIN cs /\ \A i \in DOMAIN cs : cs'[i].sandbox = cs[i].sandbox
  BY <1>2 DEF Kept
<1>4. ASSUME NEW i \in DOMAIN cs PROVE Due'[i] \in Int /\ Due'[i] <= Due[i]
  <2>1. Due'[i] = cs'[i].hours + (IF cs'[i].open THEN now - cs'[i].last ELSE 0)
    BY <1>1, <1>3 DEF Due
  <2>2. /\ Due[i] \in Nat /\ Due[i] = cs[i].hours + (IF cs[i].open THEN now - cs[i].last ELSE 0)
        /\ now \in Nat /\ cs[i].last \in Nat /\ cs[i].last <= now /\ cs[i].hours \in Nat
    BY DueFacts
  <2>3. CASE i \in MeterIds
    <3>1. /\ cs[i].open /\ cs'[i].open /\ cs'[i].last = now
          /\ cs'[i].hours = cs[i].hours + (now - cs[i].last)
      BY <1>2, <2>3
    <3>2. QED
      BY <2>1, <2>2, <3>1
  <2>4. CASE i \notin MeterIds
    BY <1>2, <2>1, <2>2, <2>4
  <2>5. QED
    BY <2>3, <2>4
<1>5. QED
  BY <1>3, <1>4

LEMMA DueMeter ==
    ASSUME TInv, RepairRow /\ Bounded, MeterCommit
    PROVE  RepairRow' /\ Bounded'
<1>1. UNCHANGED <<now, repair, served>>
  BY MeterCommitIs
<1>2. /\ Kept /\ MeterIds \in SUBSET DOMAIN cs
      /\ \A i \in DOMAIN cs : i \notin MeterIds => cs'[i] = cs[i]
      /\ \A i \in MeterIds : /\ cs[i].open /\ cs'[i].open /\ cs[i] = tick.cs[i]
                             /\ cs'[i].last = now /\ cs[i].last < now
                             /\ cs'[i].hours = cs[i].hours + (now - cs[i].last)
  BY MeterEffect
<1>5. Bounded'
  BY <1>1, DueMetered, DueLess
<1>6. RepairRow'
  <2> DEFINE k == repair[1]
             r == repair[2]
  <2> SUFFICES ASSUME repair # <<>>, cs'[k].open
               PROVE  cs'[k] = r \/ (cs'[k].last = now /\ cs'[k].hours = r.hours + (now - r.last))
    BY <1>1 DEF RepairRow
  <2>1. k \in DOMAIN cs
    BY DEF TInv, Loaded
  <2>2. cs[k].open
    BY <1>2, <2>1 DEF Kept
  <2>3. cs[k] = r \/ (cs[k].last = now /\ cs[k].hours = r.hours + (now - r.last))
    BY <2>2 DEF RepairRow
  <2> HIDE DEF k, r
  <2>4. CASE k \in MeterIds
    <3>1. /\ cs'[k].last = now /\ cs[k].last < now
          /\ cs'[k].hours = cs[k].hours + (now - cs[k].last)
      BY <1>2, <2>4
    <3>2. cs[k] = r
      BY <2>1, <2>3, <3>1, DueFacts
    <3>3. QED
      BY <3>1, <3>2
  <2>5. CASE k \notin MeterIds
    BY <1>2, <2>1, <2>3, <2>5
  <2>6. QED
    BY <2>4, <2>5
<1>7. QED
  BY <1>5, <1>6

LEMMA DueOpen ==
    ASSUME TInv, RepairRow /\ Bounded, NEW t \in Sandboxes, OpenSession(t)
    PROVE  RepairRow' /\ Bounded'
<1> DEFINE c == NewSession(t, now)
           k == Len(cs) + 1
<1>1. cs' = Append(cs, c) /\ UNCHANGED <<now, repair, served>>
  BY DEF OpenSession, world
<1>2. c.sandbox = t /\ c.open /\ c.last = now /\ c.hours = 0
  BY DEF NewSession
<1>3. cs \in Seq(SessionRows) /\ Len(cs) \in Nat /\ DOMAIN cs = 1..Len(cs)
  BY PlanKept
<1> HIDE DEF c
<1>4. /\ DOMAIN cs' = DOMAIN cs \cup {k} /\ k \notin DOMAIN cs /\ cs'[k] = c
      /\ \A i \in DOMAIN cs : cs'[i] = cs[i]
  BY <1>1, <1>3
<1> HIDE DEF k
<1>5. RepairRow'
  <2>1. repair # <<>> => cs'[repair[1]] = cs[repair[1]]
    BY <1>4 DEF TInv, Loaded
  <2>2. QED
    BY <1>1, <2>1 DEF RepairRow
<1>6. ASSUME NEW s \in Sandboxes PROVE Total(Due', RowsOf(s)') <= served[s]
  <2> DEFINE f == Due
             g == Due'
             S == RowsOf(s)
  <2>1. now \in Nat /\ IsFiniteSet(S) /\ k \notin S
    BY <1>4, DueFacts
  <2>2. \A i \in S : g[i] = f[i] /\ f[i] \in Nat
    <3> TAKE i \in S
    <3>1. i \in DOMAIN cs /\ i \in DOMAIN cs' /\ cs'[i] = cs[i]
      BY <1>4 DEF RowsOf
    <3>2. g[i] = f[i]
      BY <1>1, <3>1 DEF Due
    <3>3. QED
      BY <3>1, <3>2, DueFacts
  <2>3. g[k] = 0
    <3>1. k \in DOMAIN cs' /\ cs'[k] = c
      BY <1>4
    <3>2. g[k] = c.hours + (IF c.open THEN now - c.last ELSE 0)
      BY <1>1, <3>1 DEF Due
    <3>3. QED
      BY <1>2, <2>1, <3>2
  <2>4. Total(f, S) \in Nat /\ Total(f, S) <= served[s]
    BY DueFacts DEF Bounded
  <2>5. RowsOf(s)' = IF s = t THEN S \cup {k} ELSE S
    BY <1>2, <1>4 DEF RowsOf
  <2> HIDE DEF f, g, S
  <2>6. /\ g[k] \in Int /\ (\A i \in S : g[i] \in Int /\ g[i] = f[i])
    BY <2>2, <2>3
  <2>7. Total(g, S \cup {k}) = Total(f, S) + g[k]
    BY <2>1, <2>6, TotalAdd
  <2>8. Total(g, S) = Total(f, S)
    BY <2>1, <2>6, TotalEqual
  <2>9. Total(g, RowsOf(s)') <= served[s]
    BY <2>3, <2>4, <2>5, <2>7, <2>8
  <2>10. QED
    BY <2>9 DEF g
<1>7. Bounded'
  BY <1>1, <1>6 DEF Bounded
<1>8. QED
  BY <1>5, <1>7

\* An interval: every open session is due one more, and its sandbox is served one.
LEMMA DuePass ==
    ASSUME TInv, RepairRow /\ Bounded, NEW late \in BOOLEAN, Pass(late)
    PROVE  RepairRow' /\ Bounded'
<1>1. /\ repair = <<>> /\ repair' = <<>> /\ now' = now + 1 /\ cs' = cs
      /\ served' = [s \in Sandboxes |-> served[s] + Cardinality(OpenOf(s))]
  BY PassIs
<1>2. RepairRow'
  BY <1>1 DEF RepairRow
<1>3. ASSUME NEW s \in Sandboxes PROVE Total(Due', RowsOf(s)') <= served'[s]
  <2> DEFINE f == Due
             g == Due'
             S == RowsOf(s)
             O == OpenOf(s)
  <2>1. RowsOf(s)' = S
    BY <1>1 DEF RowsOf
  <2>2. \A i \in S : g[i] = f[i] + (IF cs[i].open THEN 1 ELSE 0) /\ f[i] \in Nat
    <3> TAKE i \in S
    <3>1. /\ i \in DOMAIN cs /\ now \in Nat /\ cs[i].last \in Nat /\ cs[i].last <= now /\ cs[i].hours \in Nat
          /\ f[i] = cs[i].hours + (IF cs[i].open THEN now - cs[i].last ELSE 0) /\ f[i] \in Nat
      BY DueFacts
    <3>2. g[i] = cs[i].hours + (IF cs[i].open THEN (now + 1) - cs[i].last ELSE 0)
      BY <1>1, <3>1 DEF Due
    <3> HIDE DEF f, g
    <3>3. CASE cs[i].open
      BY <3>1, <3>2, <3>3
    <3>4. CASE ~cs[i].open
      BY <3>1, <3>2, <3>4
    <3>5. QED
      BY <3>3, <3>4
  <2>3. O = {i \in S : cs[i].open}
    BY DEF OpenOf, OpenSessions, RowsOf
  <2>4. \A i, j \in O : i = j
    <3> TAKE i, j \in O
    <3>1. /\ i \in DOMAIN cs /\ cs[i].open /\ cs[i].sandbox = s
          /\ j \in DOMAIN cs /\ cs[j].open /\ cs[j].sandbox = s
      BY DEF OpenOf, OpenSessions
    <3>2. QED
      BY <3>1 DEF TInv, OneOpen
  <2>5. IsFiniteSet(S) /\ Total(f, S) \in Nat /\ Total(f, S) <= served[s] /\ served[s] \in Nat
    BY DueFacts, StateFacts DEF Bounded
  <2>6. served'[s] = served[s] + Cardinality(O)
    BY <1>1
  <2> HIDE DEF f, g, S, O
  <2>7. CASE O = {}
    <3>1. \A i \in S : g[i] = f[i] /\ g[i] \in Int
      BY <2>2, <2>3, <2>7
    <3>2. Total(g, S) = Total(f, S)
      BY <2>5, <3>1, TotalEqual
    <3>3. Cardinality(O) = 0
      BY <2>7, FS_EmptySet
    <3>4. Total(g, S) <= served'[s]
      BY <2>5, <2>6, <3>2, <3>3
    <3>5. QED
      BY <2>1, <3>4 DEF g
  <2>8. CASE O # {}
    <3>1. PICK k \in O : TRUE
      BY <2>8
    <3>2. k \in S /\ cs[k].open
      BY <2>3, <3>1
    <3>3. g[k] = f[k] + 1 /\ f[k] \in Nat
      BY <2>2, <3>2
    <3>4. \A i \in S \ {k} : g[i] = f[i]
      BY <2>2, <2>3, <2>4, <3>1
    <3>5. \A i \in S : f[i] \in Int /\ g[i] \in Int
      BY <2>2, <3>3, <3>4
    <3>6. Total(g, S) = Total(f, S) + (g[k] - f[k])
      BY <2>5, <3>2, <3>4, <3>5, TotalUpdate
    <3>7. Cardinality(O) = 1
      <4>1. O = {k}
        BY <2>4, <3>1
      <4>2. QED
        BY <4>1, FS_Singleton
    <3>8. Total(g, S) <= served'[s]
      BY <2>5, <2>6, <3>3, <3>6, <3>7
    <3>9. QED
      BY <2>1, <3>8 DEF g
  <2>9. QED
    BY <2>7, <2>8
<1>4. QED
  BY <1>2, <1>3 DEF Bounded

LEMMA MeteredStep == TInv /\ MInv /\ [Next]_vars => MInv'
<1> SUFFICES ASSUME TInv, MInv, [Next]_vars, FirstPeriod' PROVE RepairRow' /\ Bounded'
  BY DEF MInv
<1>0. FirstPeriod /\ RepairRow /\ Bounded
  BY FirstPeriodStep DEF MInv
<1>1. ASSUME NEW s \in Sandboxes, CloseSession(s) PROVE RepairRow' /\ Bounded'
  <2>1. CloseSessions({s}, plan) /\ UNCHANGED <<now, repair, served>>
    BY <1>1 DEF CloseSession, world
  <2>2. QED
    BY <1>0, <2>1, DueClose
<1>2. ASSUME NEW s \in Sandboxes, RepairLoad(s) PROVE RepairRow' /\ Bounded'
  <2>1. UNCHANGED <<now, served, cs>>
    BY <1>2 DEF RepairLoad
  <2>2. PICK i \in OpenOf(s) : repair' = <<i, cs[i]>>
    BY <1>2 DEF RepairLoad
  <2>3. RepairRow'
    BY <2>1, <2>2 DEF RepairRow
  <2>4. Due' = Due /\ \A t : RowsOf(t)' = RowsOf(t)
    BY <2>1 DEF Due, RowsOf
  <2>5. QED
    BY <1>0, <2>1, <2>3, <2>4 DEF Bounded
<1>3. ASSUME GraceCommit PROVE RepairRow' /\ Bounded'
  <2>1. CloseSessions(tick.ready, tick.plan) /\ UNCHANGED <<now, repair, served>>
    BY <1>3, GraceCommitIs
  <2>2. QED
    BY <1>0, <2>1, DueClose
<1>4. ASSUME ResetCommit PROVE RepairRow' /\ Bounded'
  <2>1. UNCHANGED <<now, repair, served>>
    BY <1>4, ResetCommitIs
  <2>2. CASE UNCHANGED <<cs, plan>>
    BY <1>0, <2>1, <2>2, DueKept
  <2>3. CASE ~UNCHANGED <<cs, plan>>
    <3>1. 0 < plan'.start /\ plan'.start = 0
      BY <1>4, <2>3, ResetEffect DEF FirstPeriod
    <3>2. QED
      BY <3>1
  <2>4. QED
    BY <2>2, <2>3
<1>5. ASSUME UNCHANGED <<now, repair, served, cs>> PROVE RepairRow' /\ Bounded'
  BY <1>0, <1>5, DueKept
<1>6. ASSUME \/ \E s \in Sandboxes : Start(s) \/ Stop(s) \/ Sync(s)
             \/ Grant \/ MeterLoad \/ Warn \/ GraceLoad \/ GraceStop \/ ResetLoad \/ StepFails
             \/ UNCHANGED vars
      PROVE  UNCHANGED <<now, repair, served, cs>>
  BY <1>6, Zenon DEF Start, Stop, Sync, Grant, MeterLoad, Warn, GraceLoad, GraceStop, ResetLoad, StepFails,
                     vars, world
<1>7. QED
  BY <1>0, <1>1, <1>2, <1>3, <1>4, <1>5, <1>6, DueRepair, DueMeter, DueOpen, DuePass DEF Next, Tick

\* MeteredOnce: within a billing period the sessions of a sandbox show no more than
\* the intervals during which it had one, whoever meters them: tick_metering, which
\* compares gmt_updated, a request or observer under FOR UPDATE, the enforcement, or
\* reconcile_metering with a row it loaded before.
THEOREM MeteredCorrect == Spec => []MeteredOnce
<1>1. Init => MInv
  <2> SUFFICES ASSUME Init PROVE RepairRow /\ Bounded
    BY DEF MInv
  <2>1. repair = <<>> /\ cs = <<>> /\ served = [s \in Sandboxes |-> 0]
    BY DEF Init
  <2>2. \A s : RowsOf(s) = {}
    BY <2>1 DEF RowsOf
  <2>3. \A s \in Sandboxes : Total(Due, RowsOf(s)) = 0 /\ served[s] = 0
    BY <2>1, <2>2, TotalEmpty
  <2>4. QED
    BY <2>1, <2>3 DEF RepairRow, Bounded
<1>2. Spec => []MInv
  BY <1>1, MeteredStep, TypeInvariant, PTL DEF Spec
<1>3. TInv /\ MInv => MeteredOnce
  <2> SUFFICES ASSUME TInv, MInv, FirstPeriod, NEW s \in Sandboxes PROVE Hours(s) <= served[s]
    BY DEF MeteredOnce
  <2> DEFINE f == Metered
             g == Due
             S == RowsOf(s)
  <2>1. Hours(s) = Total(f, S)
    BY DEF Hours, RowsOf
  <2>2. \A i \in S : f[i] \in Int /\ g[i] \in Int /\ f[i] <= g[i]
    <3> TAKE i \in S
    <3>1. /\ i \in DOMAIN cs /\ now \in Nat /\ cs[i].last \in Nat /\ cs[i].last <= now /\ cs[i].hours \in Nat
          /\ g[i] = cs[i].hours + (IF cs[i].open THEN now - cs[i].last ELSE 0)
      BY DueFacts
    <3>2. f[i] = cs[i].hours
      BY <3>1 DEF Metered
    <3> HIDE DEF f, g
    <3>3. QED
      BY <3>1, <3>2
  <2>3. IsFiniteSet(S) /\ Total(g, S) \in Nat /\ Total(g, S) <= served[s] /\ served[s] \in Nat
    BY DueFacts, StateFacts DEF MInv, Bounded
  <2> HIDE DEF f, g, S
  <2>4. Total(f, S) <= Total(g, S)
    BY <2>2, <2>3, TotalMono
  <2>5. Total(f, S) \in Int
    BY <2>2, <2>3, TotalInt
  <2>6. QED
    BY <2>1, <2>3, <2>4, <2>5
<1>4. QED
  BY <1>2, <1>3, TypeInvariant, PTL

-----------------------------------------------------------------------------
(* Warnings come first.                                                    *)

Calm == used.faults = 0 /\ ~stale

\* Every open session is metered up to now.
UpToDate == \A i \in OpenSessions : cs[i].last = now

\* The plan is used up while a sandbox is running.
Broke == Running # {} /\ TotalRemaining(plan) <= 0

\* While nothing fails and no charge is repeated: a grace period has been warned
\* of, and between the warnings and the grace check nothing is left to be charged.
WPlan == plan.grace # None => plan.warn100
WTick ==
    /\ tick.pc = "grace" /\ Broke => plan.warn100
    /\ tick.pc = "stop" => plan.warn100
    /\ tick.pc \in {"warn", "grace"} => UpToDate
    /\ tick.pc = "charge" =>
          \A i \in OpenSessions : cs[i].last = now \/ (i \in DOMAIN tick.cs /\ cs[i] = tick.cs[i])
    /\ tick.pc = "roll" => plan.grace = tick.plan.grace

WInv == Calm => WPlan /\ WTick

LEMMA CalmStep == TInv /\ [Next]_vars /\ Calm' => Calm
<1> SUFFICES ASSUME TInv, [Next]_vars, Calm' PROVE Calm
  OBVIOUS
<1>0. used \in UsedRows
  BY WorldFacts
<1>1. ~stale
  <2>1. ASSUME RepairCommit PROVE ~stale
    BY <2>1 DEF RepairCommit, Calm
  <2>2. ASSUME GraceCommit PROVE ~stale
    BY <2>2, GraceCommitIs DEF Calm
  <2>3. ASSUME stale' = stale PROVE ~stale
    BY <2>3 DEF Calm
  <2>4. ASSUME \/ \E s \in Sandboxes : \/ CloseSession(s) \/ RepairLoad(s) \/ OpenSession(s)
                                       \/ Start(s) \/ Stop(s) \/ Sync(s)
               \/ Grant \/ MeterLoad \/ MeterCommit \/ Warn \/ GraceLoad \/ GraceStop \/ ResetLoad
               \/ ResetCommit \/ StepFails \/ (\E late \in BOOLEAN : Pass(late)) \/ UNCHANGED vars
        PROVE  stale' = stale
    BY <2>4, Zenon DEF CloseSession, RepairLoad, OpenSession, Start, Stop, Sync, Grant, MeterLoad, MeterCommit,
                       Warn, GraceLoad, GraceStop, ResetLoad, ResetCommit, StepFails, Pass, vars, world
  <2>5. QED
    BY <2>1, <2>2, <2>3, <2>4 DEF Next, Tick
<1>2. used.faults = 0
  <2>1. ASSUME used' = used PROVE used.faults = 0
    BY <2>1 DEF Calm
  <2>2. ASSUME NEW s \in Sandboxes, Start(s) \/ Stop(s) PROVE used.faults = 0
    <3>1. used' = [used EXCEPT !.ops = @ + 1]
      BY <2>2 DEF Start, Stop
    <3>2. QED
      BY <1>0, <3>1 DEF UsedRows, Calm
  <2>3. ASSUME Grant PROVE used.faults = 0
    <3>1. used' = [used EXCEPT !.grants = @ + 1]
      BY <2>3 DEF Grant
    <3>2. QED
      BY <1>0, <3>1 DEF UsedRows, Calm
  <2>4. ASSUME GraceStop PROVE used.faults = 0
    BY <2>4, GraceStopIs DEF Calm
  <2>5. ASSUME StepFails PROVE used.faults = 0
    BY <2>5, StepFailsIs DEF Calm
  <2>6. ASSUME NEW late \in BOOLEAN, Pass(late) PROVE used.faults = 0
    BY <2>6, PassIs DEF Calm
  <2>7. ASSUME \/ \E s \in Sandboxes : CloseSession(s) \/ RepairLoad(s) \/ OpenSession(s) \/ Sync(s)
               \/ RepairCommit \/ MeterLoad \/ MeterCommit \/ Warn \/ GraceLoad \/ GraceCommit \/ ResetLoad
               \/ ResetCommit \/ UNCHANGED vars
        PROVE  used' = used
    BY <2>7, Zenon DEF CloseSession, RepairLoad, OpenSession, Sync, RepairCommit, MeterLoad, MeterCommit,
                       Warn, GraceLoad, GraceCommit, ResetLoad, ResetCommit, vars, world
  <2>8. QED
    BY <2>1, <2>2, <2>3, <2>4, <2>5, <2>6, <2>7 DEF Next, Tick
<1>3. QED
  BY <1>1, <1>2 DEF Calm

\* A charge of nothing, and what any charge leaves alone.
LEMMA ChargedPlan ==
    ASSUME TInv, NEW amount \in Nat, plan' = ConsumedPlan(plan, amount), grants' = ConsumedGrants(plan, amount)
    PROVE  /\ plan'.grace = plan.grace /\ plan'.warn100 = plan.warn100 /\ plan'.patience = plan.patience
           /\ plan'.start = plan.start /\ plan'.end = plan.end
           /\ amount = 0 => plan' = plan /\ grants' = grants
<1>1. GrantsOK /\ plan \in PlanRows
  BY StateFacts
<1>2. ExtraNeeded(plan, amount) \in Nat /\ ExtraNeeded(plan, amount) <= amount
  BY <1>1, ExtraNeededFacts
<1>3. /\ plan'.grace = plan.grace /\ plan'.warn100 = plan.warn100 /\ plan'.patience = plan.patience
      /\ plan'.start = plan.start /\ plan'.end = plan.end
      /\ amount = 0 => plan' = plan
  BY <1>1, ConsumedPlanFacts
<1>4. amount = 0 => grants' = grants
  BY <1>1, <1>2, ConsumedGrantsFacts
<1>5. QED
  BY <1>3, <1>4

LEMMA BrokeKept ==
    ASSUME UNCHANGED <<now, status, grants>>, plan'.used = plan.used, plan'.overage = plan.overage, Broke'
    PROVE  Broke
BY DEF Broke, Running, TotalRemaining, Extra, Left, Usable

\* What is left of the credits.
LEMMA RemainingIs ==
    ASSUME TInv
    PROVE  /\ TotalRemaining(plan) \in Int
           /\ TotalRemaining(plan) = Limit - plan.used + Extra - plan.overage /\ Extra \in Nat
<1>1. Limit \in Nat /\ plan.used \in Nat /\ plan.overage \in Nat /\ Extra \in Nat
  BY StateFacts, PlanFacts, GrantFacts, Constants
<1>2. QED
  BY <1>1 DEF TotalRemaining

RemainingOK == TotalRemaining(plan) \in Int /\ Extra \in Nat

LEMMA RemainingNext ==
    TInv' => TotalRemaining(plan)' \in Int /\ Extra' \in Nat
<1>1. TInv => RemainingOK
  BY RemainingIs DEF RemainingOK
<1>2. TInv' => RemainingOK'
  BY <1>1, PTL
<1>3. QED
  BY <1>2 DEF RemainingOK

\* A grant does not take anything away.
LEMMA GrantMore ==
    ASSUME TInv, Grant
    PROVE  Extra' >= Extra
<1>1. PICK expires \in {now + 2, Never} :
         grants' = Append(grants, [left |-> GrantAmount, expires |-> expires])
  BY DEF Grant
<1>2. now' = now
  BY OthersAre
<1> DEFINE k == Len(grants) + 1
           r == [left |-> GrantAmount, expires |-> expires]
           f == Left
           g == Left'
           S == Ours
<1>3. grants \in Seq(GrantRows) /\ Len(grants) \in Nat /\ DOMAIN grants = 1..Len(grants) /\ GrantsOK
  BY PlanKept, StateFacts
<1>4. DOMAIN grants' = DOMAIN grants \cup {k} /\ grants'[k] = r /\ k \notin DOMAIN grants
      /\ \A i \in DOMAIN grants : grants'[i] = grants[i]
  BY <1>1, <1>3
<1>5. r.left = GrantAmount /\ GrantAmount \in Nat
  BY Constants
<1> HIDE DEF k, r
<1>6. Ours' = IF r.left > 0 /\ r.expires > now THEN S \cup {k} ELSE S
  BY <1>2, <1>4 DEF Ours, Usable
<1>7. Extra = Total(f, S) /\ Extra' = Total(g, Ours')
  BY DEF Extra, Ours
<1>8. IsFiniteSet(S) /\ S \subseteq DOMAIN grants /\ \A i \in DOMAIN grants : f[i] \in Nat /\ f[i] = grants[i].left
  BY <1>3, GrantFacts
<1>9. g[k] = GrantAmount /\ \A i \in DOMAIN grants : g[i] = grants[i].left
  BY <1>4, <1>5 DEF Left
<1> HIDE DEF f, g, S
<1>10. k \notin S /\ g[k] \in Int /\ \A i \in S : g[i] \in Int /\ g[i] = f[i]
  BY <1>4, <1>5, <1>8, <1>9
<1>11. Total(g, S \cup {k}) = Total(f, S) + g[k]
  BY <1>8, <1>10, TotalAdd
<1>12. Total(g, S) = Total(f, S)
  BY <1>8, <1>10, TotalEqual
<1>13. Total(f, S) \in Nat
  BY <1>8, TotalNat
<1>14. QED
  BY <1>5, <1>6, <1>7, <1>9, <1>11, <1>12, <1>13

\* A step that closes sessions up to date leaves the others as they are.
LEMMA UpToDateKept ==
    ASSUME TInv, DOMAIN cs' = DOMAIN cs, now' = now,
           \A i \in DOMAIN cs : cs'[i].open => cs[i].open /\ cs'[i] = cs[i]
    PROVE  /\ UpToDate => UpToDate'
           /\ tick' = tick /\ WTick => (tick.pc = "charge" =>
                \A i \in OpenSessions' : cs'[i].last = now' \/ (i \in DOMAIN tick'.cs /\ cs'[i] = tick'.cs[i]))
<1>1. \A i \in OpenSessions' : i \in OpenSessions /\ cs'[i] = cs[i]
  BY DEF OpenSessions
<1>2. QED
  BY <1>1 DEF UpToDate, WTick

LEMMA ClosedOnly ==
    ASSUME TInv, NEW S, NEW p, CloseSessions(S, p)
    PROVE  /\ DOMAIN cs' = DOMAIN cs
           /\ \A i \in DOMAIN cs : cs'[i].open => cs[i].open /\ cs'[i] = cs[i]
<1>1. /\ Kept
      /\ \A i \in DOMAIN cs : IF i \in OpenAmong(S) THEN cs'[i] = Closed(cs[i]) ELSE cs'[i] = cs[i]
  BY CloseEffect
<1>2. ASSUME NEW i \in DOMAIN cs, cs'[i].open PROVE cs[i].open /\ cs'[i] = cs[i]
  <2>1. cs[i].open
    BY <1>1, <1>2 DEF Kept
  <2>2. i \notin OpenAmong(S)
    <3>1. cs[i] \in SessionRows /\ cs[i].last <= now /\ now \in Nat
      BY DueFacts
    <3>2. Closed(cs[i]).open = FALSE
      BY <3>1, ClosedFacts
    <3>3. QED
      BY <1>1, <1>2, <3>2
  <2>3. QED
    BY <1>1, <2>1, <2>2
<1>3. QED
  BY <1>1, <1>2 DEF Kept

\* The step of someone who charges what the sessions still have to be charged.
LEMMA WarnedCharge ==
    ASSUME TInv, WPlan, WTick, NEW amount \in Nat,
           plan' = ConsumedPlan(plan, amount), grants' = ConsumedGrants(plan, amount),
           UpToDate => amount = 0, UNCHANGED <<now, status, tick>>,
           DOMAIN cs' = DOMAIN cs, \A i \in DOMAIN cs : cs'[i].open => cs[i].open /\ cs'[i] = cs[i]
    PROVE  WPlan' /\ WTick'
<1>1. /\ plan'.grace = plan.grace /\ plan'.warn100 = plan.warn100
      /\ amount = 0 => plan' = plan /\ grants' = grants
  BY ChargedPlan
<1>2. /\ UpToDate => UpToDate'
      /\ tick.pc = "charge" =>
            \A i \in OpenSessions' : cs'[i].last = now' \/ (i \in DOMAIN tick'.cs /\ cs'[i] = tick'.cs[i])
  BY UpToDateKept
<1>3. WPlan'
  BY <1>1 DEF WPlan
<1>4. tick.pc = "grace" /\ Broke' => plan.warn100
  <2> SUFFICES ASSUME tick.pc = "grace", Broke' PROVE plan.warn100
    OBVIOUS
  <2>1. amount = 0
    BY DEF WTick
  <2>2. Broke
    BY <1>1, <2>1, BrokeKept
  <2>3. QED
    BY <2>2 DEF WTick
<1>5. QED
  BY <1>1, <1>2, <1>3, <1>4 DEF WTick

\* A step that changes neither plan nor sessions nor the time, for a tick at rest.
LEMMA WarnedKept ==
    ASSUME WPlan, WTick, UNCHANGED <<now, cs, plan, tick>>, Broke' => Broke
    PROVE  WPlan' /\ WTick'
<1>1. OpenSessions' = OpenSessions
  BY DEF OpenSessions
<1>2. UpToDate => UpToDate'
  BY <1>1 DEF UpToDate
<1>3. QED
  BY <1>1, <1>2 DEF WPlan, WTick

LEMMA WarnedOthers ==
    ASSUME TInv, WPlan, WTick, Calm',
           \/ \E s \in Sandboxes : \/ CloseSession(s) \/ RepairLoad(s) \/ OpenSession(s)
                                   \/ Start(s) \/ Stop(s) \/ Sync(s)
           \/ RepairCommit \/ Grant
    PROVE  WPlan' /\ WTick'
<1>0. UNCHANGED <<now, tick>>
  BY OthersAre
<1>1. ASSUME NEW s \in Sandboxes, CloseSession(s) PROVE WPlan' /\ WTick'
  <2>1. /\ CloseSessions({s}, plan) /\ plan' = ConsumedPlan(plan, FinalSlices({s})) /\ status' = status
    BY <1>1 DEF CloseSession
  <2>2. /\ FinalSlices({s}) \in Nat /\ grants' = ConsumedGrants(plan, FinalSlices({s}))
        /\ UpToDate => FinalSlices({s}) = 0
    BY <2>1, CloseEffect DEF CloseSessions, UpToDate
  <2>3. /\ DOMAIN cs' = DOMAIN cs
        /\ \A i \in DOMAIN cs : cs'[i].open => cs[i].open /\ cs'[i] = cs[i]
    BY <2>1, ClosedOnly
  <2>4. QED
    BY <1>0, <2>1, <2>2, <2>3, WarnedCharge
<1>2. ASSUME NEW s \in Sandboxes, RepairLoad(s) PROVE WPlan' /\ WTick'
  <2>1. UNCHANGED <<now, status, plan, grants, cs>>
    BY <1>2 DEF RepairLoad
  <2>2. QED
    BY <1>0, <2>1, WarnedKept, BrokeKept
<1>3. ASSUME RepairCommit PROVE WPlan' /\ WTick'
  <2> DEFINE k == repair[1]
             r == repair[2]
             a == RepairAmount
  <2>1. /\ Kept /\ k \in DOMAIN cs /\ r \in SessionRows /\ a \in Nat
        /\ plan' = ConsumedPlan(plan, a) /\ grants' = ConsumedGrants(plan, a)
        /\ \A j \in DOMAIN cs : j # k => cs'[j] = cs[j]
        /\ ~cs[k].open => cs' = cs /\ a = 0
        /\ cs[k].open => cs'[k].open = FALSE
        /\ r.last = now => a = 0
        /\ ~stale' => ~stale /\ (cs[k].open => cs[k] = r)
    BY <1>3, RepairEffect
  <2>2. status' = status
    BY <1>3 DEF RepairCommit
  <2> HIDE DEF k, r, a
  <2>3. UpToDate => a = 0
    <3> SUFFICES ASSUME UpToDate, cs[k].open PROVE a = 0
      BY <2>1
    <3>1. cs[k].last = now
      BY <2>1 DEF UpToDate, OpenSessions
    <3>2. QED
      BY <2>1, <3>1 DEF Calm
  <2>4. DOMAIN cs' = DOMAIN cs /\ \A i \in DOMAIN cs : cs'[i].open => cs[i].open /\ cs'[i] = cs[i]
    BY <2>1 DEF Kept
  <2>5. QED
    BY <1>0, <2>1, <2>2, <2>3, <2>4, WarnedCharge
<1>4. ASSUME NEW s \in Sandboxes, OpenSession(s) PROVE WPlan' /\ WTick'
  <2>1. cs' = Append(cs, NewSession(s, now)) /\ UNCHANGED <<now, status, plan, grants>>
    BY <1>4 DEF OpenSession, world
  <2>2. NewSession(s, now).last = now
    BY DEF NewSession
  <2>3. cs \in Seq(SessionRows) /\ Len(cs) \in Nat /\ DOMAIN cs = 1..Len(cs)
    BY PlanKept
  <2>4. \A i \in OpenSessions' : cs'[i].last = now \/ (i \in OpenSessions /\ cs'[i] = cs[i])
    <3>1. /\ DOMAIN cs' = 1..(Len(cs) + 1) /\ cs'[Len(cs) + 1] = NewSession(s, now)
          /\ \A i \in DOMAIN cs : cs'[i] = cs[i]
      BY <2>1, <2>3
    <3>2. \A i \in DOMAIN cs' : i \in DOMAIN cs \/ i = Len(cs) + 1
      BY <2>3, <3>1
    <3>3. QED
      BY <2>2, <3>1, <3>2 DEF OpenSessions
  <2>5. UpToDate => UpToDate'
    BY <2>1, <2>4 DEF UpToDate
  <2>6. Broke' => Broke
    BY <2>1, BrokeKept
  <2>7. QED
    BY <1>0, <2>1, <2>4, <2>5, <2>6 DEF WPlan, WTick
<1>5. ASSUME NEW s \in Sandboxes, Start(s) PROVE WPlan' /\ WTick'
  <2>1. UNCHANGED <<now, cs, plan, grants>> /\ TotalRemaining(plan) > 0
    BY <1>5 DEF Start, world
  <2>2. TotalRemaining(plan)' = TotalRemaining(plan)
    BY <2>1 DEF TotalRemaining, Extra, Left, Usable
  <2>3. ~Broke'
    BY <2>1, <2>2, RemainingIs DEF Broke
  <2>4. QED
    BY <1>0, <2>1, <2>3, WarnedKept
<1>6. ASSUME NEW s \in Sandboxes, Stop(s) \/ Sync(s) PROVE WPlan' /\ WTick'
  <2>1. UNCHANGED <<now, cs, plan, grants>>
    BY <1>6 DEF Stop, Sync, world
  <2>2. TotalRemaining(plan)' = TotalRemaining(plan)
    BY <2>1 DEF TotalRemaining, Extra, Left, Usable
  <2>3. Running' \subseteq Running
    <3>1. status \in [Sandboxes -> {"creating", "ready", "stopped"}]
      BY WorldFacts
    <3>2. /\ status[s] \in {"creating", "ready"}
          /\ \E x : status' = [status EXCEPT ![s] = x]
      BY <1>6 DEF Stop, Sync
    <3>3. QED
      BY <3>1, <3>2 DEF Running
  <2>4. Broke' => Broke
    BY <2>2, <2>3 DEF Broke
  <2>5. QED
    BY <1>0, <2>1, <2>4, WarnedKept
<1>7. ASSUME Grant PROVE WPlan' /\ WTick'
  <2>1. UNCHANGED <<now, status, cs, plan>>
    BY <1>7 DEF Grant, world
  <2>2. Extra' >= Extra /\ TInv'
    BY <1>7, GrantMore, TypeWorld
  <2>3. TotalRemaining(plan)' >= TotalRemaining(plan)
    <3>1. Extra \in Nat /\ Extra' \in Nat
      BY <2>2, RemainingIs, RemainingNext
    <3>2. Limit \in Nat /\ plan.used \in Nat /\ plan.overage \in Nat
      BY Constants, PlanKept, PlanFacts
    <3>3. TotalRemaining(plan)' = Limit - plan.used + Extra' - plan.overage
      BY <2>1 DEF TotalRemaining
    <3>4. QED
      BY <2>2, <3>1, <3>2, <3>3, RemainingIs
  <2>4. Broke' => Broke
    <3>1. Running' = Running
      BY <2>1 DEF Running
    <3>2. TotalRemaining(plan)' \in Int
      BY <2>2, RemainingNext
    <3>3. QED
      BY <2>3, <3>1, <3>2, RemainingIs DEF Broke
  <2>5. QED
    BY <1>0, <2>1, <2>4, WarnedKept
<1>8. QED
  BY <1>1, <1>2, <1>3, <1>4, <1>5, <1>6, <1>7


\* The steps of the metering tick.
LEMMA WarnedTick ==
    ASSUME TInv, WPlan, WTick, Calm', Tick
    PROVE  WPlan' /\ WTick'
<1>1. ASSUME MeterLoad PROVE WPlan' /\ WTick'
  <2>1. tick'.pc = "charge" /\ tick'.cs = cs /\ UNCHANGED <<cs, plan>>
    BY <1>1, MeterLoadIs
  <2>2. \A i \in OpenSessions' : i \in DOMAIN tick'.cs /\ cs'[i] = tick'.cs[i]
    BY <2>1 DEF OpenSessions
  <2>3. WPlan'
    BY <2>1 DEF WPlan
  <2>4. QED
    BY <2>1, <2>2, <2>3 DEF WTick
<1>2. ASSUME MeterCommit PROVE WPlan' /\ WTick'
  <2>1. tick.pc = "charge" /\ tick'.pc = "warn" /\ now' = now
    BY <1>2, MeterCommitIs
  <2>2. /\ Kept /\ MeterIds \in SUBSET DOMAIN cs /\ MeterAmount \in Nat
        /\ plan' = ConsumedPlan(plan, MeterAmount) /\ grants' = ConsumedGrants(plan, MeterAmount)
        /\ \A i \in DOMAIN cs : i \notin MeterIds => cs'[i] = cs[i]
        /\ \A i \in MeterIds : cs'[i].last = now
    BY <1>2, MeterEffect
  <2>3. plan'.grace = plan.grace /\ plan'.warn100 = plan.warn100
    BY <2>2, ChargedPlan
  <2>4. ASSUME NEW i \in OpenSessions' PROVE cs'[i].last = now
    <3>1. i \in OpenSessions
      BY <2>2, <2>4 DEF OpenSessions, Kept
    <3>2. CASE i \in MeterIds
      BY <2>2, <3>2
    <3>3. CASE i \notin MeterIds
      <4>1. cs'[i] = cs[i] /\ i \in DOMAIN cs /\ cs[i].open
        BY <2>2, <3>1, <3>3 DEF OpenSessions
      <4>2. cs[i].last = now \/ (i \in DOMAIN tick.cs /\ cs[i] = tick.cs[i])
        BY <2>1, <3>1 DEF WTick
      <4>3. cs[i].last <= now /\ cs[i].last \in Nat /\ now \in Nat
        BY <4>1, DueFacts
      <4>4. ASSUME cs[i].last # now PROVE FALSE
        <5>1. i \in DOMAIN tick.cs /\ cs[i] = tick.cs[i] /\ tick.cs[i].open /\ now > tick.cs[i].last
          BY <4>1, <4>2, <4>3, <4>4
        <5>2. i \in MeterIds
          BY <5>1 DEF MeterIds, Unchanged
        <5>3. QED
          BY <3>3, <5>2
      <4>5. QED
        BY <4>1, <4>4
    <3>4. QED
      BY <3>2, <3>3
  <2>5. UpToDate'
    BY <2>1, <2>4 DEF UpToDate
  <2>6. WPlan'
    BY <2>3 DEF WPlan
  <2>7. QED
    BY <2>1, <2>5, <2>6 DEF WTick
<1>3. ASSUME Warn PROVE WPlan' /\ WTick'
  <2>1. /\ tick.pc = "warn" /\ tick'.pc = "grace" /\ UNCHANGED <<now, status, cs, grants>>
        /\ plan'.used = plan.used /\ plan'.overage = plan.overage /\ plan'.grace = plan.grace
        /\ plan.warn100 => plan'.warn100
        /\ Running # {} /\ TotalRemaining(plan) <= 0 => plan'.warn100
    BY <1>3, WarnIs
  <2>2. Broke' => plan'.warn100
    BY <2>1, BrokeKept DEF Broke
  <2>3. UpToDate'
    BY <2>1 DEF WTick, UpToDate, OpenSessions
  <2>4. WPlan'
    BY <2>1 DEF WPlan
  <2>5. QED
    BY <2>1, <2>2, <2>3, <2>4 DEF WTick
<1>4. ASSUME GraceLoad PROVE WPlan' /\ WTick'
  <2>1. tick.pc = "grace"
    BY <1>4, GraceLoadIs
  <2>2. Running # {} /\ TotalRemaining(plan) <= 0 => plan.warn100
    BY <2>1 DEF WTick, Broke
  <2>3. plan'.warn100 = plan.warn100 /\ (tick'.pc = "stop" \/ tick'.pc = "reset")
    BY <1>4, GraceLoadIs
  <2>4. tick'.pc = "stop" => Running # {} /\ TotalRemaining(plan) <= 0
    BY <1>4, GraceLoadIs
  <2>5. plan'.grace = plan.grace \/ plan'.grace = None \/ (Running # {} /\ ~(TotalRemaining(plan) > 0))
    BY <1>4, GraceLoadIs
  <2>6. TotalRemaining(plan) \in Int
    BY RemainingIs
  <2>7. WPlan'
    BY <2>2, <2>3, <2>5, <2>6 DEF WPlan
  <2>8. QED
    BY <2>2, <2>3, <2>4, <2>7 DEF WTick
<1>5. ASSUME GraceStop PROVE WPlan' /\ WTick'
  <2>1. tick'.pc = "enforce" /\ plan' = plan
    BY <1>5, GraceStopIs
  <2>2. WPlan'
    BY <2>1 DEF WPlan
  <2>3. QED
    BY <2>1, <2>2 DEF WTick
<1>6. ASSUME GraceCommit PROVE WPlan' /\ WTick'
  <2>1. /\ tick'.pc = "reset" /\ tick.plan = plan /\ plan' = Ended
        /\ CloseSessions(tick.ready, tick.plan)
        /\ Ended.warn100 = Enforced.warn100
        /\ Ended.grace = IF Running = {} THEN None ELSE Enforced.grace
    BY <1>6, GraceCommitIs DEF Calm
  <2>2. FinalSlices(tick.ready) \in Nat /\ GrantsOK /\ plan \in PlanRows
    BY <2>1, CloseEffect, StateFacts
  <2>3. Enforced.warn100 = plan.warn100 /\ Enforced.grace = plan.grace
    BY <2>1, <2>2, ConsumedPlanFacts DEF Enforced
  <2>4. WPlan'
    BY <2>1, <2>3 DEF WPlan
  <2>5. QED
    BY <2>1, <2>4 DEF WTick
<1>7. ASSUME ResetLoad PROVE WPlan' /\ WTick'
  <2>1. plan' = plan /\ ((tick'.pc = "roll" /\ tick'.plan = plan) \/ tick'.pc = "sleep")
    BY <1>7, ResetLoadIs
  <2>2. WPlan'
    BY <2>1 DEF WPlan
  <2>3. QED
    BY <2>1, <2>2 DEF WTick
<1>8. ASSUME ResetCommit PROVE WPlan' /\ WTick'
  <2>1. tick.pc = "roll" /\ tick'.pc = "sleep"
    BY <1>8, ResetCommitIs
  <2>2. plan' = plan \/ plan'.grace = IF tick.plan.grace # None THEN None ELSE plan.grace
    BY <1>8, ResetEffect
  <2>3. plan.grace = tick.plan.grace
    BY <2>1 DEF WTick
  <2>4. WPlan'
    BY <2>2, <2>3 DEF WPlan
  <2>5. QED
    BY <2>1, <2>4 DEF WTick
<1>9. QED
  BY <1>1, <1>2, <1>3, <1>4, <1>5, <1>6, <1>7, <1>8 DEF Tick

LEMMA WarnedStep == TInv /\ WInv /\ [Next]_vars => WInv'
<1> SUFFICES ASSUME TInv, WInv, [Next]_vars, Calm' PROVE WPlan' /\ WTick'
  BY DEF WInv
<1>1. Calm /\ WPlan /\ WTick
  BY CalmStep DEF WInv
<1>2. ASSUME Tick PROVE WPlan' /\ WTick'
  BY <1>1, <1>2, WarnedTick
<1>3. ASSUME \/ \E s \in Sandboxes : \/ CloseSession(s) \/ RepairLoad(s) \/ OpenSession(s)
                                     \/ Start(s) \/ Stop(s) \/ Sync(s)
             \/ RepairCommit \/ Grant
      PROVE  WPlan' /\ WTick'
  BY <1>1, <1>3, WarnedOthers
<1>4. ASSUME StepFails PROVE WPlan' /\ WTick'
  BY <1>4, StepFailsIs DEF Calm
<1>5. ASSUME NEW late \in BOOLEAN, Pass(late) PROVE WPlan' /\ WTick'
  <2>1. tick'.pc = "sleep" /\ plan' = plan
    BY <1>5, PassIs
  <2>2. WPlan'
    BY <1>1, <2>1 DEF WPlan
  <2>3. QED
    BY <2>1, <2>2 DEF WTick
<1>6. ASSUME UNCHANGED vars PROVE WPlan' /\ WTick'
  <2>1. UNCHANGED <<now, status, cs, plan, grants, tick>>
    BY <1>6 DEF vars
  <2>2. Broke' => Broke
    BY <2>1, BrokeKept
  <2>3. QED
    BY <1>1, <2>1, <2>2, WarnedKept
<1>7. QED
  BY <1>2, <1>3, <1>4, <1>5, <1>6 DEF Next

LEMMA WarnedInvariant == Spec => []WInv
<1>1. Init => WInv
  <2>1. Init => plan.grace = None /\ tick.pc = "sleep"
    BY DEF Init, NewPlan, IdleTick
  <2>2. QED
    BY <2>1 DEF WInv, WPlan, WTick
<1>2. QED
  BY <1>1, WarnedStep, TypeInvariant, PTL DEF Spec

\* WarnedBeforeStop: as long as no step of a tick fails and no charge is repeated,
\* enforcement only suspends the sandboxes of a user who was warned of used up
\* credits in this period: run_metering_tick warns before it looks at the grace
\* period, and nobody charges anything in between, because the metering step before
\* has brought every open session up to date.
THEOREM WarnedCorrect == Spec => WarnedBeforeStop
<1>1. TInv /\ WInv /\ [Next]_vars =>
        [tick.pc = "stop" /\ mode' # mode /\ used.faults = 0 /\ ~stale => plan.warn100]_vars
  BY DEF WInv, WTick, Calm
<1>2. QED
  BY <1>1, WarnedInvariant, TypeInvariant, PTL DEF Spec, WarnedBeforeStop


-----------------------------------------------------------------------------
(* Debt is bounded.  Between the warnings and the next interval a user who *)
(* is not in debt, one in the grace period and one whose sandboxes are all *)
(* suspended are told apart; what is metered late counts as spent already. *)

Watched == used.faults = 0 /\ used.late = 0 /\ ~stale /\ grants = <<>>

Count == Cardinality(Sandboxes)
Debt == plan.used + plan.overage - Limit

\* The debt once the open sessions are metered up to now.
Pot == Debt + (Total(Due, DOMAIN cs) - Total(Metered, DOMAIN cs))

\* What the cap allows, and what can be owed x intervals after the grace began.
Cap == IF Limit <= 5 * (Count - 1) THEN 5 * (Count - 1) ELSE Limit
Allowed(x) == Count - 1 + x * Count

Ends(x) == 5 * x <= Cap + 5 * Count /\ x <= Allowed(plan.patience + 1)

AllSuspended == \A s \in Sandboxes : mode[s] = "Suspended"

\* Nothing runs, and nothing is started: the debt stays what it is.
Frozen == AllSuspended /\ Debt >= 0 /\ Ends(Debt) /\ UpToDate

\* In the grace period, t intervals after the last look at it.
Graced(t, x) ==
    /\ plan.grace # None /\ plan.grace <= now /\ now - plan.grace <= plan.patience + t
    /\ 5 * x <= Cap + (IF t = 0 THEN 0 ELSE 5 * Count) /\ x <= Allowed(now - plan.grace)

\* From the interval to the grace check.
Charging == (tick.pc = "sleep" /\ tick.left = 0) \/ tick.pc \in {"charge", "warn", "grace"}

Balance ==
    /\ plan.grace # None => Debt >= 0
    /\ Charging => Frozen \/ (plan.grace = None /\ Pot <= Count - 1) \/ Graced(1, Pot)
    /\ ~Charging => UpToDate
    /\ ~Charging /\ tick.pc # "stop" => Frozen \/ (plan.grace = None /\ Debt < 0) \/ Graced(0, Debt)

Period ==
    /\ plan.end >= now
    /\ tick.pc = "sleep" /\ tick.left = 1 => plan.end > now

Enforcing ==
    /\ tick.pc = "stop" => Debt >= 0 /\ Ends(Debt) /\ Running \subseteq tick.ready
    /\ tick.pc = "enforce" => Frozen
    /\ tick.pc \in {"stop", "enforce", "roll"} => tick.plan = plan
    /\ tick.pc # "sleep" => tick.left = 1

DInv == Watched => Balance /\ Period /\ Enforcing

\* A sandbox that is stopped has a suspended CR.
Stopped == \A s \in Sandboxes : status[s] = "stopped" => mode[s] = "Suspended"

\* What the terms of the invariant are.
DebtOK ==
    /\ now \in Nat /\ Count \in Nat /\ Limit \in Nat /\ Cap \in Nat /\ 5 * (Count - 1) <= Cap /\ Limit <= Cap
    /\ plan.patience \in Nat /\ plan.end \in Nat /\ (plan.grace = None \/ plan.grace \in Nat)
    /\ Debt \in Int /\ Pot \in Int /\ Debt <= Pot
    /\ UpToDate => Pot = Debt
    /\ grants = <<>> => TotalRemaining(plan) = 0 - Debt /\ Extra = 0

LEMMA DebtFacts == TInv => DebtOK
<1> SUFFICES ASSUME TInv PROVE DebtOK
  OBVIOUS
<1>1. now \in Nat /\ Limit \in Nat /\ plan \in PlanRows
  BY PlanKept, Constants
<1>2. /\ plan.patience \in Nat /\ plan.end \in Nat /\ (plan.grace = None \/ plan.grace \in Nat)
      /\ plan.used \in Nat /\ plan.overage \in Nat
  BY <1>1 DEF PlanRows
<1>3. Count \in Nat
  BY MeteringAssumption, FS_CardinalityType DEF Count
<1>4. Cap \in Nat /\ 5 * (Count - 1) <= Cap /\ Limit <= Cap
  BY <1>1, <1>3 DEF Cap
<1>5. Debt \in Int
  BY <1>1, <1>2 DEF Debt
<1> DEFINE f == Metered
           g == Due
           D == DOMAIN cs
<1>6. IsFiniteSet(D) /\ \A i \in D : /\ f[i] \in Int /\ g[i] \in Int /\ f[i] <= g[i]
                                     /\ UpToDate => g[i] = f[i]
  <2>1. IsFiniteSet(D)
    BY DueFacts
  <2>2. ASSUME NEW i \in D
        PROVE  f[i] \in Int /\ g[i] \in Int /\ f[i] <= g[i] /\ (UpToDate => g[i] = f[i])
    <3>1. /\ now \in Nat /\ cs[i].last \in Nat /\ cs[i].last <= now /\ cs[i].hours \in Nat
          /\ g[i] = cs[i].hours + (IF cs[i].open THEN now - cs[i].last ELSE 0)
      BY DueFacts
    <3>2. f[i] = cs[i].hours
      BY DEF Metered
    <3>3. UpToDate /\ cs[i].open => cs[i].last = now
      BY DEF UpToDate, OpenSessions
    <3> HIDE DEF f, g
    <3>4. QED
      BY <3>1, <3>2, <3>3
  <2>3. QED
    BY <2>1, <2>2
<1>7. Pot = Debt + (Total(g, D) - Total(f, D))
  BY DEF Pot
<1> HIDE DEF f, g, D
<1>8. Total(f, D) \in Int /\ Total(g, D) \in Int
  BY <1>6, TotalInt
<1>9. Total(f, D) <= Total(g, D)
  BY <1>6, TotalMono
<1>10. UpToDate => Total(g, D) = Total(f, D)
  BY <1>6, TotalEqual
<1>11. ASSUME grants = <<>> PROVE TotalRemaining(plan) = 0 - Debt /\ Extra = 0
  <2>1. {g1 \in DOMAIN grants : Usable(g1)} = {}
    BY <1>11
  <2>2. Extra = 0
    BY <2>1, TotalEmpty DEF Extra
  <2>3. QED
    BY <1>1, <1>2, <2>2 DEF TotalRemaining, Debt
<1>12. Pot \in Int /\ Debt <= Pot /\ (UpToDate => Pot = Debt)
  BY <1>5, <1>7, <1>8, <1>9, <1>10
<1>13. QED
  BY <1>1, <1>2, <1>3, <1>4, <1>5, <1>11, <1>12 DEF DebtOK

LEMMA DebtFactsNext == TInv' => DebtOK'
BY DebtFacts, PTL

LEMMA AllowedFacts ==
    ASSUME Count \in Nat
    PROVE  /\ Allowed(0) = Count - 1
           /\ \A x \in Nat : Allowed(x) \in Int /\ Allowed(x + 1) = Allowed(x) + Count /\ Count - 1 <= Allowed(x)
           /\ \A x, y \in Nat : x <= y => Allowed(x) <= Allowed(y)
<1>1. \A c, x \in Nat : x * c \in Nat
  OBVIOUS
<1>2. \A c, x \in Nat : (x + 1) * c = x * c + c
  OBVIOUS
<1>3. \A c, x, y \in Nat : x <= y => x * c <= y * c
  <2> SUFFICES ASSUME NEW c \in Nat, NEW x \in Nat, NEW y \in Nat, x <= y PROVE x * c <= y * c
    OBVIOUS
  <2>1. y - x \in Nat /\ y = x + (y - x)
    OBVIOUS
  <2>2. (y - x) * c \in Nat /\ x * c \in Nat
    BY <1>1, <2>1
  <2>3. y * c = x * c + (y - x) * c
    BY <2>1
  <2>4. QED
    BY <2>2, <2>3
<1>4. 0 * Count = 0
  OBVIOUS
<1>5. Allowed(0) = Count - 1
  BY <1>4 DEF Allowed
<1>6. ASSUME NEW x \in Nat
      PROVE  Allowed(x) \in Int /\ Allowed(x + 1) = Allowed(x) + Count /\ Count - 1 <= Allowed(x)
  BY <1>1, <1>2 DEF Allowed
<1>7. ASSUME NEW x \in Nat, NEW y \in Nat, x <= y PROVE Allowed(x) <= Allowed(y)
  <2>1. x * Count <= y * Count /\ x * Count \in Nat /\ y * Count \in Nat
    BY <1>1, <1>3, <1>7
  <2>2. QED
    BY <2>1 DEF Allowed
<1>8. QED
  BY <1>5, <1>6, <1>7

\* A debt that can still be made good, or that the grace period allows.
LEMMA EndsOf ==
    ASSUME DebtOK, NEW x \in Int, x <= Count - 1 \/ Graced(0, x) \/ Graced(1, x)
    PROVE  Ends(x)
<1>1. /\ now \in Nat /\ Count \in Nat /\ Cap \in Nat /\ 5 * (Count - 1) <= Cap /\ plan.patience \in Nat
      /\ (plan.grace = None \/ plan.grace \in Nat)
  BY DEF DebtOK
<1>2. plan.patience + 1 \in Nat
  BY <1>1
<1>3. CASE x <= Count - 1
  <2>1. Count - 1 <= Allowed(plan.patience + 1) /\ Allowed(plan.patience + 1) \in Int
    BY <1>1, <1>2, AllowedFacts
  <2>2. QED
    BY <1>1, <1>3, <2>1 DEF Ends
<1>4. CASE Graced(0, x) \/ Graced(1, x)
  <2>1. /\ plan.grace \in Nat /\ plan.grace <= now /\ now - plan.grace <= plan.patience + 1
        /\ 5 * x <= Cap + 5 * Count /\ x <= Allowed(now - plan.grace)
    BY <1>1, <1>4 DEF Graced
  <2>2. now - plan.grace \in Nat
    BY <1>1, <2>1
  <2>3. /\ Allowed(now - plan.grace) <= Allowed(plan.patience + 1)
        /\ Allowed(now - plan.grace) \in Int /\ Allowed(plan.patience + 1) \in Int
    BY <1>1, <1>2, <2>1, <2>2, AllowedFacts
  <2>4. QED
    BY <1>1, <2>1, <2>3 DEF Ends
<1>5. QED
  BY <1>3, <1>4

\* In every case the debt is bounded as DebtBounded says.
LEMMA DebtEnds ==
    ASSUME TInv, Balance, Enforcing
    PROVE  Ends(Debt)
<1>1. DebtOK
  BY DebtFacts
<1>2. /\ Count \in Nat /\ Cap \in Nat /\ plan.patience + 1 \in Nat
      /\ Debt \in Int /\ Pot \in Int /\ Debt <= Pot
  BY <1>1 DEF DebtOK
<1>3. CASE Frozen
  BY <1>3 DEF Frozen
<1>4. CASE Charging /\ ~Frozen
  <2>1. Ends(Pot)
    BY <1>1, <1>2, <1>4, EndsOf DEF Balance
  <2>2. Allowed(plan.patience + 1) \in Int
    BY <1>2, AllowedFacts
  <2>3. QED
    BY <1>2, <2>1, <2>2 DEF Ends
<1>5. CASE ~Charging /\ ~Frozen /\ tick.pc # "stop"
  <2>1. Debt <= Count - 1 \/ Graced(0, Debt)
    BY <1>2, <1>5 DEF Balance
  <2>2. QED
    BY <1>1, <1>2, <2>1, EndsOf
<1>6. CASE tick.pc = "stop"
  BY <1>6 DEF Enforcing
<1>7. QED
  BY <1>3, <1>4, <1>5, <1>6


\* At most one session per sandbox is open.
LEMMA OpenCount ==
    ASSUME TInv
    PROVE  OpenSessions \in SUBSET DOMAIN cs /\ Cardinality(OpenSessions) \in Nat /\ Cardinality(OpenSessions) <= Count
<1>1. OpenSessions \in SUBSET DOMAIN cs /\ IsFiniteSet(DOMAIN cs)
  BY DueFacts DEF OpenSessions
<1>2. IsFiniteSet(OpenSessions)
  BY <1>1, FS_Subset
<1>3. IsFiniteSet(Sandboxes)
  BY MeteringAssumption
<1>4. Cardinality(OpenSessions) \in Nat /\ Cardinality(Sandboxes) \in Nat
  BY <1>2, <1>3, FS_CardinalityType
<1>5. \A i \in OpenSessions : cs[i].sandbox \in Sandboxes
  BY <1>1, DueFacts DEF SessionRows
<1> DEFINE f == [i \in OpenSessions |-> cs[i].sandbox]
<1>6. f \in [OpenSessions -> Sandboxes]
  BY <1>5
<1>7. \A i, j \in OpenSessions : f[i] = f[j] => i = j
  BY DEF TInv, OneOpen, OpenSessions
<1> HIDE DEF f
<1>8. ~(Cardinality(Sandboxes) < Cardinality(OpenSessions))
  BY <1>2, <1>3, <1>6, <1>7, FS_PigeonHole
<1>9. QED
  BY <1>1, <1>4, <1>8 DEF Count

\* An interval: what is owed grows by one per open session.
LEMMA PotPass ==
    ASSUME TInv, UNCHANGED <<cs, plan>>, now' = now + 1
    PROVE  Debt' = Debt /\ Pot' = Pot + Cardinality(OpenSessions)
<1> DEFINE f == Due
           g == Due'
           D == DOMAIN cs
           O == OpenSessions
<1>1. Debt' = Debt
  BY DEF Debt
<1>2. Metered' = Metered /\ DOMAIN cs' = D
  BY DEF Metered
<1>3. IsFiniteSet(D) /\ O \in SUBSET D /\ Cardinality(O) \in Nat
  BY DueFacts, OpenCount
<1>4. ASSUME NEW i \in D PROVE f[i] \in Int /\ g[i] = f[i] + (IF i \in O THEN 1 ELSE 0)
  <2>1. /\ now \in Nat /\ cs[i].last \in Nat /\ cs[i].last <= now /\ cs[i].hours \in Nat
        /\ f[i] = cs[i].hours + (IF cs[i].open THEN now - cs[i].last ELSE 0) /\ f[i] \in Nat
    BY DueFacts
  <2>2. g[i] = cs[i].hours + (IF cs[i].open THEN (now + 1) - cs[i].last ELSE 0)
    BY DEF Due
  <2>3. i \in O <=> cs[i].open
    BY DEF OpenSessions
  <2> HIDE DEF f, g, O
  <2>4. CASE cs[i].open
    BY <2>1, <2>2, <2>3, <2>4
  <2>5. CASE ~cs[i].open
    BY <2>1, <2>2, <2>3, <2>5
  <2>6. QED
    BY <2>4, <2>5
<1>5. Pot = Debt + (Total(f, D) - Total(Metered, D)) /\ Pot' = Debt + (Total(g, D) - Total(Metered, D))
  BY <1>1, <1>2 DEF Pot
<1>6. Debt \in Int /\ Total(Metered, D) \in Int
  <2>1. Debt \in Int
    BY DebtFacts DEF DebtOK
  <2>2. \A i \in D : Metered[i] \in Int
    BY DueFacts DEF Metered
  <2> HIDE DEF D
  <2>3. QED
    BY <1>3, <2>1, <2>2, TotalInt
<1> HIDE DEF f, g, D, O
<1>7. Total(g, D) = Total(f, D) + Cardinality(O)
  BY <1>3, <1>4, TotalCount
<1>8. Total(f, D) \in Int
  BY <1>3, <1>4, TotalInt
<1>9. Pot' = Pot + Cardinality(O)
  BY <1>3, <1>5, <1>6, <1>7, <1>8
<1>10. QED
  BY <1>1, <1>9 DEF O

\* A charge moves what was due to the debt, and loses some of it at most.
LEMMA PotCharge ==
    ASSUME TInv, grants = <<>>, NEW amount \in Nat, plan' = ConsumedPlan(plan, amount), now' = now,
           DOMAIN cs' = DOMAIN cs, \A i \in DOMAIN cs : Due'[i] \in Int /\ Due'[i] <= Due[i],
           Total(Metered', DOMAIN cs') = Total(Metered, DOMAIN cs) + amount
    PROVE  Debt' = Debt + amount /\ Pot' <= Pot
<1>1. /\ GrantsOK /\ plan \in PlanRows /\ Extra = 0 /\ Debt \in Int
  BY StateFacts, DebtFacts DEF DebtOK
<1>2. ExtraNeeded(plan, amount) \in Nat /\ ExtraNeeded(plan, amount) <= amount
  BY <1>1, ExtraNeededFacts
<1>3. /\ plan'.used = plan.used + (amount - ExtraNeeded(plan, amount))
      /\ plan'.overage = plan.overage
           + (IF ExtraNeeded(plan, amount) <= Extra THEN 0 ELSE ExtraNeeded(plan, amount) - Extra)
  BY <1>1, ConsumedPlanFacts
<1>4. Limit \in Nat /\ plan.used \in Nat /\ plan.overage \in Nat
  BY <1>1, Constants DEF PlanRows
<1>5. Debt' = Debt + amount
  <2> DEFINE e == ExtraNeeded(plan, amount)
  <2>1. e \in Nat /\ plan'.used = plan.used + (amount - e) /\ plan'.overage = plan.overage + e
    BY <1>1, <1>2, <1>3
  <2>2. Debt' = plan'.used + plan'.overage - Limit /\ Debt = plan.used + plan.overage - Limit
    BY DEF Debt
  <2>3. \A u, v, l, a, x \in Int : (u + (a - x)) + (v + x) - l = (u + v - l) + a
    OBVIOUS
  <2> HIDE DEF e
  <2>4. (plan.used + (amount - e)) + (plan.overage + e) - Limit = (plan.used + plan.overage - Limit) + amount
    BY <1>4, <2>1, <2>3
  <2>5. QED
    BY <2>1, <2>2, <2>4, Zenon
<1> DEFINE f == Due
           g == Due'
           D == DOMAIN cs
           t == Total(Metered, D)
<1>6. Pot = Debt + (Total(f, D) - t) /\ Pot' = Debt' + (Total(g, D) - (t + amount))
  BY DEF Pot
<1>7. IsFiniteSet(D) /\ \A i \in D : g[i] \in Int /\ f[i] \in Int /\ g[i] <= f[i]
  BY DueFacts
<1>8. t \in Int
  <2>1. \A i \in D : Metered[i] \in Int
    BY DueFacts DEF Metered
  <2> HIDE DEF D
  <2>2. QED
    BY <1>7, <2>1, TotalInt
<1> HIDE DEF f, g, D, t
<1>9. Total(g, D) <= Total(f, D)
  BY <1>7, TotalMono
<1>10. Total(f, D) \in Int /\ Total(g, D) \in Int
  BY <1>7, TotalInt
<1>11. QED
  BY <1>1, <1>5, <1>6, <1>8, <1>9, <1>10


LEMMA NoGrants ==
    ASSUME TInv, NEW p, NEW amount, grants' = ConsumedGrants(p, amount), grants' = <<>>
    PROVE  grants = <<>>
<1>1. grants \in Seq(GrantRows)
  BY PlanKept
<1>2. DOMAIN grants' = DOMAIN grants
  BY DEF ConsumedGrants
<1>3. DOMAIN grants = {}
  BY <1>2
<1>4. QED
  BY <1>1, <1>3

LEMMA WatchedStep == TInv /\ [Next]_vars /\ Watched' => Watched
<1> SUFFICES ASSUME TInv, [Next]_vars, Watched' PROVE Watched
  OBVIOUS
<1>0. used \in UsedRows /\ used'.late = 0 /\ grants' = <<>>
  BY WorldFacts DEF Watched
<1>1. Calm
  BY CalmStep DEF Watched, Calm
<1>2. used.late = 0
  <2>1. ASSUME NEW s \in Sandboxes, Start(s) \/ Stop(s) PROVE used.late = 0
    <3>1. used' = [used EXCEPT !.ops = @ + 1]
      BY <2>1 DEF Start, Stop
    <3>2. QED
      BY <1>0, <3>1 DEF UsedRows
  <2>2. ASSUME Grant PROVE used.late = 0
    <3>1. used' = [used EXCEPT !.grants = @ + 1]
      BY <2>2 DEF Grant
    <3>2. QED
      BY <1>0, <3>1 DEF UsedRows
  <2>3. ASSUME GraceStop PROVE used.late = 0
    BY <1>0, <2>3, GraceStopIs
  <2>4. ASSUME StepFails PROVE used.late = 0
    <3>1. used' = [used EXCEPT !.faults = @ + 1]
      BY <2>4 DEF StepFails
    <3>2. QED
      BY <1>0, <3>1 DEF UsedRows
  <2>5. ASSUME NEW late \in BOOLEAN, Pass(late) PROVE used.late = 0
    BY <1>0, <2>5, PassIs
  <2>6. ASSUME \/ \E s \in Sandboxes : CloseSession(s) \/ RepairLoad(s) \/ OpenSession(s) \/ Sync(s)
               \/ RepairCommit \/ MeterLoad \/ MeterCommit \/ Warn \/ GraceLoad \/ GraceCommit \/ ResetLoad
               \/ ResetCommit \/ UNCHANGED vars
        PROVE  used' = used
    BY <2>6, Zenon DEF CloseSession, RepairLoad, OpenSession, Sync, RepairCommit, MeterLoad, MeterCommit,
                       Warn, GraceLoad, GraceCommit, ResetLoad, ResetCommit, vars, world
  <2>7. QED
    BY <1>0, <2>1, <2>2, <2>3, <2>4, <2>5, <2>6 DEF Next, Tick
<1>3. grants = <<>>
  <2>1. ASSUME NEW s \in Sandboxes, CloseSession(s) PROVE grants = <<>>
    <3>1. grants' = ConsumedGrants(plan, FinalSlices({s}))
      BY <2>1 DEF CloseSession, CloseSessions
    <3>2. QED
      BY <1>0, <3>1, NoGrants
  <2>2. ASSUME RepairCommit PROVE grants = <<>>
    <3>1. grants' = ConsumedGrants(plan, RepairAmount)
      BY <2>2, RepairEffect
    <3>2. QED
      BY <1>0, <3>1, NoGrants
  <2>3. ASSUME MeterCommit PROVE grants = <<>>
    <3>1. grants' = ConsumedGrants(plan, MeterAmount)
      BY <2>3, MeterEffect
    <3>2. QED
      BY <1>0, <3>1, NoGrants
  <2>4. ASSUME GraceCommit PROVE grants = <<>>
    <3>1. grants' = ConsumedGrants(tick.plan, FinalSlices(tick.ready))
      BY <2>4, GraceCommitIs DEF CloseSessions
    <3>2. QED
      BY <1>0, <3>1, NoGrants
  <2>5. ASSUME Grant PROVE grants = <<>>
    <3>1. PICK e : grants' = Append(grants, e)
      BY <2>5 DEF Grant
    <3>2. grants \in Seq(GrantRows)
      BY PlanKept
    <3>3. grants' # <<>>
      BY <3>1, <3>2
    <3>4. QED
      BY <1>0, <3>3
  <2>6. ASSUME \/ \E s \in Sandboxes : RepairLoad(s) \/ OpenSession(s) \/ Start(s) \/ Stop(s) \/ Sync(s)
               \/ MeterLoad \/ Warn \/ GraceLoad \/ GraceStop \/ ResetLoad \/ ResetCommit
               \/ StepFails \/ (\E late \in BOOLEAN : Pass(late)) \/ UNCHANGED vars
        PROVE  grants' = grants
    BY <2>6, Zenon DEF RepairLoad, OpenSession, Start, Stop, Sync, MeterLoad, Warn, GraceLoad, GraceStop,
                       ResetLoad, ResetCommit, StepFails, Pass, vars, world
  <2>7. QED
    BY <1>0, <2>1, <2>2, <2>3, <2>4, <2>5, <2>6 DEF Next, Tick
<1>4. QED
  BY <1>1, <1>2, <1>3 DEF Watched, Calm

LEMMA StoppedStep == TInv /\ Stopped /\ [Next]_vars => Stopped'
<1> SUFFICES ASSUME TInv, Stopped, [Next]_vars PROVE Stopped'
  OBVIOUS
<1>0. /\ status \in [Sandboxes -> {"creating", "ready", "stopped"}]
      /\ mode \in [Sandboxes -> {"Running", "Suspended"}]
  BY WorldFacts
<1>1. ASSUME NEW s \in Sandboxes, Start(s) PROVE Stopped'
  <2>1. status' = [status EXCEPT ![s] = "creating"] /\ mode' = [mode EXCEPT ![s] = "Running"]
    BY <1>1 DEF Start
  <2>2. QED
    BY <1>0, <2>1 DEF Stopped
<1>2. ASSUME NEW s \in Sandboxes, Stop(s) PROVE Stopped'
  <2>1. status' = [status EXCEPT ![s] = "stopped"] /\ mode' = [mode EXCEPT ![s] = "Suspended"]
    BY <1>2 DEF Stop
  <2>2. QED
    BY <1>0, <2>1 DEF Stopped
<1>3. ASSUME NEW s \in Sandboxes, Sync(s) PROVE Stopped'
  <2>1. /\ mode' = mode
        /\ \/ status' = [status EXCEPT ![s] = "ready"]
           \/ mode[s] = "Suspended" /\ status' = [status EXCEPT ![s] = "stopped"]
    BY <1>3 DEF Sync
  <2>2. QED
    BY <1>0, <2>1 DEF Stopped
<1>4. ASSUME GraceStop PROVE Stopped'
  <2>1. PICK failed : mode' = [s \in Sandboxes |-> IF s \in tick.ready \ failed THEN "Suspended" ELSE mode[s]]
    BY <1>4, GraceStopIs
  <2>2. status' = status
    BY <1>4, GraceStopIs
  <2>3. QED
    BY <2>1, <2>2 DEF Stopped
<1>5. ASSUME \/ \E s \in Sandboxes : CloseSession(s) \/ RepairLoad(s) \/ OpenSession(s)
             \/ RepairCommit \/ Grant \/ MeterLoad \/ MeterCommit \/ Warn \/ GraceLoad \/ GraceCommit
             \/ ResetLoad \/ ResetCommit \/ StepFails \/ (\E late \in BOOLEAN : Pass(late)) \/ UNCHANGED vars
      PROVE  UNCHANGED <<status, mode>>
  BY <1>5, Zenon DEF CloseSession, RepairLoad, OpenSession, RepairCommit, Grant, MeterLoad, MeterCommit, Warn,
                     GraceLoad, GraceCommit, ResetLoad, ResetCommit, StepFails, Pass, vars
<1>6. ASSUME UNCHANGED <<status, mode>> PROVE Stopped'
  BY <1>6 DEF Stopped
<1>7. QED
  BY <1>1, <1>2, <1>3, <1>4, <1>5, <1>6 DEF Next, Tick

\* A step that neither meters anything anew nor begins a grace period.
LEMMA BalanceKept ==
    ASSUME TInv, TInv', Balance, now' = now,
           plan'.grace = plan.grace, plan'.patience = plan.patience,
           Charging' <=> Charging, tick'.pc = "stop" <=> tick.pc = "stop",
           Debt' >= Debt, Pot' <= Pot, UpToDate => Debt' = Debt /\ UpToDate',
           Debt >= 0 /\ AllSuspended => AllSuspended'
    PROVE  Balance' /\ (Frozen => Frozen')
<1>1. /\ Debt \in Int /\ Debt' \in Int /\ Pot \in Int /\ Pot' \in Int /\ Count \in Nat /\ Cap \in Nat /\ now \in Nat
  BY DebtFacts, DebtFactsNext DEF DebtOK
<1>2. Frozen => Frozen'
  BY DEF Frozen, Ends
<1>3. Graced(0, Debt) /\ UpToDate => Graced(0, Debt)'
  BY DEF Graced
<1>4. ASSUME Graced(1, Pot) PROVE Graced(1, Pot)'
  <2> DEFINE a == Allowed(now - plan.grace)
  <2>1. now - plan.grace \in Nat
    <3>1. plan.grace \in Nat /\ plan.grace <= now
      BY <1>4, DebtFacts DEF DebtOK, Graced
    <3>2. QED
      BY <1>1, <3>1
  <2>2. a \in Int
    BY <1>1, <2>1, AllowedFacts
  <2>3. Pot <= a /\ 5 * Pot <= Cap + 5 * Count
    BY <1>4 DEF Graced
  <2>4. Graced(1, Pot)' <=> /\ plan.grace # None /\ plan.grace <= now /\ now - plan.grace <= plan.patience + 1
                            /\ 5 * Pot' <= Cap + 5 * Count /\ Pot' <= a
    BY DEF Graced
  <2> HIDE DEF a
  <2>5. Pot' <= a /\ 5 * Pot' <= Cap + 5 * Count
    <3> DEFINE x == Pot
               y == Pot'
               c == Cap + 5 * Count
    <3>1. x \in Int /\ y \in Int /\ c \in Int /\ y <= x /\ x <= a /\ 5 * x <= c
      BY <1>1, <2>3
    <3> HIDE DEF x, y, c
    <3>2. y <= a /\ 5 * y <= c
      BY <2>2, <3>1
    <3>3. QED
      BY <3>2 DEF y, c
  <2>6. QED
    BY <1>4, <2>4, <2>5 DEF Graced
<1>5. Pot <= Count - 1 => Pot' <= Count - 1
  BY <1>1
<1>6. Debt < 0 /\ UpToDate => Debt' < 0
  BY <1>1
<1>7. plan.grace # None => Debt' >= 0
  BY <1>1 DEF Balance
<1>8. QED
  BY <1>2, <1>3, <1>4, <1>5, <1>6, <1>7 DEF Balance


LEMMA DebtKept ==
    ASSUME TInv, TInv', Balance, Period, Enforcing, UNCHANGED <<now, tick>>,
           plan'.grace = plan.grace, plan'.patience = plan.patience, plan'.end = plan.end,
           Debt' >= Debt, Pot' <= Pot, UpToDate => plan' = plan /\ UpToDate',
           Debt >= 0 => (AllSuspended => AllSuspended') /\ Running' \subseteq Running
    PROVE  Balance' /\ Period' /\ Enforcing'
<1>1. Charging' <=> Charging
  BY DEF Charging
<1>2. UpToDate => Debt' = Debt
  BY DEF Debt
<1>3. Balance' /\ (Frozen => Frozen')
  BY <1>1, <1>2, BalanceKept
<1>4. Period'
  BY DEF Period
<1>5. tick.pc \in {"stop", "enforce", "roll"} => UpToDate
  BY DEF Balance, Charging
<1>6. tick.pc = "stop" => Debt' >= 0 /\ Ends(Debt)' /\ Running' \subseteq tick.ready
  BY <1>2, <1>5 DEF Enforcing, Ends
<1>7. tick.pc \in {"stop", "enforce", "roll"} => tick.plan = plan'
  BY <1>5 DEF Enforcing
<1>8. Enforcing'
  BY <1>3, <1>6, <1>7 DEF Enforcing
<1>9. QED
  BY <1>3, <1>4, <1>8

\* A step that leaves the accounts and the sessions alone.
LEMMA DebtIdle ==
    ASSUME TInv, TInv', Balance, Period, Enforcing, UNCHANGED <<now, tick, cs, plan>>,
           Debt >= 0 => (AllSuspended => AllSuspended') /\ Running' \subseteq Running
    PROVE  Balance' /\ Period' /\ Enforcing'
<1>1. Debt' = Debt /\ Pot' = Pot /\ (UpToDate => UpToDate')
  BY DEF Debt, Pot, Due, Metered, UpToDate, OpenSessions
<1>2. Debt \in Int /\ Pot \in Int
  BY DebtFacts DEF DebtOK
<1>3. Debt' >= Debt /\ Pot' <= Pot
  BY <1>1, <1>2
<1>4. QED
  BY <1>1, <1>3, DebtKept

\* A step that charges.
LEMMA DebtCharge ==
    ASSUME TInv, TInv', Watched, Balance, Period, Enforcing, NEW amount \in Nat,
           plan' = ConsumedPlan(plan, amount), grants' = ConsumedGrants(plan, amount),
           UpToDate => amount = 0, UNCHANGED <<now, status, mode, tick>>,
           DOMAIN cs' = DOMAIN cs, \A i \in DOMAIN cs : cs'[i].open => cs[i].open /\ cs'[i] = cs[i],
           \A i \in DOMAIN cs : Due'[i] \in Int /\ Due'[i] <= Due[i],
           Total(Metered', DOMAIN cs') = Total(Metered, DOMAIN cs) + amount
    PROVE  Balance' /\ Period' /\ Enforcing'
<1>1. /\ plan'.grace = plan.grace /\ plan'.patience = plan.patience /\ plan'.end = plan.end
      /\ amount = 0 => plan' = plan
  BY ChargedPlan
<1>2. Debt' = Debt + amount /\ Pot' <= Pot
  BY PotCharge DEF Watched
<1>3. Debt' >= Debt
  BY <1>2, DebtFacts DEF DebtOK
<1>4. UpToDate => UpToDate'
  BY UpToDateKept
<1>5. (AllSuspended => AllSuspended') /\ Running' \subseteq Running
  BY DEF AllSuspended, Running
<1>6. QED
  BY <1>1, <1>2, <1>3, <1>4, <1>5, DebtKept

LEMMA DebtOpen ==
    ASSUME TInv, TInv', Balance, Period, Enforcing, NEW s \in Sandboxes, OpenSession(s)
    PROVE  Balance' /\ Period' /\ Enforcing'
<1> DEFINE c == NewSession(s, now)
           k == Len(cs) + 1
           D == DOMAIN cs
<1>1. cs' = Append(cs, c) /\ UNCHANGED <<now, status, mode, plan, tick>>
  BY DEF OpenSession, world
<1>2. c.open /\ c.last = now /\ c.hours = 0
  BY DEF NewSession
<1>3. cs \in Seq(SessionRows) /\ Len(cs) \in Nat /\ D = 1..Len(cs)
  BY PlanKept
<1> HIDE DEF c
<1>4. DOMAIN cs' = D \cup {k} /\ k \notin D /\ cs'[k] = c /\ \A i \in D : cs'[i] = cs[i]
  BY <1>1, <1>3
<1> HIDE DEF k
<1>5. UpToDate => UpToDate'
  BY <1>1, <1>2, <1>4 DEF UpToDate, OpenSessions
<1> DEFINE f == Due
           g == Due'
           p == Metered
           q == Metered'
<1>6. now \in Nat /\ IsFiniteSet(D)
  BY DueFacts
<1>7. g[k] \in Int /\ g[k] = 0 /\ q[k] \in Int /\ q[k] = 0
  <2>1. k \in DOMAIN cs'
    BY <1>4
  <2>2. g[k] = c.hours + (IF c.open THEN now - c.last ELSE 0) /\ q[k] = c.hours
    BY <1>1, <1>4, <2>1 DEF Due, Metered
  <2> HIDE DEF g, q
  <2>3. QED
    BY <1>2, <1>6, <2>2
<1>8. \A i \in D : g[i] = f[i] /\ q[i] = p[i]
  BY <1>1, <1>4 DEF Due, Metered
<1>9. \A i \in D : f[i] \in Int /\ p[i] \in Int
  BY DueFacts DEF Metered
<1>10. Pot = Debt + (Total(f, D) - Total(p, D)) /\ Pot' = Debt' + (Total(g, D \cup {k}) - Total(q, D \cup {k}))
  BY <1>4 DEF Pot
<1> HIDE DEF f, g, p, q, D
<1>11. /\ IsFiniteSet(D) /\ k \notin D /\ g[k] \in Int /\ q[k] \in Int
       /\ \A i \in D : g[i] \in Int /\ g[i] = f[i]
       /\ \A i \in D : q[i] \in Int /\ q[i] = p[i]
  BY <1>4, <1>6, <1>7, <1>8, <1>9
<1>12. Total(g, D \cup {k}) = Total(f, D) + g[k]
  BY <1>11, TotalAdd
<1>13. Total(q, D \cup {k}) = Total(p, D) + q[k]
  BY <1>11, TotalAdd
<1>14. Debt' = Debt /\ Debt \in Int
  BY <1>1, DebtFacts DEF Debt, DebtOK
<1>15. Total(f, D) \in Int /\ Total(p, D) \in Int
  BY <1>6, <1>9, TotalInt
<1>16. Pot' <= Pot /\ Debt' >= Debt
  BY <1>7, <1>10, <1>12, <1>13, <1>14, <1>15
<1>17. (AllSuspended => AllSuspended') /\ Running' \subseteq Running
  BY <1>1 DEF AllSuspended, Running
<1>18. QED
  BY <1>1, <1>5, <1>16, <1>17, DebtKept

LEMMA DebtOthers ==
    ASSUME TInv, TInv', Watched, Watched', Balance, Period, Enforcing,
           \/ \E s \in Sandboxes : \/ CloseSession(s) \/ RepairLoad(s) \/ OpenSession(s)
                                   \/ Start(s) \/ Stop(s) \/ Sync(s)
           \/ RepairCommit \/ UNCHANGED vars
    PROVE  Balance' /\ Period' /\ Enforcing'
<1>1. ASSUME NEW s \in Sandboxes, CloseSession(s) PROVE Balance' /\ Period' /\ Enforcing'
  <2>1. /\ CloseSessions({s}, plan) /\ plan' = ConsumedPlan(plan, FinalSlices({s}))
        /\ UNCHANGED <<now, status, mode, tick>>
    BY <1>1 DEF CloseSession, world
  <2>2. /\ FinalSlices({s}) \in Nat /\ grants' = ConsumedGrants(plan, FinalSlices({s}))
        /\ UpToDate => FinalSlices({s}) = 0
        /\ Total(Metered', DOMAIN cs') = Total(Metered, DOMAIN cs) + FinalSlices({s})
    BY <2>1, CloseEffect DEF CloseSessions, UpToDate
  <2>3. /\ DOMAIN cs' = DOMAIN cs
        /\ \A i \in DOMAIN cs : cs'[i].open => cs[i].open /\ cs'[i] = cs[i]
    BY <2>1, ClosedOnly
  <2>4. \A i \in DOMAIN cs : Due'[i] \in Int /\ Due'[i] <= Due[i]
    BY <2>1, DueClosed
  <2>5. QED
    BY <2>1, <2>2, <2>3, <2>4, DebtCharge
<1>2. ASSUME NEW s \in Sandboxes, RepairLoad(s) PROVE Balance' /\ Period' /\ Enforcing'
  <2>1. UNCHANGED <<now, tick, cs, plan, status, mode>>
    BY <1>2 DEF RepairLoad
  <2>2. (AllSuspended => AllSuspended') /\ Running' \subseteq Running
    BY <2>1 DEF AllSuspended, Running
  <2>3. QED
    BY <2>1, <2>2, DebtIdle
<1>3. ASSUME RepairCommit PROVE Balance' /\ Period' /\ Enforcing'
  <2> DEFINE k == repair[1]
             r == repair[2]
             a == RepairAmount
  <2>1. /\ Kept /\ k \in DOMAIN cs /\ a \in Nat
        /\ plan' = ConsumedPlan(plan, a) /\ grants' = ConsumedGrants(plan, a)
        /\ \A j \in DOMAIN cs : j # k => cs'[j] = cs[j]
        /\ ~cs[k].open => cs' = cs /\ a = 0
        /\ cs[k].open => cs'[k].open = FALSE
        /\ r.last = now => a = 0
        /\ cs[k].open => cs[k] = r
    BY <1>3, RepairEffect DEF Watched
  <2>2. UNCHANGED <<now, status, mode, tick>> /\ repair # <<>>
    BY <1>3 DEF RepairCommit
  <2>3. Total(Metered', DOMAIN cs') = Total(Metered, DOMAIN cs) + a
    BY <1>3, RepairEffect DEF Watched
  <2>4. RepairRow
    BY <2>1 DEF RepairRow
  <2>5. \A i \in DOMAIN cs : Due'[i] \in Int /\ Due'[i] <= Due[i]
    BY <1>3, <2>4, DueRepaired
  <2> HIDE DEF k, r, a
  <2>6. UpToDate => a = 0
    BY <2>1 DEF UpToDate, OpenSessions
  <2>7. DOMAIN cs' = DOMAIN cs /\ \A i \in DOMAIN cs : cs'[i].open => cs[i].open /\ cs'[i] = cs[i]
    BY <2>1 DEF Kept
  <2>8. QED
    BY <2>1, <2>2, <2>3, <2>5, <2>6, <2>7, DebtCharge
<1>4. ASSUME NEW s \in Sandboxes, OpenSession(s) PROVE Balance' /\ Period' /\ Enforcing'
  BY <1>4, DebtOpen
<1>5. ASSUME NEW s \in Sandboxes, Start(s) PROVE Balance' /\ Period' /\ Enforcing'
  <2>1. UNCHANGED <<now, tick, cs, plan>> /\ TotalRemaining(plan) > 0
    BY <1>5 DEF Start, world
  <2>2. TotalRemaining(plan) = 0 - Debt /\ Debt \in Int
    BY DebtFacts DEF DebtOK, Watched
  <2>3. ~(Debt >= 0)
    BY <2>1, <2>2
  <2>4. QED
    BY <2>1, <2>3, DebtIdle
<1>6. ASSUME NEW s \in Sandboxes, Stop(s) \/ Sync(s) PROVE Balance' /\ Period' /\ Enforcing'
  <2>1. UNCHANGED <<now, tick, cs, plan>>
    BY <1>6 DEF Stop, Sync, world
  <2>2. status \in [Sandboxes -> {"creating", "ready", "stopped"}] /\ mode \in [Sandboxes -> {"Running", "Suspended"}]
    BY WorldFacts
  <2>3. /\ status[s] \in {"creating", "ready"}
        /\ \E x : status' = [status EXCEPT ![s] = x]
        /\ mode' = mode \/ mode' = [mode EXCEPT ![s] = "Suspended"]
    BY <1>6 DEF Stop, Sync
  <2>4. Running' \subseteq Running
    BY <2>2, <2>3 DEF Running
  <2>5. AllSuspended => AllSuspended'
    BY <2>2, <2>3 DEF AllSuspended
  <2>6. QED
    BY <2>1, <2>4, <2>5, DebtIdle
<1>7. ASSUME UNCHANGED vars PROVE Balance' /\ Period' /\ Enforcing'
  <2>1. UNCHANGED <<now, tick, cs, plan, status, mode>>
    BY <1>7 DEF vars
  <2>2. (AllSuspended => AllSuspended') /\ Running' \subseteq Running
    BY <2>1 DEF AllSuspended, Running
  <2>3. QED
    BY <2>1, <2>2, DebtIdle
<1>8. QED
  BY <1>1, <1>2, <1>3, <1>4, <1>5, <1>6, <1>7


\* A reset exactly at the period's end splits no session.
LEMMA RolledAtEnd ==
    ASSUME RollOK, now = tick.plan.end
    PROVE  Rolled.cs = tick.cs /\ Rolled.plan = ResetPlan(tick.plan)
<1> DEFINE w == FirstRound
           v == [w EXCEPT !.next = <<>>]
           n == Len(w.list)
           r == CHOOSE x : IsRollovers(x, w, n)
           m == CHOOSE x : IsRolled(x, 1)
<1>1. /\ w \in Rounds /\ w.plan = tick.plan /\ w.cs = tick.cs
  BY FirstRoundOK DEF RoundOK
<1>2. now \in Nat /\ tick.plan.end \in Nat /\ tick.plan.end <= now /\ now <= tick.plan.end
  BY DEF RollOK
<1>3. n \in Nat
  BY <1>1 DEF Rounds
<1>4. v \in Rounds /\ v.plan = tick.plan /\ v.cs = tick.cs
  <2> DEFINE e == <<>>
             a == FirstRound
  <2>1. e \in Seq(Nat) /\ v = [a EXCEPT !.next = e] /\ a \in Rounds /\ a.plan = tick.plan /\ a.cs = tick.cs
    BY <1>1
  <2> HIDE DEF e, v, a
  <2>2. QED
    BY <2>1 DEF Rounds
<1>5. Rollovers(w) = r[n]
  BY DEF Rollovers, IsRollovers
<1>6. IsRollovers(r, w, n)
  BY <1>3, RolloversExist
<1> HIDE DEF r, n
<1>7. \A k \in 0..n : r[k] = IF k = 0 THEN v ELSE Rollover(r[k - 1], w.list[k])
  BY <1>6 DEF IsRollovers
<1> HIDE DEF v, w
<1>8. \A i : Rollover(v, i) = v
  BY <1>2, <1>4 DEF Rollover
<1> DEFINE P == {k \in Nat : k <= n => r[k] = v}
<1>9. 0 \in P
  BY <1>3, <1>7
<1>10. ASSUME NEW k \in Nat, k \in P PROVE k + 1 \in P
  <2> SUFFICES ASSUME k + 1 <= n PROVE r[k + 1] = v
    OBVIOUS
  <2>1. r[k] = v
    BY <1>3, <1>10
  <2>2. k + 1 \in 0..n /\ k + 1 # 0 /\ (k + 1) - 1 = k
    BY <1>3
  <2>3. r[k + 1] = Rollover(r[k], w.list[k + 1])
    BY <1>7, <2>2
  <2>4. QED
    BY <1>8, <2>1, <2>3
<1> HIDE DEF P
<1>11. n \in P
  BY <1>3, <1>9, <1>10, NatInduction1
<1>12. Rollovers(w) = v
  BY <1>3, <1>5, <1>11 DEF P
<1>13. ResetPlan(tick.plan) \in PlanRows /\ tick.plan \in PlanRows
  BY ResetPlanFacts DEF RollOK
<1>14. Month(w).cs = tick.cs /\ Month(w).plan = ResetPlan(tick.plan)
  <2> DEFINE p == ResetPlan(tick.plan)
             q == Month(w)
             l == v.next
  <2>1. q = [v EXCEPT !.plan = p, !.list = l]
    <3> DEFINE z == Rollovers(w)
               y == IF z.plan.end <= now THEN ResetPlan(z.plan) ELSE z.plan
    <3>1. q = IF w.plan.end > now THEN w ELSE [z EXCEPT !.plan = y, !.list = z.next]
      BY Zenon DEF Month
    <3>2. z = v /\ ~(w.plan.end > now) /\ z.plan.end <= now /\ z.plan = tick.plan
      BY <1>1, <1>2, <1>4, <1>12
    <3>3. y = p
      BY <3>2
    <3> HIDE DEF z, y, p, q, l
    <3>4. q = [z EXCEPT !.plan = y, !.list = z.next]
      BY <3>1, <3>2
    <3>5. QED
      BY <3>2, <3>3, <3>4, Zenon DEF l
  <2> HIDE DEF p, q, l
  <2>2. q.cs = v.cs /\ q.plan = p
    BY <1>4, <2>1 DEF Rounds
  <2>3. QED
    BY <1>4, <2>2 DEF p, q
<1>15. Rolled = m[1]
  <2>1. now - tick.plan.end + 1 = 1
    BY <1>2
  <2>2. Rolled = (CHOOSE x : IsRolled(x, now - tick.plan.end + 1))[now - tick.plan.end + 1]
    BY DEF Rolled, IsRolled, FirstRound
  <2>3. QED
    BY <2>1, <2>2
<1>16. IsRolled(m, 1)
  BY RolledExists
<1> HIDE DEF m
<1>17. m[1] = Month(w)
  <2>1. \A k \in 0..1 : m[k] = IF k = 0 THEN FirstRound ELSE Month(m[k - 1])
    BY <1>16 DEF IsRolled
  <2>2. m[0] = FirstRound /\ m[1] = Month(m[0])
    BY <2>1
  <2>3. QED
    BY <2>2 DEF w
<1>18. QED
  BY <1>14, <1>15, <1>17

\* ... and commits the new period whatever others have done since the load.
LEMMA ResetAtEnd ==
    ASSUME TInv, ResetCommit, tick.plan = plan, plan.end = now
    PROVE  cs' = cs /\ plan' = ResetPlan(plan)
<1> DEFINE w == Rolled
           n == Len(tick.cs)
           old == [i \in DOMAIN cs |-> IF i <= n THEN Merge(cs[i], tick.cs[i], w.cs[i]) ELSE cs[i]]
           sub == SubSeq(w.cs, n + 1, Len(w.cs))
           new == old \o sub
<1>1. /\ IF \A i, j \in DOMAIN new : new[i].open /\ new[j].open /\ new[i].sandbox = new[j].sandbox => i = j
         THEN cs' = new /\ plan' = Merge(plan, tick.plan, w.plan)
         ELSE UNCHANGED <<cs, plan>>
  BY DEF ResetCommit
<1> HIDE DEF w
<1>2. /\ now \in Nat /\ cs \in Seq(SessionRows) /\ plan \in PlanRows
      /\ tick.cs \in Seq(SessionRows) /\ tick.plan \in PlanRows /\ tick.ready \in SUBSET Sandboxes
  BY StateFacts, TickFacts
<1>3. RollOK
  <2>1. \A i \in DOMAIN tick.cs : tick.cs[i].last <= now
    BY DEF TInv, Loaded
  <2>2. tick.plan.end <= now
    BY <1>2
  <2>3. QED
    BY <1>2, <2>1, <2>2 DEF RollOK
<1>4. w.cs = tick.cs /\ w.plan = ResetPlan(plan)
  BY <1>3, RolledAtEnd DEF w
<1>5. n \in Nat /\ DOMAIN cs = 1..Len(cs) /\ Len(cs) \in Nat
  BY <1>2
<1>6. sub = <<>>
  BY <1>4, <1>5, SubSeqEmpty
<1>7. \A x, y : Merge(x, y, y) = [f \in DOMAIN x |-> x[f]]
  BY DEF Merge
<1>8. \A i \in DOMAIN cs : old[i] = cs[i]
  <2> TAKE i \in DOMAIN cs
  <2> DEFINE c == cs[i]
             d == tick.cs[i]
  <2>1. old[i] = IF i <= n THEN Merge(c, d, d) ELSE c
    BY <1>4
  <2>2. c \in SessionRows
    BY <1>2, <1>5
  <2>3. Merge(c, d, d) = [f \in DOMAIN c |-> c[f]]
    BY <1>7
  <2> HIDE DEF c, d
  <2>4. [f \in DOMAIN c |-> c[f]] = c
    BY <2>2 DEF SessionRows
  <2>5. QED
    BY <2>1, <2>3, <2>4 DEF c
<1>9. old = cs
  <2>1. DOMAIN old = DOMAIN cs /\ cs \in [1..Len(cs) -> SessionRows]
    BY <1>2, <1>5
  <2>2. old = [i \in DOMAIN cs |-> old[i]] /\ cs = [i \in DOMAIN cs |-> cs[i]]
    BY <1>5, <2>1
  <2> HIDE DEF old
  <2>3. [i \in DOMAIN cs |-> old[i]] = [i \in DOMAIN cs |-> cs[i]]
    BY <1>8
  <2>4. QED
    BY <2>2, <2>3
<1> HIDE DEF old, sub
<1>10. new = cs
  BY <1>2, <1>6, <1>9, ConcatEmptySeq
<1> HIDE DEF new
<1>11. cs' = cs /\ plan' = Merge(plan, tick.plan, w.plan)
  BY <1>1, <1>10 DEF TInv, OneOpen
<1>12. ResetPlan(plan) \in PlanRows
  BY <1>2, ResetPlanFacts
<1>13. plan' = ResetPlan(plan)
  BY <1>2, <1>4, <1>11, <1>12, MergedPlan
<1>14. QED
  BY <1>11, <1>13


\* The steps that meter and warn.
LEMMA DebtMeter ==
    ASSUME TInv, TInv', Watched, Balance, Period, Enforcing, MeterLoad \/ MeterCommit \/ Warn
    PROVE  Balance' /\ Period' /\ Enforcing'
<1>0. Debt \in Int /\ Pot \in Int
  BY DebtFacts DEF DebtOK
<1>1. ASSUME now' = now, mode' = mode, Charging, tick'.pc \in {"charge", "warn", "grace"}, tick'.left = 1,
             plan'.grace = plan.grace, plan'.patience = plan.patience, plan'.end = plan.end,
             Debt' >= Debt, Pot' <= Pot, UpToDate => Debt' = Debt /\ UpToDate'
      PROVE  Balance' /\ Period' /\ Enforcing'
  <2>1. Charging' /\ tick'.pc # "stop" /\ tick.pc # "stop"
    BY <1>1 DEF Charging
  <2>2. AllSuspended => AllSuspended'
    BY <1>1 DEF AllSuspended
  <2>3. Balance'
    BY <1>1, <2>1, <2>2, BalanceKept
  <2>4. Period' /\ Enforcing'
    BY <1>1 DEF Period, Enforcing
  <2>5. QED
    BY <2>3, <2>4
<1>2. ASSUME MeterLoad PROVE Balance' /\ Period' /\ Enforcing'
  <2>1. /\ tick.pc = "sleep" /\ tick.left = 0 /\ tick'.pc = "charge" /\ tick'.left = 1
        /\ UNCHANGED <<now, mode, cs, plan>>
    BY <1>2, MeterLoadIs
  <2>2. Debt' = Debt /\ Pot' = Pot /\ (UpToDate => UpToDate')
    BY <2>1 DEF Debt, Pot, Due, Metered, UpToDate, OpenSessions
  <2>3. Charging /\ Debt' >= Debt /\ Pot' <= Pot
    BY <1>0, <2>1, <2>2 DEF Charging
  <2>4. QED
    BY <1>1, <2>1, <2>2, <2>3
<1>3. ASSUME MeterCommit PROVE Balance' /\ Period' /\ Enforcing'
  <2>1. /\ tick.pc = "charge" /\ tick'.pc = "warn" /\ tick'.left = 1 /\ UNCHANGED <<now, mode>>
    BY <1>3, MeterCommitIs
  <2>2. /\ Kept /\ MeterIds \in SUBSET DOMAIN cs /\ MeterAmount \in Nat
        /\ plan' = ConsumedPlan(plan, MeterAmount) /\ grants' = ConsumedGrants(plan, MeterAmount)
        /\ \A i \in DOMAIN cs : i \notin MeterIds => cs'[i] = cs[i]
        /\ \A i \in MeterIds : cs[i].open /\ cs[i].last < now
        /\ Total(Metered', DOMAIN cs') = Total(Metered, DOMAIN cs) + MeterAmount
    BY <1>3, MeterEffect
  <2>3. plan'.grace = plan.grace /\ plan'.patience = plan.patience /\ plan'.end = plan.end
    BY <2>2, ChargedPlan
  <2>4. Debt' = Debt + MeterAmount /\ Pot' <= Pot
    BY <1>3, <2>1, <2>2, DueMetered, PotCharge DEF Watched
  <2>5. ASSUME UpToDate PROVE Debt' = Debt /\ UpToDate'
    <3>1. MeterIds = {}
      <4>1. \A i \in MeterIds : i \in OpenSessions /\ cs[i].last < now /\ cs[i].last \in Nat /\ now \in Nat
        BY <2>2, DueFacts DEF OpenSessions
      <4>2. QED
        BY <2>5, <4>1 DEF UpToDate
    <3>2. MeterAmount = 0
      BY <3>1, TotalEmpty DEF MeterAmount
    <3>3. DOMAIN cs' = DOMAIN cs /\ \A i \in DOMAIN cs : cs'[i] = cs[i]
      BY <2>2, <3>1 DEF Kept
    <3>4. UpToDate'
      BY <2>1, <2>5, <3>3 DEF UpToDate, OpenSessions
    <3>5. QED
      BY <1>0, <2>4, <3>2, <3>4
  <2>6. Charging /\ Debt' >= Debt
    BY <1>0, <2>1, <2>2, <2>4 DEF Charging
  <2>7. QED
    BY <1>1, <2>1, <2>3, <2>4, <2>5, <2>6
<1>4. ASSUME Warn PROVE Balance' /\ Period' /\ Enforcing'
  <2>1. /\ tick.pc = "warn" /\ tick'.pc = "grace" /\ tick'.left = 1 /\ UNCHANGED <<now, mode, cs>>
        /\ plan'.used = plan.used /\ plan'.overage = plan.overage /\ plan'.grace = plan.grace
        /\ plan'.patience = plan.patience /\ plan'.end = plan.end
    BY <1>4, WarnIs
  <2>2. Debt' = Debt /\ Pot' = Pot /\ (UpToDate => UpToDate')
    BY <2>1 DEF Debt, Pot, Due, Metered, UpToDate, OpenSessions
  <2>3. Charging /\ Debt' >= Debt /\ Pot' <= Pot
    BY <1>0, <2>1, <2>2 DEF Charging
  <2>4. QED
    BY <1>1, <2>1, <2>2, <2>3
<1>5. QED
  BY <1>2, <1>3, <1>4

\* With no sandbox running and credits used up, everything is suspended.
LEMMA AllStopped ==
    ASSUME TInv, Stopped, NEW R, Running \subseteq R
    PROVE  \A s \in Sandboxes : s \notin R => mode[s] = "Suspended"
BY WorldFacts DEF Stopped, Running

LEMMA DebtGrace ==
    ASSUME TInv, TInv', Watched, Watched', WInv, Stopped, Balance, Period, Enforcing, GraceLoad
    PROVE  Balance' /\ Period' /\ Enforcing'
<1>1. /\ tick.pc = "grace" /\ UNCHANGED <<now, status, mode, cs>>
      /\ tick'.pc \in {"stop", "reset"}
      /\ plan'.used = plan.used /\ plan'.overage = plan.overage /\ plan'.patience = plan.patience
      /\ plan'.end = plan.end
  BY GraceLoadIs
<1>2. tick.left = 1 /\ tick'.left = 1
  <2>1. tick.left = 1
    BY <1>1 DEF Enforcing
  <2>2. QED
    BY <2>1, GraceLoadIs
<1>3. Charging /\ ~Charging'
  BY <1>1 DEF Charging
<1>4. UpToDate /\ UpToDate'
  <2>1. UpToDate
    BY <1>1 DEF WInv, WTick, Watched, Calm
  <2>2. QED
    BY <1>1, <2>1 DEF UpToDate, OpenSessions
<1>5. /\ Debt' = Debt /\ Pot = Debt /\ Debt \in Int /\ Count \in Nat /\ Cap \in Nat /\ Limit \in Nat /\ now \in Nat
      /\ TotalRemaining(plan) = 0 - Debt /\ 5 * (Count - 1) <= Cap /\ Limit <= Cap
      /\ plan.patience \in Nat /\ (plan.grace = None \/ plan.grace \in Nat)
  <2>1. Debt' = Debt
    BY <1>1 DEF Debt
  <2>2. QED
    BY <1>4, <2>1, DebtFacts DEF DebtOK, Watched
<1>6. Ends(Debt) /\ Ends(Debt)'
  BY <1>1, <1>5, DebtEnds DEF Ends
<1>7. AllSuspended' <=> AllSuspended
  BY <1>1 DEF AllSuspended
<1>8. Period'
  BY <1>1 DEF Period
<1>9. CASE Running # {} /\ TotalRemaining(plan) <= 0 /\ MustStop(plan)
  <2>1. tick'.pc = "stop" /\ tick'.plan = plan /\ tick'.ready = Running /\ plan' = plan
    BY <1>9, GraceLoadIs
  <2>2. Running' = Running /\ Debt >= 0
    BY <1>1, <1>5, <1>9 DEF Running
  <2>3. Balance'
    BY <1>3, <1>4, <1>5, <2>1, <2>2 DEF Balance
  <2>4. Enforcing'
    BY <1>2, <1>5, <1>6, <2>1, <2>2 DEF Enforcing
  <2>5. QED
    BY <1>8, <2>3, <2>4
<1>10. CASE ~(Running # {} /\ TotalRemaining(plan) <= 0 /\ MustStop(plan))
  <2>1. /\ tick'.pc = "reset"
        /\ plan'.grace = IF Running = {} THEN plan.grace
                         ELSE IF TotalRemaining(plan) > 0 THEN None
                         ELSE IF plan.grace = None THEN now ELSE plan.grace
    BY <1>10, GraceLoadIs
  <2>2. Enforcing'
    BY <1>2, <2>1 DEF Enforcing
  <2>3. Frozen \/ (plan.grace = None /\ Debt <= Count - 1) \/ Graced(1, Debt)
    BY <1>3, <1>5 DEF Balance
  <2>4. plan.grace # None => Debt >= 0
    BY DEF Balance
  <2>5. Frozen => Frozen'
    BY <1>4, <1>5, <1>6, <1>7 DEF Frozen
  <2>6. CASE Debt < 0
    <3>1. plan'.grace = None
      BY <1>5, <2>1, <2>4, <2>6
    <3>2. Balance'
      BY <1>3, <1>4, <1>5, <2>6, <3>1 DEF Balance
    <3>3. QED
      BY <1>8, <2>2, <3>2
  <2>7. CASE Debt >= 0 /\ Running = {}
    <3>1. AllSuspended
      <4>1. Running \subseteq {}
        BY <2>7
      <4>2. QED
        BY <4>1, AllStopped DEF AllSuspended
    <3>2. Frozen'
      BY <1>4, <1>5, <1>6, <1>7, <2>7, <3>1 DEF Frozen
    <3>3. Balance'
      BY <1>3, <1>4, <1>5, <2>7, <3>2 DEF Balance
    <3>4. QED
      BY <1>8, <2>2, <3>3
  <2>8. CASE Debt >= 0 /\ Running # {} /\ ~Frozen
    <3>1. TotalRemaining(plan) <= 0 /\ ~(TotalRemaining(plan) > 0) /\ ~MustStop(plan)
      BY <1>5, <1>10, <2>8
    <3>2. CASE plan.grace = None
      <4>1. plan'.grace = now /\ Debt <= Count - 1
        BY <2>1, <2>3, <2>8, <3>1, <3>2 DEF Graced
      <4>2. now - now = 0 /\ now <= now /\ 0 <= plan.patience + 0 /\ now # None
        BY <1>5 DEF None
      <4>3. Allowed(now - now) = Count - 1
        BY <1>5, <4>2, AllowedFacts
      <4>4. 5 * Debt <= Cap + 0
        BY <1>5, <4>1
      <4>5. Graced(0, Debt)'
        BY <1>1, <1>5, <4>1, <4>2, <4>3, <4>4 DEF Graced, Allowed, Cap, Count
      <4>6. Balance'
        BY <1>3, <1>4, <1>5, <2>8, <4>5 DEF Balance
      <4>7. QED
        BY <1>8, <2>2, <4>6
    <3>3. CASE plan.grace # None
      <4>1. plan'.grace = plan.grace /\ plan.grace \in Nat
        BY <1>5, <2>1, <2>8, <3>1, <3>3
      <4>2. Graced(1, Debt)
        BY <2>3, <2>8, <3>3
      <4>3. ~(now - plan.grace > plan.patience) /\ ~(5 * (0 - TotalRemaining(plan)) > Limit)
        BY <3>1, <3>3 DEF MustStop
      <4>4. now - plan.grace <= plan.patience + 0 /\ 5 * Debt <= Cap + 0
        BY <1>5, <4>1, <4>3
      <4>5. Graced(0, Debt)'
        BY <1>1, <1>5, <3>3, <4>1, <4>2, <4>4 DEF Graced
      <4>6. Balance'
        BY <1>3, <1>4, <1>5, <2>8, <4>5 DEF Balance
      <4>7. QED
        BY <1>8, <2>2, <4>6
    <3>4. QED
      BY <3>2, <3>3
  <2>9. CASE Debt >= 0 /\ Frozen
    <3>1. Balance'
      BY <1>3, <1>4, <1>5, <2>5, <2>9 DEF Balance
    <3>2. QED
      BY <1>8, <2>2, <3>1
  <2>10. QED
    BY <1>5, <2>6, <2>7, <2>8, <2>9
<1>11. QED
  BY <1>9, <1>10


\* The enforcement suspends everything, and finds nothing left to charge.
LEMMA DebtEnforce ==
    ASSUME TInv, TInv', Watched, Watched', Stopped, Balance, Period, Enforcing, GraceStop \/ GraceCommit
    PROVE  Balance' /\ Period' /\ Enforcing'
<1>0. Debt \in Int
  BY DebtFacts DEF DebtOK
<1>1. ASSUME GraceStop PROVE Balance' /\ Period' /\ Enforcing'
  <2>1. /\ tick.pc = "stop" /\ UNCHANGED <<now, cs, plan>>
        /\ tick'.pc = "enforce" /\ tick'.plan = tick.plan /\ tick'.left = tick.left
    BY <1>1, GraceStopIs
  <2>2. mode' = [s \in Sandboxes |-> IF s \in tick.ready THEN "Suspended" ELSE mode[s]]
    <3>1. PICK failed \in {{}} \cup {{s} : s \in tick.ready} :
            /\ mode' = [s \in Sandboxes |-> IF s \in tick.ready \ failed THEN "Suspended" ELSE mode[s]]
            /\ used'.faults = 0 => failed = {}
      BY <1>1, GraceStopIs
    <3>2. failed = {}
      BY <3>1 DEF Watched
    <3>3. QED
      BY <3>1, <3>2
  <2>3. Debt >= 0 /\ Ends(Debt) /\ Running \subseteq tick.ready /\ tick.plan = plan /\ tick.left = 1
    BY <2>1 DEF Enforcing
  <2>4. AllSuspended'
    BY <2>2, <2>3, AllStopped DEF AllSuspended
  <2>5. UpToDate'
    BY <2>1 DEF Balance, Charging, UpToDate, OpenSessions
  <2>6. Debt' = Debt
    BY <2>1 DEF Debt
  <2>7. Frozen'
    BY <2>1, <2>3, <2>4, <2>5, <2>6 DEF Frozen, Ends
  <2>8. Balance'
    BY <2>1, <2>3, <2>5, <2>6, <2>7 DEF Balance, Charging
  <2>9. Period' /\ Enforcing'
    BY <2>1, <2>3, <2>7 DEF Period, Enforcing
  <2>10. QED
    BY <2>8, <2>9
<1>2. ASSUME GraceCommit PROVE Balance' /\ Period' /\ Enforcing'
  <2>1. /\ tick.pc = "enforce" /\ tick'.pc = "reset" /\ tick'.left = 1 /\ UNCHANGED <<now, mode>>
        /\ CloseSessions(tick.ready, tick.plan) /\ tick.plan = plan /\ plan' = Ended
        /\ Ended.used = Enforced.used /\ Ended.overage = Enforced.overage /\ Ended.end = Enforced.end
        /\ Ended.patience = Enforced.patience
    BY <1>2, GraceCommitIs DEF Watched
  <2>2. Frozen
    BY <2>1 DEF Enforcing
  <2>3. FinalSlices(tick.ready) \in Nat /\ FinalSlices(tick.ready) = 0
    BY <2>1, <2>2, CloseEffect DEF Frozen, UpToDate
  <2>4. Enforced = plan
    BY <2>1, <2>3 DEF Enforced, ConsumedPlan
  <2>5. Debt' = Debt /\ plan'.end = plan.end /\ plan'.patience = plan.patience
    BY <2>1, <2>4 DEF Debt
  <2>6. UpToDate'
    <3>1. /\ DOMAIN cs' = DOMAIN cs
          /\ \A i \in DOMAIN cs : cs'[i].open => cs[i].open /\ cs'[i] = cs[i]
      BY <2>1, ClosedOnly
    <3>2. QED
      BY <2>1, <2>2, <3>1, UpToDateKept DEF Frozen
  <2>7. Frozen'
    BY <2>1, <2>2, <2>5, <2>6 DEF Frozen, Ends, AllSuspended
  <2>8. Balance'
    BY <2>1, <2>2, <2>5, <2>6, <2>7 DEF Balance, Charging, Frozen
  <2>9. Period' /\ Enforcing'
    BY <2>1, <2>5 DEF Period, Enforcing
  <2>10. QED
    BY <2>8, <2>9
<1>3. QED
  BY <1>1, <1>2

\* The monthly reset.
LEMMA DebtReset ==
    ASSUME Limit > 0, TInv, TInv', Watched, Balance, Period, Enforcing, ResetLoad \/ ResetCommit
    PROVE  Balance' /\ Period' /\ Enforcing'
<1>1. ASSUME ResetLoad PROVE Balance' /\ Period' /\ Enforcing'
  <2>1. /\ tick.pc = "reset" /\ UNCHANGED <<now, mode, cs, plan>>
        /\ \/ tick'.pc = "roll" /\ tick'.plan = plan /\ tick'.left = tick.left
           \/ ~(plan.end <= now) /\ tick'.pc = "sleep" /\ tick'.left = 1
    BY <1>1, ResetLoadIs
  <2>2. tick.left = 1 /\ tick'.left = 1
    BY <2>1 DEF Enforcing
  <2>3. ~Charging /\ ~Charging' /\ tick.pc # "stop" /\ tick'.pc # "stop"
    BY <2>1, <2>2 DEF Charging
  <2>4. Debt' = Debt /\ Pot' = Pot /\ (UpToDate => UpToDate') /\ Debt \in Int /\ Pot \in Int
    BY <2>1, DebtFacts DEF Debt, Pot, Due, Metered, UpToDate, OpenSessions, DebtOK
  <2>5. Debt' >= Debt /\ Pot' <= Pot /\ (AllSuspended => AllSuspended')
    BY <2>1, <2>4 DEF AllSuspended
  <2>6. Balance'
    BY <2>1, <2>3, <2>4, <2>5, BalanceKept
  <2>7. plan.end \in Nat /\ now \in Nat
    BY DebtFacts DEF DebtOK
  <2>8. Period'
    BY <2>1, <2>7 DEF Period
  <2>9. Enforcing'
    BY <2>1, <2>2 DEF Enforcing
  <2>10. QED
    BY <2>6, <2>8, <2>9
<1>2. ASSUME ResetCommit PROVE Balance' /\ Period' /\ Enforcing'
  <2>1. tick.pc = "roll" /\ tick'.pc = "sleep" /\ tick'.left = 1 /\ now' = now
    BY <1>2, ResetCommitIs
  <2>2. tick.plan = plan
    BY <2>1 DEF Enforcing
  <2>3. plan.end = now
    <3>1. plan.end <= now
      BY <2>1 DEF TInv, Loaded
    <3>2. plan.end \in Nat /\ now \in Nat
      BY DebtFacts DEF DebtOK
    <3>3. QED
      BY <3>1, <3>2 DEF Period
  <2>4. cs' = cs /\ plan' = ResetPlan(plan)
    BY <1>2, <2>2, <2>3, ResetAtEnd
  <2>5. plan'.used = 0 /\ plan'.overage = 0 /\ plan'.grace = None
    BY <2>4, PlanKept, ResetPlanFacts
  <2>6. plan.end < plan'.end
    BY <2>4, PlanKept, ResetPlanFacts
  <2>7. Debt' = 0 - Limit /\ Limit \in Nat
    BY <2>5, Constants DEF Debt
  <2>8. Debt' < 0
    BY <2>7
  <2>9. UpToDate'
    BY <2>1, <2>4 DEF Balance, Charging, UpToDate, OpenSessions
  <2>10. Balance'
    BY <2>1, <2>5, <2>8, <2>9 DEF Balance, Charging
  <2>11. Period'
    <3>1. plan'.end \in Nat /\ now \in Nat
      BY DebtFacts, DebtFactsNext DEF DebtOK
    <3>2. QED
      BY <2>1, <2>3, <2>6, <3>1 DEF Period
  <2>12. Enforcing'
    BY <2>1 DEF Enforcing
  <2>13. QED
    BY <2>10, <2>11, <2>12
<1>3. QED
  BY <1>1, <1>2

\* An interval.
LEMMA DebtPass ==
    ASSUME TInv, TInv', Watched, Watched', Balance, Period, Enforcing, NEW late \in BOOLEAN, Pass(late)
    PROVE  Balance' /\ Period' /\ Enforcing'
<1>1. /\ Settled /\ tick.pc = "sleep" /\ now' = now + 1 /\ tick'.pc = "sleep" /\ tick'.left = 0
      /\ tick.left > 0 /\ UNCHANGED <<status, mode, cs, plan>>
  BY PassIs DEF Watched
<1>2. tick.left = 1
  <2>1. tick.left \in 0..1
    BY PlanKept, TickFacts
  <2>2. QED
    BY <1>1, <2>1
<1>3. ~Charging /\ Charging'
  BY <1>1, <1>2 DEF Charging
<1>4. /\ now \in Nat /\ Count \in Nat /\ Cap \in Nat /\ plan.patience \in Nat /\ plan.end \in Nat
      /\ Debt \in Int /\ Pot = Debt /\ (plan.grace = None \/ plan.grace \in Nat)
  <2>1. UpToDate
    BY <1>3 DEF Balance
  <2>2. QED
    BY <2>1, DebtFacts DEF DebtOK
<1>5. Debt' = Debt /\ Pot' = Debt + Cardinality(OpenSessions)
  BY <1>1, <1>4, PotPass
<1>6. Cardinality(OpenSessions) \in Nat /\ Cardinality(OpenSessions) <= Count
  BY OpenCount
<1> DEFINE o == Cardinality(OpenSessions)
           d == Debt
<1> HIDE DEF o, d
<1>7. o \in Nat /\ o <= Count /\ Pot' = d + o /\ d \in Int /\ d = Debt
  BY <1>4, <1>5, <1>6 DEF o, d
<1>8. ASSUME Frozen PROVE Frozen'
  <2>1. OpenSessions = {}
    <3>1. \A s \in Sandboxes : mode[s] # "Running"
      BY <1>8 DEF Frozen, AllSuspended
    <3>2. \A s \in Sandboxes : OpenOf(s) = {}
      BY <1>1, <3>1 DEF Settled
    <3>3. \A i \in OpenSessions : cs[i].sandbox \in Sandboxes
      BY DueFacts DEF OpenSessions, SessionRows
    <3>4. QED
      BY <3>2, <3>3 DEF OpenOf
  <2>2. UpToDate'
    BY <1>1, <2>1 DEF UpToDate, OpenSessions
  <2>3. Frozen'
    BY <1>1, <1>5, <1>8, <2>2 DEF Frozen, Ends, AllSuspended
  <2>4. QED
    BY <2>3
<1>9. ASSUME plan.grace = None, Debt < 0 PROVE plan'.grace = None /\ Pot' <= Count - 1
  <2>1. Pot' <= Count - 1
    BY <1>4, <1>7, <1>9
  <2>2. QED
    BY <1>1, <1>9, <2>1
<1>10. ASSUME Graced(0, Debt) PROVE Graced(1, Pot)'
  <2> DEFINE x == now - plan.grace
             a == Allowed(x)
             c == Cap
             n == Count
  <2>1. /\ plan.grace \in Nat /\ plan.grace # None /\ plan.grace <= now /\ x <= plan.patience + 0
        /\ 5 * d <= c + 0 /\ d <= a
    BY <1>4, <1>7, <1>10 DEF Graced
  <2>2. x \in Nat /\ (now + 1) - plan.grace = x + 1 /\ plan.grace <= now + 1 /\ x + 1 <= plan.patience + 1
    BY <1>4, <2>1
  <2>3. a \in Int /\ Allowed(x + 1) = a + n
    BY <1>4, <2>2, AllowedFacts
  <2>4. c \in Nat /\ n \in Nat /\ o <= n
    BY <1>4, <1>7
  <2> HIDE DEF x, a, c, n
  <2>5. 5 * (d + o) <= c + 5 * n /\ d + o <= a + n
    BY <1>7, <2>1, <2>3, <2>4
  <2>6. 5 * Pot' <= Cap + 5 * Count /\ Pot' <= Allowed((now + 1) - plan.grace)
    <3>1. Allowed((now + 1) - plan.grace) = a + n
      BY <2>2, <2>3
    <3>2. QED
      BY <1>7, <2>5, <3>1 DEF c, n
  <2>7. Graced(1, Pot)'
    BY <1>1, <2>1, <2>2, <2>6 DEF Graced, x
  <2>8. QED
    BY <2>7
<1>11. Frozen' \/ (plan'.grace = None /\ Pot' <= Count - 1) \/ Graced(1, Pot)'
  <2>1. Frozen \/ (plan.grace = None /\ Debt < 0) \/ Graced(0, Debt)
    BY <1>1, <1>3 DEF Balance
  <2>2. CASE Frozen
    BY <1>8, <2>2
  <2>3. CASE plan.grace = None /\ Debt < 0
    BY <1>9, <2>3
  <2>4. CASE Graced(0, Debt)
    BY <1>10, <2>4
  <2>5. QED
    BY <2>1, <2>2, <2>3, <2>4
<1>12. Balance'
  BY <1>1, <1>3, <1>5, <1>11 DEF Balance
<1>13. Period'
  BY <1>1, <1>2, <1>4 DEF Period
<1>14. Enforcing'
  BY <1>1 DEF Enforcing
<1>15. QED
  BY <1>12, <1>13, <1>14


LEMMA DebtStep ==
    ASSUME Limit > 0
    PROVE  TInv /\ TInv' /\ WInv /\ Stopped /\ DInv /\ [Next]_vars => DInv'
<1> SUFFICES ASSUME TInv, TInv', WInv, Stopped, DInv, [Next]_vars, Watched' PROVE Balance' /\ Period' /\ Enforcing'
  BY DEF DInv
<1>1. Watched /\ Balance /\ Period /\ Enforcing
  BY WatchedStep DEF DInv
<1>2. ASSUME \/ \E s \in Sandboxes : \/ CloseSession(s) \/ RepairLoad(s) \/ OpenSession(s)
                                     \/ Start(s) \/ Stop(s) \/ Sync(s)
             \/ RepairCommit \/ UNCHANGED vars
      PROVE  Balance' /\ Period' /\ Enforcing'
  BY <1>1, <1>2, DebtOthers
<1>3. ASSUME Grant PROVE Balance' /\ Period' /\ Enforcing'
  <2>1. PICK e : grants' = Append(grants, e)
    BY <1>3 DEF Grant
  <2>2. grants \in Seq(GrantRows)
    BY PlanKept
  <2>3. grants' # <<>>
    BY <2>1, <2>2
  <2>4. QED
    BY <2>3 DEF Watched
<1>4. ASSUME MeterLoad \/ MeterCommit \/ Warn PROVE Balance' /\ Period' /\ Enforcing'
  BY <1>1, <1>4, DebtMeter
<1>5. ASSUME GraceLoad PROVE Balance' /\ Period' /\ Enforcing'
  BY <1>1, <1>5, DebtGrace
<1>6. ASSUME GraceStop \/ GraceCommit PROVE Balance' /\ Period' /\ Enforcing'
  BY <1>1, <1>6, DebtEnforce
<1>7. ASSUME ResetLoad \/ ResetCommit PROVE Balance' /\ Period' /\ Enforcing'
  BY <1>1, <1>7, DebtReset
<1>8. ASSUME StepFails PROVE Balance' /\ Period' /\ Enforcing'
  BY <1>8, StepFailsIs DEF Watched
<1>9. ASSUME NEW late \in BOOLEAN, Pass(late) PROVE Balance' /\ Period' /\ Enforcing'
  BY <1>1, <1>9, DebtPass
<1>10. QED
  BY <1>2, <1>3, <1>4, <1>5, <1>6, <1>7, <1>8, <1>9 DEF Next, Tick

LEMMA DebtInit ==
    ASSUME Limit > 0
    PROVE  Init => DInv /\ Stopped
<1> SUFFICES ASSUME Init PROVE Balance /\ Period /\ Enforcing /\ Stopped
  BY DEF DInv
<1>1. /\ now = 0 /\ cs = <<>> /\ status = [s \in Sandboxes |-> "ready"] /\ tick = IdleTick
      /\ plan \in {NewPlan(g) : g \in GracePeriods}
  BY DEF Init
<1>2. tick.pc = "sleep" /\ tick.left = 1
  BY <1>1 DEF IdleTick
<1>3. plan.used = 0 /\ plan.overage = 0 /\ plan.grace = None /\ plan.end = PeriodLength
  BY <1>1 DEF NewPlan
<1>4. Limit \in Nat /\ PeriodLength \in Nat /\ PeriodLength > 0
  BY Constants
<1>5. Debt = 0 - Limit
  BY <1>3, <1>4 DEF Debt
<1>6. Debt < 0
  BY <1>4, <1>5
<1>7. UpToDate
  BY <1>1 DEF UpToDate, OpenSessions
<1>8. Balance
  BY <1>2, <1>3, <1>6, <1>7 DEF Balance, Charging
<1>9. Period /\ Enforcing
  BY <1>1, <1>2, <1>3, <1>4 DEF Period, Enforcing
<1>10. Stopped
  BY <1>1 DEF Stopped
<1>11. QED
  BY <1>8, <1>9, <1>10

\* DebtBounded: while the leader meters every interval, nothing fails and no charge
\* is repeated, a user without grants owes no more than the cap of _handle_exhausted
\* and the grace period allow, and what one interval adds.  A plan with no credits at
\* all is left out (Limit > 0): it could not have started the sandboxes that run at
\* first, because check_compute_quota asks for credits.
THEOREM DebtCorrect == ASSUME Limit > 0 PROVE Spec => []DebtBounded
<1>1. Init => DInv /\ Stopped
  BY DebtInit
<1>2. TInv /\ TInv' /\ WInv /\ Stopped /\ DInv /\ [Next]_vars => DInv'
  BY DebtStep
<1>3. Spec => [](DInv /\ Stopped)
  BY <1>1, <1>2, StoppedStep, TypeInvariant, WarnedInvariant, PTL DEF Spec
<1>4. TInv /\ DInv => DebtBounded
  <2> SUFFICES ASSUME TInv, DInv, Watched
               PROVE  LET n    == Cardinality(Sandboxes)
                          debt == 0 - TotalRemaining(plan)
                      IN  /\ 5 * debt <= Max({Limit, 5 * (n - 1)}) + 5 * n
                          /\ debt <= n - 1 + (plan.patience + 1) * n
    BY DEF DebtBounded, Watched
  <2>1. Ends(Debt)
    BY DebtEnds DEF DInv
  <2>2. TotalRemaining(plan) = 0 - Debt /\ Debt \in Int /\ Limit \in Nat /\ Count \in Nat
    BY DebtFacts DEF DebtOK, Watched
  <2>3. 0 - TotalRemaining(plan) = Debt
    BY <2>2
  <2>4. Max({Limit, 5 * (Count - 1)}) = Cap
    BY <2>2, MaxTwo DEF Cap
  <2>5. 5 * Debt <= Max({Limit, 5 * (Count - 1)}) + 5 * Count /\ Debt <= Count - 1 + (plan.patience + 1) * Count
    BY <2>1, <2>4 DEF Ends, Allowed
  <2>6. QED
    BY <2>3, <2>5 DEF Count
<1>5. QED
  BY <1>3, <1>4, TypeInvariant, PTL
=============================================================================
