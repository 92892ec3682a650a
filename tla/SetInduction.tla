------------------------------ MODULE SetInduction ------------------------------
(***************************************************************************)
(* Induction over the naturals for a set instead of a predicate.  The      *)
(* induction theorems of the library have an operator as a parameter,      *)
(* which no backend here can instantiate; their well-foundedness theorems  *)
(* are about sets, and the rules below follow from them.                   *)
(***************************************************************************)
EXTENDS WellFoundedInduction, TLAPS

\* A set of naturals that is not empty has a least element.
LEMMA LeastElement ==
    ASSUME NEW T, T \subseteq Nat, T # {}
    PROVE  \E x \in T : \A y \in T : x <= y
<1> DEFINE R == {p \in Nat \X Nat : p[1] < p[2]}
<1>1. IsWellFoundedOn(R, Nat)
  BY NatLessThanWellFounded DEF OpToRel
<1>2. \A x, y \in Nat : <<y, x>> \in R <=> y < x
  OBVIOUS
<1> HIDE DEF R
<1>3. PICK x \in T : \A y \in T : ~ (<<y, x>> \in R)
  BY <1>1, WFMin
<1>4. \A y \in T : x <= y
  <2> SUFFICES ASSUME NEW y \in T PROVE x <= y
    OBVIOUS
  <2>1. x \in Nat /\ y \in Nat
    OBVIOUS
  <2>2. ~ (y < x)
    BY <1>2, <1>3, <2>1
  <2> QED
    BY <2>1, <2>2
<1> QED
  BY <1>4

\* A set that has 0, and the successor of each natural that it has, has all.
LEMMA AllNaturals ==
    ASSUME NEW S, 0 \in S, \A n \in Nat : n \in S => n + 1 \in S
    PROVE  Nat \subseteq S
<1> SUFFICES ASSUME ~(Nat \subseteq S) PROVE FALSE
  OBVIOUS
<1>1. PICK x \in Nat \ S : \A y \in Nat \ S : x <= y
  <2> DEFINE T == Nat \ S
  <2>1. T \subseteq Nat /\ T # {}
    OBVIOUS
  <2> HIDE DEF T
  <2>2. \E x \in T : \A y \in T : x <= y
    BY <2>1, LeastElement
  <2> QED
    BY <2>2 DEF T
<1>2. x # 0 /\ x - 1 \in Nat /\ x = (x - 1) + 1
  BY <1>1
<1>3. x - 1 \in S
  BY <1>1, <1>2
<1> QED
  BY <1>1, <1>2, <1>3

\* The same up to a bound.
LEMMA AllUpTo ==
    ASSUME NEW m \in Nat, NEW S, 0 \in S,
           \A n \in 0..(m - 1) : n \in S => n + 1 \in S
    PROVE  0..m \subseteq S
<1> DEFINE T == {n \in Nat : n <= m => n \in S}
<1>1. 0 \in T
  OBVIOUS
<1>2. \A n \in Nat : n \in T => n + 1 \in T
  OBVIOUS
<1>3. Nat \subseteq T
  <2> HIDE DEF T
  <2> QED
    BY <1>1, <1>2, AllNaturals
<1> QED
  BY <1>3

\* The recursions over the naturals that stay in a set, and what solves one.
StepsOn(V) == [Nat -> [V -> V]]

Iterates(f, V, base, advance) ==
    /\ f \in [Nat -> V]
    /\ f[0] = base
    /\ \A n \in Nat : f[n + 1] = advance[n][f[n]]

\* Each of them has a solution.
LEMMA Recursion ==
    ASSUME NEW V, NEW base \in V, NEW advance \in StepsOn(V)
    PROVE  \E f : Iterates(f, V, base, advance)
<1>0. advance \in [Nat -> [V -> V]]
  BY DEF StepsOn
<1> DEFINE Upto(m) == {g \in [0..m -> V] :
                          /\ g[0] = base
                          /\ \A n \in 0..(m - 1) : g[n + 1] = advance[n][g[n]]}
           Has == {m \in Nat : Upto(m) # {}}
<1>1. 0 \in Has
  <2>1. [n \in 0..0 |-> base] \in Upto(0)
    OBVIOUS
  <2> QED
    BY <2>1
<1>2. \A m \in Nat : m \in Has => m + 1 \in Has
  <2> SUFFICES ASSUME NEW m \in Nat, NEW g \in Upto(m) PROVE m + 1 \in Has
    OBVIOUS
  <2> DEFINE h == [n \in 0..(m + 1) |-> IF n = m + 1 THEN advance[m][g[m]] ELSE g[n]]
  <2>1. /\ g \in [0..m -> V] /\ g[0] = base
        /\ \A n \in 0..(m - 1) : g[n + 1] = advance[n][g[n]]
    OBVIOUS
  <2>2. h \in [0..(m + 1) -> V]
    BY <1>0, <2>1
  <2>3. h[0] = base
    BY <2>1
  <2>4. \A n \in 0..m : h[n + 1] = advance[n][h[n]]
    <3> SUFFICES ASSUME NEW n \in 0..m PROVE h[n + 1] = advance[n][h[n]]
      OBVIOUS
    <3>1. CASE n = m
      BY <3>1
    <3>2. CASE n # m
      <4>1. n \in 0..(m - 1) /\ n + 1 \in 0..(m + 1) /\ n + 1 # m + 1 /\ n # m + 1
        BY <3>2
      <4> QED
        BY <2>1, <4>1
    <3> QED
      BY <3>1, <3>2
  <2>5. h \in Upto(m + 1)
    BY <2>2, <2>3, <2>4
  <2> QED
    BY <2>5
<1>3. \A m \in Nat : Upto(m) # {}
  <2>1. Nat \subseteq Has
    <3> HIDE DEF Has
    <3> QED
      BY <1>1, <1>2, AllNaturals
  <2> QED
    BY <2>1
<1> DEFINE at == [m \in Nat |-> CHOOSE g \in Upto(m) : TRUE]
           f == [m \in Nat |-> at[m][m]]
<1>4. \A m \in Nat : at[m] \in Upto(m)
  <2> HIDE DEF Upto
  <2> QED
    BY <1>3
<1>5. \A m \in Nat : /\ at[m] \in [0..m -> V] /\ at[m][0] = base
                     /\ \A n \in 0..(m - 1) : at[m][n + 1] = advance[n][at[m][n]]
  <2> HIDE DEF at
  <2> QED
    BY <1>4
<1>6. \A m \in Nat : at[m + 1][m] = at[m][m]
  <2> HIDE DEF at
  <2> SUFFICES ASSUME NEW m \in Nat PROVE at[m + 1][m] = at[m][m]
    OBVIOUS
  <2> DEFINE Same == {n \in 0..m : at[m + 1][n] = at[m][n]}
  <2>1. 0 \in Same
    BY <1>5
  <2>2. \A n \in 0..(m - 1) : n \in Same => n + 1 \in Same
    <3> SUFFICES ASSUME NEW n \in 0..(m - 1), at[m + 1][n] = at[m][n]
                 PROVE at[m + 1][n + 1] = at[m][n + 1]
      OBVIOUS
    <3>1. at[m][n + 1] = advance[n][at[m][n]]
      BY <1>5
    <3>2. at[m + 1][n + 1] = advance[n][at[m + 1][n]]
      BY <1>5
    <3> QED
      BY <3>1, <3>2
  <2>3. 0..m \subseteq Same
    <3> HIDE DEF Same
    <3> QED
      BY <2>1, <2>2, AllUpTo
  <2> QED
    BY <2>3
<1> HIDE DEF at
<1>7. f \in [Nat -> V]
  BY <1>5
<1>8. f[0] = base
  BY <1>5
<1>9. \A n \in Nat : f[n + 1] = advance[n][f[n]]
  <2> SUFFICES ASSUME NEW n \in Nat PROVE at[n + 1][n + 1] = advance[n][at[n][n]]
    OBVIOUS
  <2>1. at[n + 1][n + 1] = advance[n][at[n + 1][n]]
    BY <1>5
  <2> QED
    BY <1>6, <2>1
<1> QED
  BY <1>7, <1>8, <1>9 DEF Iterates

===============================================================================
