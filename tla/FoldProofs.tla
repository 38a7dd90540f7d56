----------------------------- MODULE FoldProofs -----------------------------
(***************************************************************************)
(* Induction over numbers and finite sets, and what the folds of the       *)
(* community modules compute.  The prover cannot instantiate a theorem     *)
(* that has an operator as a parameter; so the step of the fold is a       *)
(* constant of this module, and a module that proves something about a     *)
(* fold takes an instance of it for its own step.                          *)
(***************************************************************************)
EXTENDS Integers, Sequences, SequencesExt, FiniteSetTheorems, TLAPS

CONSTANT Op(_, _, _)   \* the new value, from the old one, an element and a parameter

-----------------------------------------------------------------------------
(* Induction                                                               *)

\* A set that holds zero and with every number the next one holds all up to N:
\* the naturals are well founded, so a least exception would exist.
LEMMA Reaches ==
  ASSUME NEW N \in Nat, NEW T, 0 \in T, \A n \in 1..N : n - 1 \in T => n \in T
  PROVE  \A n \in 0..N : n \in T
  <1> DEFINE Bad == {n \in Nat : n <= N /\ n \notin T}
             Less == OpToRel(<, Nat)
  <1> SUFFICES ASSUME Bad # {} PROVE FALSE
    OBVIOUS
  <1>1. IsWellFoundedOn(Less, Nat)
    BY NatLessThanWellFounded
  <1>2. Bad \subseteq Nat
    OBVIOUS
  <1>3. PICK x \in Bad : \A y \in Bad : ~ (<<y, x>> \in Less)
    <2> HIDE DEF Bad, Less
    <2> QED
      BY <1>1, <1>2, WFMin
  <1>4. \A y \in Bad : ~ (y < x)
    BY <1>2, <1>3 DEF OpToRel
  <1>5. x # 0
    OBVIOUS
  <1>6. x - 1 \notin Bad
    BY <1>4, <1>5
  <1> QED
    BY <1>5, <1>6

\* What holds of the empty set, and of a set when it holds of the set without
\* any one of its elements, holds of every subset of a finite set.
LEMMA Grows ==
  ASSUME NEW S, IsFiniteSet(S), NEW T, {} \in T,
         \A R \in SUBSET S : R # {} /\ (\A x \in R : R \ {x} \in T) => R \in T
  PROVE  \A R \in SUBSET S : R \in T
  <1> DEFINE K == {k \in Nat : \A R \in SUBSET S : Cardinality(R) = k => R \in T}
  <1>0. \A R \in SUBSET S : IsFiniteSet(R) /\ Cardinality(R) \in Nat
    BY FS_Subset, FS_CardinalityType
  <1>1. 0 \in K
    BY <1>0, FS_EmptySet
  <1>2. ASSUME NEW k \in Nat \ {0}, k - 1 \in K PROVE k \in K
    <2> SUFFICES ASSUME NEW R \in SUBSET S, Cardinality(R) = k PROVE R \in T
      OBVIOUS
    <2>1. \A x \in R : Cardinality(R \ {x}) = k - 1
      BY <1>0, FS_RemoveElement
    <2>2. \A x \in R : R \ {x} \in T
      BY <1>2, <2>1
    <2>3. R # {}
      BY <1>2, FS_EmptySet
    <2> QED
      BY <2>2, <2>3
  <1> SUFFICES ASSUME NEW R \in SUBSET S PROVE R \in T
    OBVIOUS
  <1>3. Cardinality(R) \in K
    <2> HIDE DEF K
    <2>1. \A n \in 0..Cardinality(R) : n \in K
      BY <1>0, <1>1, <1>2, Reaches
    <2> QED
      BY <1>0, <2>1
  <1> QED
    BY <1>3

-----------------------------------------------------------------------------
(* Recursion                                                               *)

\* C chooses an element of every subset of S that has one.
Chooses(C, S) == \A R \in SUBSET S : R # {} => C[R] \in R

\* The recursion of MapThenFoldSet over the subsets of S, with the element that C
\* chooses of each and what h makes of it.
Recurs(it, S, C, h, base, p) ==
  /\ it = [R \in SUBSET S |-> it[R]]
  /\ it[{}] = base
  /\ \A R \in SUBSET S : R # {} => it[R] = Op(it[R \ {C[R]}], h[C[R]], p)

\* It has a solution.
LEMMA Recursion ==
  ASSUME NEW S, IsFiniteSet(S), NEW C, Chooses(C, S), NEW h, NEW base, NEW p
  PROVE  \E it : Recurs(it, S, C, h, base, p)
  <1> DEFINE Upto(k) == {R \in SUBSET S : Cardinality(R) <= k}
             Solves(it, k) ==
               it = [R \in Upto(k) |-> IF R = {} THEN base ELSE Op(it[R \ {C[R]}], h[C[R]], p)]
             T == {k \in Nat : \E it : Solves(it, k)}
             N == Cardinality(S)
  <1>0. \A R \in SUBSET S : IsFiniteSet(R) /\ Cardinality(R) \in Nat /\ Cardinality(R) <= N
    BY FS_Subset, FS_CardinalityType
  <1>1. ASSUME NEW k \in Nat, NEW R \in Upto(k), R # {} PROVE R \ {C[R]} \in Upto(k - 1)
    <2>1. IsFiniteSet(R) /\ C[R] \in R /\ Cardinality(R) \in Nat /\ Cardinality(R) <= k
      BY <1>0, <1>1 DEF Chooses
    <2>2. Cardinality(R \ {C[R]}) = Cardinality(R) - 1
      BY <2>1, FS_RemoveElement
    <2> QED
      BY <2>1, <2>2
  <1>2. 0 \in T
    <2> DEFINE it == [R \in Upto(0) |-> base]
    <2>1. Upto(0) = {{}}
      BY <1>0, FS_EmptySet
    <2>2. Solves(it, 0)
      BY <2>1
    <2> QED
      BY <2>2, Zenon
  <1>3. ASSUME NEW k \in Nat \ {0}, k - 1 \in T PROVE k \in T
    <2>1. PICK it : Solves(it, k - 1)
      BY <1>3
    <2> DEFINE jt == [R \in Upto(k) |-> IF R = {} THEN base ELSE Op(it[R \ {C[R]}], h[C[R]], p)]
    <2>2. ASSUME NEW R \in Upto(k - 1) PROVE R \in Upto(k) /\ jt[R] = it[R]
      <3>1. R \in Upto(k)
        BY <1>0
      <3> HIDE DEF Upto
      <3>2. it[R] = IF R = {} THEN base ELSE Op(it[R \ {C[R]}], h[C[R]], p)
        BY <2>1, Zenon
      <3>3. jt[R] = IF R = {} THEN base ELSE Op(it[R \ {C[R]}], h[C[R]], p)
        BY <3>1, Zenon
      <3> QED
        BY <3>1, <3>2, <3>3
    <2>3. ASSUME NEW R \in Upto(k), R # {} PROVE it[R \ {C[R]}] = jt[R \ {C[R]}]
      BY <1>1, <2>2, <2>3
    <2>4. Solves(jt, k)
      <3> HIDE DEF Upto
      <3>1. \A R \in Upto(k) : jt[R] = IF R = {} THEN base ELSE Op(jt[R \ {C[R]}], h[C[R]], p)
        <4> SUFFICES ASSUME NEW R \in Upto(k)
                     PROVE  jt[R] = IF R = {} THEN base ELSE Op(jt[R \ {C[R]}], h[C[R]], p)
          OBVIOUS
        <4>1. CASE R = {}
          BY <4>1
        <4>2. CASE R # {}
          <5>1. jt[R] = Op(it[R \ {C[R]}], h[C[R]], p)
            BY <4>2
          <5> HIDE DEF jt
          <5> QED
            BY <5>1, <4>2, <2>3
        <4> QED
          BY <4>1, <4>2
      <3> QED
        BY <3>1
    <2> HIDE DEF jt
    <2> QED
      BY <2>4, Zenon
  <1>4. N \in T
    <2> HIDE DEF T
    <2>1. \A n \in 0..N : n \in T
      BY <1>0, <1>2, <1>3, Reaches
    <2> QED
      BY <1>0, <2>1
  <1>5. PICK it : Solves(it, N)
    BY <1>4
  <1>6. Upto(N) = SUBSET S
    BY <1>0
  <1>7. it = [R \in SUBSET S |-> IF R = {} THEN base ELSE Op(it[R \ {C[R]}], h[C[R]], p)]
    BY <1>5, <1>6, Zenon
  <1>8. it = [R \in SUBSET S |-> it[R]]
    BY <1>7
  <1>9. it[{}] = base
    BY <1>7
  <1>10. ASSUME NEW R \in SUBSET S, R # {} PROVE it[R] = Op(it[R \ {C[R]}], h[C[R]], p)
    BY <1>7, <1>10, Zenon
  <1> QED
    BY <1>8, <1>9, <1>10, Zenon DEF Recurs
-----------------------------------------------------------------------------
(* The folds                                                               *)

\* The fold of FoldLeft whose step is Op.
FoldAlong(base, s, p) == FoldLeft(LAMBDA v, x : Op(v, x, p), base, s)

\* FoldLeft is a loop over the sequence: g[n] is the value after n elements.
LEMMA SeqLoop ==
  ASSUME NEW A, NEW s \in Seq(A), NEW base, NEW p
  PROVE  \E g : /\ g[0] = base
                /\ \A n \in 1..Len(s) : g[n] = Op(g[n - 1], s[n], p)
                /\ FoldAlong(base, s, p) = g[Len(s)]
  <1> DEFINE D == DOMAIN s
             C == [R \in SUBSET D |-> CHOOSE x \in R : \A y \in R : x >= y]
             Solves(it) ==
               it = [R \in SUBSET D |->
                       IF R = {} THEN base
                       ELSE Op(it[R \ {CHOOSE x \in R : \A y \in R : x >= y}],
                               s[CHOOSE x \in R : \A y \in R : x >= y], p)]
  <1>1. D = 1..Len(s) /\ IsFiniteSet(D) /\ Len(s) \in Nat
    BY FS_Interval
  <1>2. ASSUME NEW R \in SUBSET D, R # {}
        PROVE  C[R] \in R /\ \A y \in R : C[R] >= y
    <2>1. IsFiniteSet(R) /\ R \subseteq Int
      BY <1>1, FS_Subset
    <2>2. \E x \in R : \A y \in R : x >= y
      <3> DEFINE T == {Q \in SUBSET D : Q # {} => \E x \in Q : \A y \in Q : x >= y}
      <3>1. {} \in T
        OBVIOUS
      <3>2. ASSUME NEW Q \in SUBSET D, Q # {}, \A x \in Q : Q \ {x} \in T PROVE Q \in T
        <4>1. PICK x \in Q : TRUE
          BY <3>2
        <4>2. CASE Q \ {x} = {}
          <5>1. \A y \in Q : x >= y
            BY <4>2, <1>1
          <5> QED
            BY <5>1
        <4>3. CASE Q \ {x} # {}
          <5>1. PICK z \in Q \ {x} : \A y \in Q \ {x} : z >= y
            BY <4>3, <3>2
          <5>2. x \in Int /\ z \in Int /\ Q \subseteq Int
            BY <1>1
          <5> SUFFICES \E m \in Q : \A y \in Q : m >= y
            OBVIOUS
          <5> HIDE DEF T, D
          <5>3. CASE z >= x
            BY <5>1, <5>2, <5>3
          <5>4. CASE x >= z
            <6>1. \A y \in Q : x >= y
              BY <5>1, <5>2, <5>4
            <6> QED
              BY <6>1
          <5> QED
            BY <5>2, <5>3, <5>4
        <4> QED
          BY <4>2, <4>3
      <3>3. R \in T
        <4>1. IsFiniteSet(D) /\ R \in SUBSET D
          BY <1>1
        <4> HIDE DEF T, D
        <4> QED
          BY <4>1, <3>1, <3>2, Grows
      <3> QED
        BY <3>3, <1>2
    <2> QED
      BY <2>2, Zenon
  <1>3. \E it : Solves(it)
    <2>1. IsFiniteSet(D) /\ Chooses(C, D)
      BY <1>1, <1>2 DEF Chooses
    <2>2. \E it : Recurs(it, D, C, s, base, p)
      <3> HIDE DEF C, D
      <3> QED
        BY <2>1, Recursion
    <2>3. PICK it : Recurs(it, D, C, s, base, p)
      BY <2>2
    <2>4. \A R \in SUBSET D : C[R] = CHOOSE x \in R : \A y \in R : x >= y
      BY Zenon
    <2> HIDE DEF C, D
    <2>5. it = [R \in SUBSET D |-> IF R = {} THEN base ELSE Op(it[R \ {C[R]}], s[C[R]], p)]
      BY <2>3 DEF Recurs
    <2>6. Solves(it)
      BY <2>5, <2>4, Zenon
    <2> QED
      BY <2>6
  <1> DEFINE it == CHOOSE it : Solves(it)
  <1>4. Solves(it)
    BY <1>3, Zenon
  <1>5. FoldAlong(base, s, p) = it[D]
    BY Zenon DEF FoldAlong, FoldLeft, MapThenFoldSet, Max
  <1>6. \A R \in SUBSET D : it[R] = IF R = {} THEN base ELSE Op(it[R \ {C[R]}], s[C[R]], p)
    <2> HIDE DEF it
    <2>1. \A R \in SUBSET D : C[R] = CHOOSE x \in R : \A y \in R : x >= y
      BY Zenon
    <2> HIDE DEF C, D
    <2> QED
      BY <1>4, <2>1, Zenon
  <1> DEFINE g == [n \in 0..Len(s) |-> it[1..n]]
  <1> HIDE DEF it, C
  <1>7. g[0] = base
    <2>1. 1..0 = {} /\ {} \in SUBSET D
      OBVIOUS
    <2>2. it[{}] = base
      BY <1>6, <2>1
    <2> QED
      BY <1>1, <2>1, <2>2
  <1>8. \A n \in 1..Len(s) : g[n] = Op(g[n - 1], s[n], p)
    <2> SUFFICES ASSUME NEW n \in 1..Len(s) PROVE g[n] = Op(g[n - 1], s[n], p)
      OBVIOUS
    <2>1. 1..n \in SUBSET D /\ 1..n # {} /\ n \in 1..n
      BY <1>1, SMTT(30)
    <2>2. C[1..n] = n
      <3>1. C[1..n] \in 1..n /\ C[1..n] >= n
        BY <1>2, <2>1
      <3> QED
        BY <3>1
    <2>3. (1..n) \ {n} = 1..(n - 1)
      BY <1>1
    <2>4. it[1..n] = Op(it[1..(n-1)], s[n], p)
      BY <1>6, <2>1, <2>2, <2>3
    <2>5. g[n] = it[1..n] /\ g[n - 1] = it[1..(n - 1)]
      BY <1>1
    <2> QED
      BY <2>4, <2>5
  <1>9. g[Len(s)] = it[D]
    BY <1>1
  <1> QED
    <2> HIDE DEF g
    <2> QED
      BY <1>5, <1>7, <1>8, <1>9

\* The fold of FoldSet whose step is Op.
FoldOver(base, S, p) == FoldSet(LAMBDA x, v : Op(v, x, p), base, S)

\* The choice FoldSet makes, and the identity it maps with.
Pick(S) == [R \in SUBSET S |-> CHOOSE x \in R : TRUE]
Same(S) == [x \in S |-> x]

LEMMA SetFold ==
  ASSUME NEW S, IsFiniteSet(S), NEW base, NEW p
  PROVE  \E it : Recurs(it, S, Pick(S), Same(S), base, p) /\ FoldOver(base, S, p) = it[S]
  <1> DEFINE Solves(it) ==
               it = [R \in SUBSET S |->
                       IF R = {} THEN base
                       ELSE Op(it[R \ {CHOOSE x \in R : TRUE}], CHOOSE x \in R : TRUE, p)]
  <1>1. \A R \in SUBSET S : Pick(S)[R] = CHOOSE x \in R : TRUE
    BY Zenon DEF Pick
  <1>2. ASSUME NEW R \in SUBSET S, R # {}
        PROVE  Pick(S)[R] \in R /\ Same(S)[Pick(S)[R]] = Pick(S)[R]
    <2>1. (CHOOSE x \in R : TRUE) \in R
      BY <1>2, Zenon
    <2>2. Pick(S)[R] \in R
      BY <1>1, <2>1, Zenon
    <2> QED
      BY <2>2 DEF Same
  <1>3. Chooses(Pick(S), S)
    BY <1>2 DEF Chooses
  <1>4. PICK jt : Recurs(jt, S, Pick(S), Same(S), base, p)
    BY <1>3, Recursion
  <1>5. jt = [R \in SUBSET S |->
               IF R = {} THEN base ELSE Op(jt[R \ {Pick(S)[R]}], Pick(S)[R], p)]
    BY <1>2, <1>4 DEF Recurs
  <1>6. Solves(jt)
    BY <1>1, <1>5, Zenon
  <1> DEFINE it == CHOOSE it : Solves(it)
  <1>7. Solves(it)
    BY <1>6, Zenon
  <1>8. FoldOver(base, S, p) = it[S]
    BY Zenon DEF FoldOver, FoldSet, MapThenFoldSet
  <1> HIDE DEF it
  <1>9. it = [R \in SUBSET S |->
               IF R = {} THEN base ELSE Op(it[R \ {Pick(S)[R]}], Pick(S)[R], p)]
    BY <1>1, <1>7, Zenon
  <1>10. Recurs(it, S, Pick(S), Same(S), base, p)
    BY <1>2, <1>9 DEF Recurs
  <1> QED
    BY <1>8, <1>10

\* The order of the elements of S does not matter to values in V.
Commutes(S, V, p) ==
  /\ \A v \in V, x \in S : Op(v, x, p) \in V
  /\ \A v \in V, x \in S, y \in S : Op(Op(v, x, p), y, p) = Op(Op(v, y, p), x, p)

\* Then FoldSet may take any element last.
LEMMA SetLoop ==
  ASSUME NEW S, IsFiniteSet(S), NEW V, NEW base \in V, NEW p, Commutes(S, V, p)
  PROVE  /\ FoldOver(base, S, p) \in V
         /\ S = {} => FoldOver(base, S, p) = base
         /\ \A x \in S : FoldOver(base, S, p) = Op(FoldOver(base, S \ {x}, p), x, p)
  <1> USE DEF Commutes
  <1>1. PICK it : Recurs(it, S, Pick(S), Same(S), base, p) /\ FoldOver(base, S, p) = it[S]
    BY SetFold
  <1>2. ASSUME NEW R \in SUBSET S, R # {}
        PROVE  Pick(S)[R] \in R /\ it[R] = Op(it[R \ {Pick(S)[R]}], Pick(S)[R], p)
    <2>1. Pick(S)[R] = CHOOSE x \in R : TRUE
      BY Zenon DEF Pick
    <2>2. Pick(S)[R] \in R
      BY <1>2, <2>1, Zenon
    <2>3. Same(S)[Pick(S)[R]] = Pick(S)[R]
      BY <2>2 DEF Same
    <2> QED
      BY <1>1, <1>2, <2>2, <2>3 DEF Recurs
  <1>0. \A R \in SUBSET S : it[R] \in V
    <2> DEFINE T == {R \in SUBSET S : it[R] \in V}
    <2>1. {} \in T
      BY <1>1 DEF Recurs
    <2>2. ASSUME NEW R \in SUBSET S, R # {}, \A x \in R : R \ {x} \in T PROVE R \in T
      <3> DEFINE c == Pick(S)[R]
      <3>1. c \in R /\ it[R] = Op(it[R \ {c}], c, p)
        BY <1>2, <2>2
      <3> HIDE DEF c
      <3>2. it[R \ {c}] \in V
        BY <2>2, <3>1
      <3> QED
        BY <3>1, <3>2
    <2>3. \A R \in SUBSET S : R \in T
      <3> HIDE DEF T
      <3> QED
        BY <2>1, <2>2, Grows
    <2> QED
      BY <2>3
  <1> DEFINE T == {R \in SUBSET S : \A x \in R : it[R] = Op(it[R \ {x}], x, p)}
  <1>3. {} \in T
    BY <1>1 DEF Recurs
  <1>4. ASSUME NEW R \in SUBSET S, R # {}, \A x \in R : R \ {x} \in T PROVE R \in T
    <2> DEFINE c == Pick(S)[R]
    <2>1. c \in R /\ it[R] = Op(it[R \ {c}], c, p)
      BY <1>2, <1>4
    <2> HIDE DEF c
    <2>3. ASSUME NEW x \in R, x # c PROVE it[R] = Op(it[R \ {x}], x, p)
      <3> DEFINE w == it[(R \ {c}) \ {x}]
      <3>1. (R \ {c}) \ {x} = (R \ {x}) \ {c} /\ x \in R \ {c} /\ c \in R \ {x}
        BY <2>1, <2>3
      <3>2. R \ {c} \in T /\ R \ {x} \in T
        BY <1>4, <2>1
      <3>3. it[R \ {c}] = Op(w, x, p) /\ it[R \ {x}] = Op(w, c, p)
        BY <3>1, <3>2
      <3>4. w \in V
        BY <1>0
      <3> HIDE DEF w
      <3> QED
        BY <2>1, <3>3, <3>4
    <2> QED
      BY <2>1, <2>3
  <1>5. \A R \in SUBSET S : R \in T
    <2> HIDE DEF T
    <2> QED
      BY <1>3, <1>4, Grows
  <1>6. ASSUME NEW x \in S PROVE FoldOver(base, S \ {x}, p) = it[S \ {x}]
    <2> DEFINE Q == S \ {x}
    <2>1. Q \in SUBSET S /\ IsFiniteSet(Q)
      BY FS_Subset
    <2> HIDE DEF Q
    <2>2. PICK jt : Recurs(jt, Q, Pick(Q), Same(Q), base, p) /\ FoldOver(base, Q, p) = jt[Q]
      BY <2>1, SetFold
    <2>3. ASSUME NEW R \in SUBSET Q, R # {}
          PROVE  Pick(S)[R] = Pick(Q)[R] /\ jt[R] = Op(jt[R \ {Pick(S)[R]}], Pick(S)[R], p)
      <3>1. R \in SUBSET S
        BY <2>1
      <3>2. Pick(S)[R] = CHOOSE y \in R : TRUE
        BY <3>1, Zenon DEF Pick
      <3>3. Pick(Q)[R] = CHOOSE y \in R : TRUE
        BY Zenon DEF Pick
      <3>4. Pick(S)[R] = Pick(Q)[R]
        BY <3>2, <3>3, Zenon
      <3>5. Same(Q)[Pick(Q)[R]] = Pick(Q)[R]
        BY <1>2, <2>3, <3>1, <3>4 DEF Same
      <3> QED
        BY <2>2, <2>3, <3>4, <3>5 DEF Recurs
    <2> DEFINE U == {R \in SUBSET Q : jt[R] = it[R]}
    <2>4. {} \in U
      BY <1>1, <2>2 DEF Recurs
    <2>5. ASSUME NEW R \in SUBSET Q, R # {}, \A y \in R : R \ {y} \in U PROVE R \in U
      <3>1. R \in SUBSET S
        BY <2>1
      <3>2. jt[R \ {Pick(S)[R]}] = it[R \ {Pick(S)[R]}]
        BY <1>2, <2>5, <3>1
      <3>3. it[R] = Op(it[R \ {Pick(S)[R]}], Pick(S)[R], p)
        BY <1>2, <2>5, <3>1
      <3>4. jt[R] = Op(jt[R \ {Pick(S)[R]}], Pick(S)[R], p)
        BY <2>3, <2>5
      <3> QED
        BY <3>2, <3>3, <3>4
    <2>6. \A R \in SUBSET Q : R \in U
      <3> HIDE DEF U
      <3> QED
        BY <2>1, <2>4, <2>5, Grows
    <2>7. FoldOver(base, Q, p) = it[Q]
      BY <2>2, <2>6
    <2> QED
      BY <2>7 DEF Q
  <1>7. S \in T
    <2> HIDE DEF T
    <2> QED
      BY <1>5
  <1>8. S = {} => FoldOver(base, S, p) = base
    BY <1>1 DEF Recurs
  <1> QED
    BY <1>0, <1>1, <1>6, <1>7, <1>8
=============================================================================
