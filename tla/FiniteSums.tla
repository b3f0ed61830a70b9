----------------------------- MODULE FiniteSums -----------------------------
(***************************************************************************)
(* Sums over finite sets: MapThenSumSet is defined by recursion over the   *)
(* subsets of a set, picking one element at a time.  The lemmas say that   *)
(* the recursion has a solution, that the sum of integers is an integer,   *)
(* and that it does not depend on the order in which elements are picked.  *)
(* Everything else follows from adding or removing one element.            *)
(*                                                                         *)
(* Induction is on the size of the set, as the choice of a smallest        *)
(* counterexample.                                                         *)
(***************************************************************************)
EXTENDS Integers, FiniteSets, FiniteSetsExt, FiniteSetTheorems,
        WellFoundedInduction, TLAPS

(* The sum of f[x] over the elements x of S. *)
SumOf(f, S) == MapThenSumSet(LAMBDA x : f[x], S)

Pick(s) == CHOOSE x \in s : TRUE

(* g solves the recursion for the sums of f over the subsets of S that     *)
(* have at most n elements.                                                *)
Small(S, n) == {s \in SUBSET S : Cardinality(s) <= n}
Solves(g, f, S, n) ==
  /\ g \in [Small(S, n) -> Int]
  /\ \A s \in Small(S, n) :
       g[s] = IF s = {} THEN 0 ELSE f[Pick(s)] + g[s \ {Pick(s)}]

(* A set of natural numbers that is not empty has a smallest element. *)
LEMMA SmallestNat ==
  ASSUME NEW T, T \subseteq Nat, T # {}
  PROVE  \E n \in T : \A m \in T : n <= m
PROOF
  <1> DEFINE R == OpToRel(<, Nat)
  <1>1. IsWellFoundedOn(R, Nat)
    BY NatLessThanWellFounded
  <1>2. \A m, n \in Nat : m < n => <<m, n>> \in R
    BY DEF OpToRel
  <1> HIDE DEF R
  <1>3. PICK n \in T : \A m \in T : ~(<<m, n>> \in R)
    BY <1>1, WFMin
  <1>4. ASSUME NEW m \in T
        PROVE  n <= m
    <2>1. m \in Nat /\ n \in Nat /\ ~(m < n)
      BY <1>2, <1>3
    <2> QED BY <2>1
  <1> QED BY <1>4

(* Picking an element makes a finite set smaller. *)
LEMMA PickRemoves ==
  ASSUME NEW s, IsFiniteSet(s), s # {}
  PROVE  /\ Pick(s) \in s
         /\ IsFiniteSet(s \ {Pick(s)})
         /\ Cardinality(s) \in Nat
         /\ Cardinality(s \ {Pick(s)}) = Cardinality(s) - 1
PROOF
  <1>1. Pick(s) \in s
    BY DEF Pick
  <1> QED BY <1>1, FS_RemoveElement, FS_CardinalityType

(* The recursion has a solution for the subsets of every size. *)
LEMMA SolutionExists ==
  ASSUME NEW S, IsFiniteSet(S), NEW f, \A x \in S : f[x] \in Int, NEW k \in Nat
  PROVE  \E g : Solves(g, f, S, k)
PROOF
  <1> DEFINE T == {n \in Nat : ~ \E g : Solves(g, f, S, n)}
  <1>1. SUFFICES ASSUME T # {} PROVE FALSE
    OBVIOUS
  <1>2. PICK n \in T : \A m \in T : n <= m
    <2>1. T \subseteq Nat
      OBVIOUS
    <2> HIDE DEF T
    <2> QED BY <1>1, <2>1, SmallestNat
  <1>0. \A s \in SUBSET S : IsFiniteSet(s) /\ Cardinality(s) \in Nat
    BY FS_Subset, FS_CardinalityType
  <1>3. CASE n = 0
    <2> DEFINE g == [s \in Small(S, 0) |-> 0]
    <2>1. \A s \in Small(S, 0) : s = {}
      BY <1>0, FS_EmptySet DEF Small
    <2>2. g \in [Small(S, 0) -> Int]
      OBVIOUS
    <2>3. \A s \in Small(S, 0) : g[s] = 0
      OBVIOUS
    <2> HIDE DEF g
    <2>4. Solves(g, f, S, 0)
      BY <2>1, <2>2, <2>3 DEF Solves
    <2> QED BY <1>2, <1>3, <2>4
  <1>4. CASE n # 0
    <2>1. n \in Nat /\ n - 1 \in Nat /\ n - 1 \notin T
      BY <1>2, <1>4
    <2>2. PICK h : Solves(h, f, S, n - 1)
      BY <2>1
    <2> HIDE DEF T
    <2>3. \A s \in Small(S, n) : s # {} =>
            /\ Pick(s) \in s
            /\ f[Pick(s)] \in Int
            /\ s \ {Pick(s)} \in Small(S, n - 1)
      BY <1>0, <2>1, PickRemoves DEF Small
    <2>4. Small(S, n - 1) \subseteq Small(S, n)
      BY <1>0, <2>1 DEF Small
    <2> DEFINE g == [s \in Small(S, n) |->
                       IF s = {} THEN 0 ELSE f[Pick(s)] + h[s \ {Pick(s)}]]
    <2>5. \A s \in Small(S, n) : g[s] = IF s = {} THEN 0 ELSE f[Pick(s)] + h[s \ {Pick(s)}]
      OBVIOUS
    <2>6. \A s \in Small(S, n) :
            (IF s = {} THEN 0 ELSE f[Pick(s)] + h[s \ {Pick(s)}]) \in Int
      BY <2>2, <2>3 DEF Solves
    <2>7. g \in [Small(S, n) -> Int]
      BY <2>6
    <2> HIDE DEF g
    <2>8. \A s \in Small(S, n - 1) : g[s] = h[s]
      BY <2>2, <2>4, <2>5 DEF Solves
    <2>9. \A s \in Small(S, n) : g[s] = IF s = {} THEN 0 ELSE f[Pick(s)] + g[s \ {Pick(s)}]
      BY <2>3, <2>5, <2>8
    <2>10. Solves(g, f, S, n)
      BY <2>7, <2>9 DEF Solves
    <2>11. n \notin T
      BY <2>10 DEF T
    <2> QED BY <1>2, <2>11
  <1> QED BY <1>3, <1>4
(* What the recursion in MapThenSumSet computes satisfies its equation. *)
Iter(f, S) == CHOOSE g : g = [s \in SUBSET S |->
                IF s = {} THEN 0 ELSE f[Pick(s)] + g[s \ {Pick(s)}]]

(* The sum is the value of the recursion that MapThenSumSet defines. *)
LEMMA SumOfIter ==
  ASSUME NEW f, NEW S
  PROVE  SumOf(f, S) = Iter(f, S)[S]
PROOF
  BY Zenon DEF SumOf, Iter, MapThenSumSet, MapThenFoldSet, Pick

(* The equation that a function of the subsets of S is to satisfy. *)
Equation(g, f, S) ==
  \A s \in SUBSET S : g[s] = IF s = {} THEN 0 ELSE f[Pick(s)] + g[s \ {Pick(s)}]

(* Two functions that satisfy the equation agree where both are defined. *)
LEMMA EquationsAgree ==
  ASSUME NEW S, NEW U, NEW f, NEW g, NEW h,
         IsFiniteSet(S), Equation(g, f, S), Equation(h, f, U)
  PROVE  \A s \in SUBSET S : s \subseteq U => g[s] = h[s]
PROOF
  <1> DEFINE Wrong == {s \in SUBSET S : s \subseteq U /\ g[s] # h[s]}
             T == {Cardinality(s) : s \in Wrong}
  <1>0. \A s \in SUBSET S : IsFiniteSet(s) /\ Cardinality(s) \in Nat
    BY FS_Subset, FS_CardinalityType
  <1>1. SUFFICES ASSUME Wrong # {} PROVE FALSE
    OBVIOUS
  <1>2. T # {} /\ T \subseteq Nat
    BY <1>0, <1>1
  <1>3. PICK n \in T : \A m \in T : n <= m
    <2> HIDE DEF T
    <2> QED BY <1>2, SmallestNat
  <1>4. PICK s \in Wrong : n = Cardinality(s)
    BY <1>3
  <1>5. s \subseteq S /\ s \subseteq U /\ g[s] # h[s]
    BY <1>4
  <1>6. s # {}
    BY <1>5 DEF Equation
  <1> DEFINE r == s \ {Pick(s)}
  <1>7. /\ Pick(s) \in s
        /\ Cardinality(s) \in Nat
        /\ Cardinality(r) = Cardinality(s) - 1
    BY <1>0, <1>5, <1>6, PickRemoves
  <1>8. r \subseteq S /\ r \subseteq U
    BY <1>5
  <1>9. g[s] = f[Pick(s)] + g[r] /\ h[s] = f[Pick(s)] + h[r]
    BY <1>5, <1>6 DEF Equation
  <1>10. g[r] # h[r]
    BY <1>5, <1>9
  <1>11. Cardinality(r) \in T
    BY <1>8, <1>10
  <1>12. n <= Cardinality(r)
    BY <1>3, <1>11
  <1> QED BY <1>4, <1>7, <1>12

(* That recursion is solved for the subsets of every size. *)
LEMMA IterSolves ==
  ASSUME NEW S, IsFiniteSet(S), NEW f, \A x \in S : f[x] \in Int
  PROVE  /\ Equation(Iter(f, S), f, S)
         /\ \A s \in SUBSET S : Iter(f, S)[s] \in Int
PROOF
  <1>1. Cardinality(S) \in Nat
    BY FS_CardinalityType
  <1>2. PICK h : Solves(h, f, S, Cardinality(S))
    BY <1>1, SolutionExists
  <1>3. Small(S, Cardinality(S)) = SUBSET S
    BY FS_Subset DEF Small
  <1>4. h = [s \in SUBSET S |-> IF s = {} THEN 0 ELSE f[Pick(s)] + h[s \ {Pick(s)}]]
    BY <1>2, <1>3 DEF Solves
  <1>5. Iter(f, S) = [s \in SUBSET S |-> IF s = {} THEN 0
                                        ELSE f[Pick(s)] + Iter(f, S)[s \ {Pick(s)}]]
    BY <1>4, Zenon DEF Iter
  <1>6. Equation(Iter(f, S), f, S)
    BY <1>5 DEF Equation
  <1>7. Equation(h, f, S) /\ \A s \in SUBSET S : h[s] \in Int
    BY <1>2, <1>3 DEF Equation, Solves
  <1>8. \A s \in SUBSET S : Iter(f, S)[s] = h[s]
    BY <1>6, <1>7, EquationsAgree
  <1> QED BY <1>6, <1>7, <1>8

-----------------------------------------------------------------------------
(* The sum of integers over a finite set. *)

Summable(f, S) == IsFiniteSet(S) /\ \A x \in S : f[x] \in Int

(* A subset of a finite set of integers can be summed too. *)
LEMMA SummableSubset ==
  ASSUME NEW f, NEW S, Summable(f, S), NEW U, U \subseteq S
  PROVE  Summable(f, U)
PROOF
  BY FS_Subset DEF Summable

(* A sum of integers is an integer. *)
LEMMA SumType ==
  ASSUME NEW f, NEW S, Summable(f, S)
  PROVE  SumOf(f, S) \in Int
PROOF
  BY SumOfIter, IterSolves DEF Summable

(* The sum over the empty set. *)
LEMMA SumEmpty ==
  ASSUME NEW f
  PROVE  SumOf(f, {}) = 0
PROOF
  <1>1. Equation(Iter(f, {}), f, {})
    BY IterSolves, FS_EmptySet
  <1> QED BY <1>1, SumOfIter DEF Equation

(* One step of the recursion. *)
LEMMA SumPick ==
  ASSUME NEW f, NEW S, Summable(f, S), S # {}
  PROVE  SumOf(f, S) = f[Pick(S)] + SumOf(f, S \ {Pick(S)})
PROOF
  <1> DEFINE U == S \ {Pick(S)}
  <1>1. Summable(f, U)
    BY SummableSubset
  <1>2. Equation(Iter(f, S), f, S) /\ Equation(Iter(f, U), f, U)
    BY <1>1, IterSolves DEF Summable
  <1>3. Iter(f, U)[U] = Iter(f, S)[U]
    BY <1>1, <1>2, EquationsAgree DEF Summable
  <1>4. Iter(f, S)[S] = f[Pick(S)] + Iter(f, S)[U]
    BY <1>2 DEF Equation
  <1> QED BY <1>3, <1>4, SumOfIter

(* The order in which elements are picked makes no difference: any element *)
(* may be taken out first.                                                 *)
LEMMA SumRemove ==
  ASSUME NEW f, NEW S, Summable(f, S), NEW x \in S
  PROVE  SumOf(f, S) = f[x] + SumOf(f, S \ {x})
PROOF
  <1> DEFINE Holds(s, y) == SumOf(f, s) = f[y] + SumOf(f, s \ {y})
             Wrong == {s \in SUBSET S : \E y \in s : ~Holds(s, y)}
             T == {Cardinality(s) : s \in Wrong}
  <1>0. \A s \in SUBSET S : IsFiniteSet(s) /\ Cardinality(s) \in Nat
    BY FS_Subset, FS_CardinalityType DEF Summable
  <1>1. SUFFICES ASSUME Wrong # {} PROVE FALSE
    OBVIOUS
  <1>2. T # {} /\ T \subseteq Nat
    BY <1>0, <1>1
  <1>3. PICK n \in T : \A m \in T : n <= m
    <2> HIDE DEF T
    <2> QED BY <1>2, SmallestNat
  <1>4. PICK s \in Wrong : n = Cardinality(s)
    BY <1>3
  <1>5. PICK y \in s : ~Holds(s, y)
    BY <1>4
  <1> DEFINE c == Pick(s)
             both == s \ {c, y}
  <1>6. Summable(f, s) /\ s # {} /\ c \in s
    BY <1>4, <1>5, SummableSubset, PickRemoves DEF Summable
  <1>7. SumOf(f, s) = f[c] + SumOf(f, s \ {c})
    BY <1>6, SumPick
  <1>8. y # c
    BY <1>5, <1>7
  <1>9. Cardinality(s) \in Nat
        /\ Cardinality(s \ {c}) = Cardinality(s) - 1
        /\ Cardinality(s \ {y}) = Cardinality(s) - 1
    BY <1>0, <1>4, <1>5, <1>6, FS_RemoveElement
  <1>10. \A r \in SUBSET S : Cardinality(r) = Cardinality(s) - 1 => r \notin Wrong
    BY <1>3, <1>4, <1>9
  <1>11. s \ {c} \in SUBSET S /\ s \ {y} \in SUBSET S
    BY <1>4
  <1>12. Holds(s \ {c}, y) /\ Holds(s \ {y}, c)
    BY <1>5, <1>6, <1>8, <1>9, <1>10, <1>11
  <1>13. (s \ {c}) \ {y} = both /\ (s \ {y}) \ {c} = both
    OBVIOUS
  <1>14. SumOf(f, s \ {c}) = f[y] + SumOf(f, both) /\ SumOf(f, s \ {y}) = f[c] + SumOf(f, both)
    BY <1>12, <1>13
  <1>15. SumOf(f, both) \in Int /\ f[y] \in Int /\ f[c] \in Int
    BY <1>5, <1>6, SummableSubset, SumType DEF Summable
  <1>16. Holds(s, y)
    <2> HIDE DEF both, c
    <2> QED BY <1>7, <1>14, <1>15
  <1> QED BY <1>5, <1>16

(* Adding an element. *)
LEMMA SumAdd ==
  ASSUME NEW f, NEW S, NEW x, x \notin S, Summable(f, S \cup {x})
  PROVE  SumOf(f, S \cup {x}) = f[x] + SumOf(f, S)
PROOF
  <1>1. (S \cup {x}) \ {x} = S
    OBVIOUS
  <1> QED BY <1>1, SumRemove

(* Only the values on the set count. *)
LEMMA SumEqual ==
  ASSUME NEW f, NEW g, NEW S, Summable(f, S), \A x \in S : f[x] = g[x]
  PROVE  SumOf(f, S) = SumOf(g, S)
PROOF
  <1>1. Equation(Iter(f, S), f, S) /\ Equation(Iter(g, S), g, S)
    BY IterSolves DEF Summable
  <1>2. \A s \in SUBSET S : s # {} => Pick(s) \in S
    BY DEF Pick
  <1>3. Equation(Iter(f, S), g, S)
    BY <1>1, <1>2 DEF Equation
  <1>4. Iter(f, S)[S] = Iter(g, S)[S]
    BY <1>1, <1>3, EquationsAgree DEF Summable
  <1> QED BY <1>4, SumOfIter

(* The sum after the value of one element has changed. *)
LEMMA SumUpdate ==
  ASSUME NEW f, NEW g, NEW S, NEW x \in S, Summable(f, S), g[x] \in Int,
         \A y \in S : y # x => g[y] = f[y]
  PROVE  SumOf(g, S) = SumOf(f, S) - f[x] + g[x]
PROOF
  <1>1. Summable(g, S) /\ Summable(f, S \ {x})
    BY SummableSubset DEF Summable
  <1>2. SumOf(g, S \ {x}) = SumOf(f, S \ {x})
    BY <1>1, SumEqual
  <1>3. SumOf(g, S) = g[x] + SumOf(g, S \ {x}) /\ SumOf(f, S) = f[x] + SumOf(f, S \ {x})
    BY <1>1, SumRemove
  <1>4. SumOf(f, S \ {x}) \in Int /\ f[x] \in Int
    BY <1>1, SumType DEF Summable
  <1> QED BY <1>2, <1>3, <1>4

(* A sum of natural numbers is a natural number. *)
LEMMA SumNat ==
  ASSUME NEW f, NEW S, IsFiniteSet(S), \A x \in S : f[x] \in Nat
  PROVE  SumOf(f, S) \in Nat
PROOF
  <1> DEFINE Wrong == {s \in SUBSET S : SumOf(f, s) \notin Nat}
             T == {Cardinality(s) : s \in Wrong}
  <1>0. \A s \in SUBSET S :
          IsFiniteSet(s) /\ Cardinality(s) \in Nat /\ Summable(f, s)
    BY FS_Subset, FS_CardinalityType DEF Summable
  <1>1. SUFFICES ASSUME Wrong # {} PROVE FALSE
    OBVIOUS
  <1>2. T # {} /\ T \subseteq Nat
    BY <1>0, <1>1
  <1>3. PICK n \in T : \A m \in T : n <= m
    <2> HIDE DEF T
    <2> QED BY <1>2, SmallestNat
  <1>4. PICK s \in Wrong : n = Cardinality(s)
    BY <1>3
  <1>5. s # {}
    BY <1>4, SumEmpty
  <1>6. Pick(s) \in s /\ Cardinality(s) \in Nat
        /\ Cardinality(s \ {Pick(s)}) = Cardinality(s) - 1
    BY <1>0, <1>4, <1>5, PickRemoves
  <1>7. s \ {Pick(s)} \in SUBSET S /\ s \ {Pick(s)} \notin Wrong
    BY <1>3, <1>4, <1>6
  <1>8. SumOf(f, s \ {Pick(s)}) \in Nat /\ f[Pick(s)] \in Nat
    BY <1>4, <1>6, <1>7
  <1>9. SumOf(f, s) = f[Pick(s)] + SumOf(f, s \ {Pick(s)})
    BY <1>0, <1>4, <1>5, SumPick
  <1> QED BY <1>4, <1>8, <1>9

(* The sum over two disjoint sets. *)
LEMMA SumDisjoint ==
  ASSUME NEW f, NEW A, NEW B, Summable(f, A), Summable(f, B), A \cap B = {}
  PROVE  SumOf(f, A \cup B) = SumOf(f, A) + SumOf(f, B)
PROOF
  <1> DEFINE Wrong == {s \in SUBSET B : SumOf(f, A \cup s) # SumOf(f, A) + SumOf(f, s)}
             T == {Cardinality(s) : s \in Wrong}
  <1>0. \A s \in SUBSET B :
          /\ IsFiniteSet(s) /\ Cardinality(s) \in Nat
          /\ Summable(f, s) /\ Summable(f, A \cup s)
    BY FS_Subset, FS_CardinalityType, FS_Union DEF Summable
  <1>1. SUFFICES ASSUME Wrong # {} PROVE FALSE
    OBVIOUS
  <1>2. T # {} /\ T \subseteq Nat
    BY <1>0, <1>1
  <1>3. PICK n \in T : \A m \in T : n <= m
    <2> HIDE DEF T
    <2> QED BY <1>2, SmallestNat
  <1>4. PICK s \in Wrong : n = Cardinality(s)
    BY <1>3
  <1>5. s # {}
    <2>1. SumOf(f, A) \in Int
      BY SumType
    <2>2. A \cup {} = A
      OBVIOUS
    <2> QED BY <1>4, <2>1, <2>2, SumEmpty
  <1> DEFINE c == Pick(s)
             r == s \ {c}
  <1>6. c \in s /\ Cardinality(s) \in Nat /\ Cardinality(r) = Cardinality(s) - 1
    BY <1>0, <1>4, <1>5, PickRemoves
  <1>7. r \in SUBSET B /\ r \notin Wrong
    <2>1. s \in SUBSET B
      BY <1>4
    <2>2. Cardinality(r) < n
      BY <1>4, <1>6
    <2>3. Cardinality(r) \notin T
      <3> HIDE DEF T, r, c, Wrong
      <3>1. SUFFICES ASSUME Cardinality(r) \in T PROVE FALSE
        OBVIOUS
      <3>2. Cardinality(r) \in Nat /\ n \in Nat
        BY <1>2, <1>3, <3>1
      <3>3. n <= Cardinality(r)
        BY <1>3, <3>1
      <3> QED BY <2>2, <3>2, <3>3
    <2> QED BY <2>1, <2>3
  <1>8. SumOf(f, A \cup r) = SumOf(f, A) + SumOf(f, r)
    BY <1>7
  <1>9. SumOf(f, s) = f[c] + SumOf(f, r)
    BY <1>0, <1>4, <1>5, SumPick
  <1>10. (A \cup s) \ {c} = A \cup r /\ c \in A \cup s
    BY <1>4, <1>6
  <1>11. SumOf(f, A \cup s) = f[c] + SumOf(f, A \cup r)
    <2>1. Summable(f, A \cup s)
      BY <1>0, <1>4
    <2> HIDE DEF c, r
    <2> QED BY <1>10, <2>1, SumRemove
  <1>12. SumOf(f, A) \in Int /\ SumOf(f, r) \in Int /\ f[c] \in Int
    BY <1>0, <1>4, <1>6, <1>7, SumType DEF Summable
  <1> QED
    <2> HIDE DEF c, r, Wrong, T
    <2>1. SumOf(f, A \cup s) = SumOf(f, A) + SumOf(f, s)
      BY <1>8, <1>9, <1>11, <1>12
    <2> QED BY <1>4, <2>1 DEF Wrong

(* A part sums up to no more than the whole, if no value is negative. *)
LEMMA SumMonotone ==
  ASSUME NEW f, NEW A, NEW B, IsFiniteSet(B), \A x \in B : f[x] \in Nat, A \subseteq B
  PROVE  SumOf(f, A) <= SumOf(f, B)
PROOF
  <1>1. /\ Summable(f, A) /\ Summable(f, B \ A)
        /\ A \cup (B \ A) = B /\ A \cap (B \ A) = {}
    BY FS_Subset DEF Summable
  <1>2. SumOf(f, B) = SumOf(f, A) + SumOf(f, B \ A)
    BY <1>1, SumDisjoint
  <1>3. SumOf(f, A) \in Nat /\ SumOf(f, B \ A) \in Nat
    BY <1>1, SumNat DEF Summable
  <1> QED BY <1>2, <1>3

(* Induction over the subsets of a finite set: there is no bad subset if   *)
(* the empty one is not bad and each bad one has a smaller one.            *)
LEMMA NoBadSubset ==
  ASSUME NEW S, IsFiniteSet(S), NEW Bad, Bad \subseteq SUBSET S, {} \notin Bad,
         \A s \in Bad : \E x \in s : s \ {x} \in Bad
  PROVE  Bad = {}
PROOF
  <1> DEFINE T == {Cardinality(s) : s \in Bad}
  <1>0. \A s \in SUBSET S : IsFiniteSet(s) /\ Cardinality(s) \in Nat
    BY FS_Subset, FS_CardinalityType
  <1>1. SUFFICES ASSUME Bad # {} PROVE FALSE
    OBVIOUS
  <1>2. T # {} /\ T \subseteq Nat
    BY <1>0, <1>1
  <1>3. PICK n \in T : \A m \in T : n <= m
    <2> HIDE DEF T
    <2> QED BY <1>2, SmallestNat
  <1>4. PICK s \in Bad : n = Cardinality(s)
    BY <1>3
  <1>5. PICK x \in s : s \ {x} \in Bad
    BY <1>4
  <1>6. Cardinality(s) \in Nat /\ Cardinality(s \ {x}) = Cardinality(s) - 1
    BY <1>0, <1>4, <1>5, FS_RemoveElement
  <1>7. Cardinality(s \ {x}) \in T
    BY <1>5
  <1>8. n <= Cardinality(s \ {x})
    <2> HIDE DEF T
    <2> QED BY <1>3, <1>7
  <1> QED BY <1>4, <1>6, <1>8

(* A bad natural number implies a bad one below it, so there is none. *)
LEMMA NoBadNat ==
  ASSUME NEW Bad, Bad \subseteq Nat, \A n \in Bad : \E m \in Bad : m < n
  PROVE  Bad = {}
PROOF
  <1>1. SUFFICES ASSUME Bad # {} PROVE FALSE
    OBVIOUS
  <1>2. PICK n \in Bad : \A m \in Bad : n <= m
    BY <1>1, SmallestNat
  <1>3. PICK m \in Bad : m < n
    BY <1>2
  <1>4. n \in Nat /\ m \in Nat /\ n <= m
    BY <1>2, <1>3
  <1> QED BY <1>3, <1>4

(* The sum of two functions. *)
LEMMA SumPlus ==
  ASSUME NEW f, NEW g, NEW h, NEW S, Summable(f, S), Summable(g, S),
         \A x \in S : h[x] = f[x] + g[x]
  PROVE  SumOf(h, S) = SumOf(f, S) + SumOf(g, S)
PROOF
  <1> DEFINE Bad == {s \in SUBSET S : SumOf(h, s) # SumOf(f, s) + SumOf(g, s)}
  <1>1. \A s \in SUBSET S :
          /\ Summable(f, s) /\ Summable(g, s) /\ Summable(h, s)
          /\ SumOf(f, s) \in Int /\ SumOf(g, s) \in Int
    <2> TAKE s \in SUBSET S
    <2>1. Summable(f, s) /\ Summable(g, s)
      BY SummableSubset
    <2>2. Summable(h, s)
      BY <2>1 DEF Summable
    <2> QED BY <2>1, <2>2, SumType
  <1>2. {} \notin Bad
    BY SumEmpty
  <1>3. ASSUME NEW s \in Bad
        PROVE  \E x \in s : s \ {x} \in Bad
    <2>1. s \in SUBSET S /\ s # {}
      BY <1>2
    <2>2. PICK x \in s : TRUE
      BY <2>1
    <2> DEFINE r == s \ {x}
    <2>3. r \in SUBSET S
      BY <2>1
    <2>4. /\ SumOf(f, s) = f[x] + SumOf(f, r)
          /\ SumOf(g, s) = g[x] + SumOf(g, r)
          /\ SumOf(h, s) = h[x] + SumOf(h, r)
      BY <1>1, <2>1, SumRemove
    <2>5. f[x] \in Int /\ g[x] \in Int /\ h[x] = f[x] + g[x]
      BY <2>1 DEF Summable
    <2>6. SumOf(h, r) # SumOf(f, r) + SumOf(g, r)
      <3>1. SUFFICES ASSUME SumOf(h, r) = SumOf(f, r) + SumOf(g, r) PROVE FALSE
        OBVIOUS
      <3>2. SumOf(f, r) \in Int /\ SumOf(g, r) \in Int
        BY <1>1, <2>3
      <3>3. SumOf(h, s) # SumOf(f, s) + SumOf(g, s)
        OBVIOUS
      <3> HIDE DEF r, Bad
      <3> QED BY <3>1, <3>2, <3>3, <2>4, <2>5
    <2> QED BY <2>3, <2>6
  <1>4. Bad = {}
    <2>1. Bad \subseteq SUBSET S /\ IsFiniteSet(S)
      BY DEF Summable
    <2> HIDE DEF Bad
    <2> QED BY <1>2, <1>3, <2>1, NoBadSubset
  <1> QED BY <1>4

(* Nothing sums up to nothing. *)
LEMMA SumZero ==
  ASSUME NEW f, NEW S, IsFiniteSet(S), \A x \in S : f[x] = 0
  PROVE  SumOf(f, S) = 0
PROOF
  <1>1. Summable(f, S)
    BY DEF Summable
  <1>2. SumOf(f, S) \in Int
    BY <1>1, SumType
  <1>3. \A x \in S : f[x] = f[x] + f[x]
    OBVIOUS
  <1>4. SumOf(f, S) = SumOf(f, S) + SumOf(f, S)
    BY <1>1, <1>3, SumPlus
  <1>5. \A a \in Int : a = a + a => a = 0
    OBVIOUS
  <1> QED BY <1>2, <1>4, <1>5

(* g is f on U and 0 elsewhere. *)
ZeroOutside(f, g, S, U) ==
  /\ U \subseteq S /\ Summable(f, U) /\ IsFiniteSet(S)
  /\ \A x \in U : g[x] = f[x]
  /\ \A x \in S \ U : g[x] = 0

(* The sum over a part is the sum of what is 0 elsewhere. *)
LEMMA SumFilter ==
  ASSUME NEW f, NEW g, NEW S, NEW U, ZeroOutside(f, g, S, U)
  PROVE  SumOf(f, U) = SumOf(g, S)
PROOF
  <1>0. /\ U \subseteq S /\ Summable(f, U) /\ IsFiniteSet(S)
        /\ \A x \in U : g[x] = f[x]
        /\ \A x \in S \ U : g[x] = 0
    BY DEF ZeroOutside
  <1>1. IsFiniteSet(S \ U)
    BY <1>0, FS_Subset
  <1>2. SumOf(g, S \ U) = 0
    BY <1>0, <1>1, SumZero
  <1>3. SumOf(f, U) = SumOf(g, U)
    BY <1>0, SumEqual
  <1>4. Summable(g, U) /\ Summable(g, S \ U)
    BY <1>0, <1>1 DEF Summable
  <1>5. SumOf(g, U \cup (S \ U)) = SumOf(g, U) + SumOf(g, S \ U)
    BY <1>4, SumDisjoint
  <1>6. U \cup (S \ U) = S
    BY <1>0
  <1>7. SumOf(g, U) \in Int
    BY <1>4, SumType
  <1>8. SumOf(g, S) = SumOf(g, U) + 0
    BY <1>2, <1>5, <1>6, Zenon
  <1>9. \A a \in Int : a + 0 = a
    OBVIOUS
  <1> QED BY <1>3, <1>7, <1>8, <1>9

(* f and g differ at most at x. *)
ChangedAt(f, g, S, x) ==
  /\ x \in S /\ Summable(f, S) /\ Summable(g, S)
  /\ \A y \in S : y # x => g[y] = f[y]

(* The change of one value is the change of the sum. *)
LEMMA SumChange ==
  ASSUME NEW f, NEW g, NEW S, NEW x, ChangedAt(f, g, S, x)
  PROVE  /\ SumOf(f, S) \in Int /\ SumOf(g, S) \in Int
         /\ SumOf(g, S) = SumOf(f, S) - f[x] + g[x]
PROOF
  <1>1. x \in S /\ Summable(f, S) /\ Summable(g, S) /\ g[x] \in Int
    BY DEF ChangedAt, Summable
  <1>2. \A y \in S : y # x => g[y] = f[y]
    BY DEF ChangedAt
  <1> QED BY <1>1, <1>2, SumUpdate, SumType

(* h[r] is the sum of f over the part r of S: k[x] is the part of x. *)
PartSums(f, S, k, R, h) ==
  /\ Summable(f, S) /\ IsFiniteSet(R)
  /\ \A x \in S : k[x] \in R
  /\ \A r \in R : h[r] = SumOf(f, {x \in S : k[x] = r})

(* The sum over a set is the sum of the sums over its parts. *)
LEMMA SumParts ==
  ASSUME NEW f, NEW S, NEW R, NEW k, NEW h, PartSums(f, S, k, R, h)
  PROVE  SumOf(h, R) = SumOf(f, S)
PROOF
  <1>0. /\ Summable(f, S) /\ IsFiniteSet(R)
        /\ \A x \in S : k[x] \in R
        /\ \A r \in R : h[r] = SumOf(f, {x \in S : k[x] = r})
    BY DEF PartSums
  <1> DEFINE Part(s) == [r \in R |-> SumOf(f, {x \in s : k[x] = r})]
             Bad == {s \in SUBSET S : SumOf(Part(s), R) # SumOf(f, s)}
  <1>1. \A s \in SUBSET S : Summable(f, s) /\ SumOf(f, s) \in Int
    BY <1>0, SummableSubset, SumType
  <1>2. \A s \in SUBSET S : Summable(Part(s), R)
    <2> SUFFICES ASSUME NEW s \in SUBSET S, NEW r \in R
                 PROVE  Part(s)[r] \in Int
      BY <1>0 DEF Summable
    <2>1. {x \in s : k[x] = r} \in SUBSET S
      OBVIOUS
    <2> QED BY <1>1, <2>1
  <1>3. {} \notin Bad
    <2>1. \A r \in R : {x \in {} : k[x] = r} = {}
      OBVIOUS
    <2>2. \A r \in R : Part({})[r] = 0
      BY <2>1, SumEmpty
    <2> HIDE DEF Part
    <2> QED BY <1>0, <2>2, SumZero, SumEmpty
  <1>4. ASSUME NEW s \in Bad
        PROVE  \E x \in s : s \ {x} \in Bad
    <2>1. s \in SUBSET S /\ s # {} /\ SumOf(Part(s), R) # SumOf(f, s)
      BY <1>3
    <2>2. PICK x \in s : TRUE
      BY <2>1
    <2> DEFINE u == s \ {x}
    <2>3. u \in SUBSET S /\ k[x] \in R /\ f[x] \in Int
      BY <1>0, <2>1 DEF Summable
    <2>4. SumOf(f, s) = f[x] + SumOf(f, u)
      BY <1>1, <2>1, SumRemove
    <2>5. Part(s)[k[x]] = f[x] + Part(u)[k[x]]
      <3> DEFINE A == {y \in s : k[y] = k[x]}
      <3>1. x \in A /\ A \ {x} = {y \in u : k[y] = k[x]} /\ A \in SUBSET S
        BY <2>1, <2>2
      <3>2. SumOf(f, A) = f[x] + SumOf(f, A \ {x})
        <4> HIDE DEF A
        <4> QED BY <1>1, <3>1, SumRemove
      <3> QED BY <2>3, <3>1, <3>2
    <2>6. \A r \in R : r # k[x] => Part(s)[r] = Part(u)[r]
      <3> TAKE r \in R
      <3> HAVE r # k[x]
      <3>1. {y \in s : k[y] = r} = {y \in u : k[y] = r}
        OBVIOUS
      <3> QED BY <3>1
    <2>7. Summable(Part(u), R) /\ Part(s)[k[x]] \in Int /\ Part(u)[k[x]] \in Int
      BY <1>2, <2>1, <2>3 DEF Summable
    <2>8. SumOf(Part(s), R) = SumOf(Part(u), R) - Part(u)[k[x]] + Part(s)[k[x]]
      <3>1. Summable(Part(s), R)
        BY <1>2, <2>1
      <3> HIDE DEF Part, u
      <3>2. ChangedAt(Part(u), Part(s), R, k[x])
        BY <2>3, <2>6, <2>7, <3>1 DEF ChangedAt
      <3> QED BY <3>2, SumChange
    <2>9. SumOf(Part(u), R) \in Int /\ SumOf(f, u) \in Int
      <3> HIDE DEF Part, u
      <3> QED BY <1>1, <2>3, <2>7, SumType
    <2>10. SumOf(Part(u), R) # SumOf(f, u)
      <3> HIDE DEF Part, u, Bad
      <3> QED BY <2>1, <2>3, <2>4, <2>5, <2>7, <2>8, <2>9
    <2> QED BY <2>3, <2>10
  <1>5. Bad = {}
    <2>1. Bad \subseteq SUBSET S /\ IsFiniteSet(S)
      BY <1>0 DEF Summable
    <2> HIDE DEF Bad
    <2> QED BY <1>3, <1>4, <2>1, NoBadSubset
  <1>6. SumOf(Part(S), R) = SumOf(f, S)
    BY <1>5
  <1>7. SumOf(Part(S), R) = SumOf(h, R)
    <2>1. \A r \in R : Part(S)[r] = h[r]
      BY <1>0
    <2> HIDE DEF Part
    <2> QED BY <1>2, <2>1, SumEqual
  <1> QED BY <1>6, <1>7
=============================================================================
