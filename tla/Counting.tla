------------------------------ MODULE Counting -------------------------------
(***************************************************************************)
(* Facts about finite sets, and about sums over them, that the proofs of   *)
(* several components rest on.                                             *)
(*                                                                         *)
(* Sums are defined by recursion, and facts about them need induction.     *)
(* The library's theorems take the predicate to prove as an operator,      *)
(* which no prover here can instantiate; Inductive and SetInductive take   *)
(* it as a set instead: of the numbers, or the subsets, that have it.      *)
(***************************************************************************)
EXTENDS Integers, Sequences, FiniteSetTheorems, TLAPS

(* One more and one less. *)
LEMMA Count ==
  ASSUME NEW S, NEW x, IsFiniteSet(S)
  PROVE  /\ Cardinality(S \cup {x}) = Cardinality(S) + (IF x \in S THEN 0 ELSE 1)
         /\ Cardinality(S \ {x}) = Cardinality(S) - (IF x \in S THEN 1 ELSE 0)
<1>1. Cardinality(S) \in Nat
  BY FS_CardinalityType
<1>2. Cardinality(S \cup {x}) = IF x \in S THEN Cardinality(S) ELSE Cardinality(S) + 1
  BY FS_AddElement
<1>3. Cardinality(S \ {x}) = IF x \in S THEN Cardinality(S) - 1 ELSE Cardinality(S)
  BY FS_RemoveElement
<1>. QED  BY <1>1, <1>2, <1>3

(* What has a member is not empty. *)
LEMMA Inhabited ==
  ASSUME NEW S, IsFiniteSet(S), NEW x \in S
  PROVE  Cardinality(S) \in Nat /\ Cardinality(S) > 0
<1>1. Cardinality(S) \in Nat /\ Cardinality(S) # 0
  BY FS_CardinalityType, FS_EmptySet
<1>. QED  BY <1>1

-----------------------------------------------------------------------------
Less == {pair \in Nat \X Nat : pair[1] < pair[2]}

(* Induction, with a set for the predicate. *)
LEMMA Inductive ==
  ASSUME NEW S \in SUBSET Nat, 0 \in S, \A n \in S : n + 1 \in S
  PROVE  S = Nat
<1>. SUFFICES ASSUME S # Nat  PROVE FALSE
  OBVIOUS
<1>0. IsWellFoundedOn(Less, Nat)
  BY NatLessThanWellFounded DEF OpToRel, Less
<1>1. PICK x \in Nat \ S : \A y \in Nat \ S : <<y, x>> \notin Less
  <2>. DEFINE T == Nat \ S
  <2>1. T \subseteq Nat /\ T # {}
    OBVIOUS
  <2>. HIDE DEF T
  <2>2. \E x \in T : \A y \in T : <<y, x>> \notin Less
    BY <1>0, <2>1, WFMin
  <2>. QED  BY <2>2 DEF T
<1>2. x # 0 /\ x - 1 \in Nat /\ x - 1 < x
  OBVIOUS
<1>3. <<x - 1, x>> \in Less
  BY <1>2 DEF Less
<1>4. x - 1 \in S
  BY <1>1, <1>2, <1>3
<1>. QED  BY <1>2, <1>4

(* Induction on a finite set, with a set of subsets for the predicate. *)
LEMMA SetInductive ==
  ASSUME NEW S, IsFiniteSet(S), NEW P \in SUBSET SUBSET S, {} \in P,
         \A T \in P : \A x \in S \ T : T \cup {x} \in P
  PROVE  S \in P
<1>. DEFINE N == {n \in Nat : \A T \in SUBSET S : Cardinality(T) = n => T \in P}
<1>1. 0 \in N
  <2>. SUFFICES ASSUME NEW T \in SUBSET S, Cardinality(T) = 0  PROVE T \in P
    OBVIOUS
  <2>1. IsFiniteSet(T)
    BY FS_Subset
  <2>2. T = {}
    BY <2>1, FS_EmptySet
  <2>. QED  BY <2>2
<1>2. ASSUME NEW n \in N  PROVE n + 1 \in N
  <2>. SUFFICES ASSUME NEW T \in SUBSET S, Cardinality(T) = n + 1  PROVE T \in P
    OBVIOUS
  <2>1. IsFiniteSet(T) /\ n \in Nat
    BY FS_Subset
  <2>2. PICK x \in T : TRUE
    <3>1. T # {}
      BY <2>1, FS_EmptySet
    <3>. QED  BY <3>1
  <2>3. Cardinality(T \ {x}) = (n + 1) - 1
    BY <2>1, <2>2, FS_RemoveElement
  <2>4. T \ {x} \in P 
    BY <2>3
  <2>5. (T \ {x}) \cup {x} = T
    OBVIOUS
  <2>6. x \in S \ (T \ {x})
    OBVIOUS
  <2>. HIDE DEF N
  <2>. QED  BY <2>4, <2>5, <2>6
<1>3. N \in SUBSET Nat
  OBVIOUS
<1>4. N = Nat
  <2>. HIDE DEF N
  <2>. QED  BY <1>1, <1>2, <1>3, Inductive
<1>. QED  BY <1>4, FS_CardinalityType

First(s) == CHOOSE x \in s : TRUE
Adds(h, f, D) ==
  h = [s \in SUBSET D |-> IF s = {} THEN 0 ELSE f[First(s)] + h[s \ {First(s)}]]

(* The sum of the community modules is the value of a recursive function   *)
(* on the subsets.                                                         *)
LEMMA SumIs ==
  ASSUME NEW f, NEW D
  PROVE  SumFunctionOnSet(f, D) = (CHOOSE h : Adds(h, f, D))[D]
BY DEF SumFunctionOnSet, FoldFunctionOnSet, MapThenFoldSet, Adds, First

(* One member less. *)
LEMMA OneLess ==
  ASSUME NEW D, IsFiniteSet(D), D # {}
  PROVE  /\ First(D) \in D /\ IsFiniteSet(D \ {First(D)})
         /\ Cardinality(D) \in Nat /\ Cardinality(D \ {First(D)}) \in Nat
         /\ Cardinality(D) = Cardinality(D \ {First(D)}) + 1
<1>1. First(D) \in D
  BY DEF First
<1>. QED  BY <1>1, FS_RemoveElement, FS_CardinalityType

(* The recursive function exists, on a finite set. *)
LEMMA SumDefined ==
  ASSUME NEW f, NEW D, IsFiniteSet(D)
  PROVE  \E h : Adds(h, f, D)
<1>. DEFINE Upto(h, n) ==
       \A s \in SUBSET D : Cardinality(s) <= n =>
         h[s] = IF s = {} THEN 0 ELSE f[First(s)] + h[s \ {First(s)}]
            N == {n \in Nat : \E h : Upto(h, n)}
<1>0. \A s \in SUBSET D : IsFiniteSet(s) /\ Cardinality(s) \in Nat
  BY FS_Subset, FS_CardinalityType
<1>1. 0 \in N
  <2>. DEFINE h == [s \in SUBSET D |-> 0]
  <2>1. \A s \in SUBSET D : Cardinality(s) <= 0 => s = {}
    BY <1>0, FS_EmptySet
  <2>2. Upto(h, 0)
    BY <2>1
  <2>. QED  BY <2>2
<1>2. ASSUME NEW n \in N  PROVE n + 1 \in N
  <2>0. n \in Nat
    OBVIOUS
  <2>1. PICK h : Upto(h, n)
    OBVIOUS
  <2>. DEFINE g == [s \in SUBSET D |-> IF Cardinality(s) <= n THEN h[s]
                                       ELSE f[First(s)] + h[s \ {First(s)}]]
  <2>2. ASSUME NEW s \in SUBSET D, Cardinality(s) <= n + 1
        PROVE  g[s] = IF s = {} THEN 0 ELSE f[First(s)] + g[s \ {First(s)}]
    <3>1. CASE s = {}
      <4>1. Cardinality(s) = 0
        BY <3>1, FS_EmptySet
      <4>. QED  BY <2>0, <2>1, <3>1, <4>1
    <3>2. CASE s # {}
      <4>1. /\ s \ {First(s)} \in SUBSET D /\ Cardinality(s \ {First(s)}) <= n
            /\ Cardinality(s) \in Nat
        BY <1>0, <2>0, <2>2, <3>2, OneLess
      <4>2. g[s \ {First(s)}] = h[s \ {First(s)}]
        BY <4>1
      <4>3. CASE Cardinality(s) <= n
        BY <2>1, <3>2, <4>2, <4>3
      <4>4. CASE ~ (Cardinality(s) <= n)
        BY <3>2, <4>2, <4>4
      <4>. QED  BY <4>3, <4>4
    <3>. QED  BY <3>1, <3>2
  <2>3. Upto(g, n + 1)
    <3>. HIDE DEF g
    <3>. QED  BY <2>2
  <2>4. \E w : Upto(w, n + 1)
    <3>. HIDE DEF g, Upto
    <3>. QED  BY <2>3
  <2>5. n + 1 \in Nat
    BY <2>0
  <2>. HIDE DEF Upto
  <2>. QED  BY <2>4, <2>5
<1>3. N = Nat
  <2>1. N \in SUBSET Nat
    OBVIOUS
  <2>. HIDE DEF N
  <2>. QED  BY <1>1, <1>2, <2>1, Inductive
<1>4. Cardinality(D) \in N
  BY <1>3, FS_CardinalityType
<1>5. PICK h : Upto(h, Cardinality(D))
  BY <1>4
<1>. DEFINE g == [s \in SUBSET D |-> h[s]]
<1>6. \A s \in SUBSET D : g[s] = IF s = {} THEN 0 ELSE f[First(s)] + g[s \ {First(s)}]
  <2>. SUFFICES ASSUME NEW s \in SUBSET D
                PROVE  g[s] = IF s = {} THEN 0 ELSE f[First(s)] + g[s \ {First(s)}]
    OBVIOUS
  <2>1. Cardinality(s) <= Cardinality(D)
    BY FS_Subset
  <2>2. s \ {First(s)} \in SUBSET D
    OBVIOUS
  <2>. QED  BY <1>5, <2>1, <2>2
<1>7. Adds(g, f, D)
  <2>1. g = [s \in SUBSET D |-> g[s]]
    OBVIOUS
  <2>. HIDE DEF g
  <2>. QED  BY <1>6, <2>1 DEF Adds
<1>. QED  BY <1>7

(* Its values. *)
LEMMA AddsAt ==
  ASSUME NEW f, NEW D, NEW h, Adds(h, f, D), NEW s \in SUBSET D
  PROVE  h[s] = IF s = {} THEN 0 ELSE f[First(s)] + h[s \ {First(s)}]
BY DEF Adds

(* It has the same values on subsets, whatever set it was defined for.     *)
LEMMA SumUnique ==
  ASSUME NEW f, NEW D, NEW E \in SUBSET D, IsFiniteSet(D),
         NEW h, Adds(h, f, D), NEW g, Adds(g, f, E)
  PROVE  h[E] = g[E]
<1>. DEFINE N == {n \in Nat : \A s \in SUBSET E : Cardinality(s) = n => h[s] = g[s]}
<1>0. \A s \in SUBSET E : s \in SUBSET D /\ IsFiniteSet(s) /\ Cardinality(s) \in Nat
  BY FS_Subset, FS_CardinalityType
<1>1. 0 \in N
  <2>1. \A s \in SUBSET E : Cardinality(s) = 0 => s = {}
    BY <1>0, FS_EmptySet
  <2>2. h[{}] = 0 /\ g[{}] = 0
    BY AddsAt
  <2>. QED  BY <2>1, <2>2
<1>2. ASSUME NEW n \in N  PROVE n + 1 \in N
  <2>0. n \in Nat /\ \A s \in SUBSET E : Cardinality(s) = n => h[s] = g[s]
    OBVIOUS
  <2>1. ASSUME NEW s \in SUBSET E, Cardinality(s) = n + 1  PROVE h[s] = g[s]
    <3>1. s # {}
      BY <2>0, <2>1, FS_EmptySet
    <3>2. s \ {First(s)} \in SUBSET E /\ Cardinality(s \ {First(s)}) = n
      BY <1>0, <2>0, <2>1, <3>1, OneLess
    <3>3. h[s \ {First(s)}] = g[s \ {First(s)}]
      BY <2>0, <3>2
    <3>4. h[s] = f[First(s)] + h[s \ {First(s)}]
      BY <1>0, <3>1, AddsAt
    <3>5. g[s] = f[First(s)] + g[s \ {First(s)}]
      BY <3>1, AddsAt
    <3>. QED  BY <3>3, <3>4, <3>5
  <2>. QED  BY <2>0, <2>1
<1>3. N = Nat
  <2>1. N \in SUBSET Nat
    OBVIOUS
  <2>. HIDE DEF N
  <2>. QED  BY <1>1, <1>2, <2>1, Inductive
<1>4. Cardinality(E) \in N
  BY <1>0, <1>3
<1>. QED  BY <1>4

(* Hence the sum is what its recursive definition says. *)
LEMMA SumRecursive ==
  ASSUME NEW f, NEW D, IsFiniteSet(D)
  PROVE  SumFunctionOnSet(f, D) =
           IF D = {} THEN 0 ELSE f[First(D)] + SumFunctionOnSet(f, D \ {First(D)})
<1>. DEFINE H(E) == CHOOSE h : Adds(h, f, E)
<1>1. Adds(H(D), f, D)
  BY SumDefined
<1>2. H(D)[D] = IF D = {} THEN 0 ELSE f[First(D)] + H(D)[D \ {First(D)}]
  <2>. HIDE DEF H
  <2>. QED  BY <1>1, AddsAt
<1>3. ASSUME D # {}
      PROVE  H(D)[D \ {First(D)}] = SumFunctionOnSet(f, D \ {First(D)})
  <2>. DEFINE E == D \ {First(D)}
  <2>1. IsFiniteSet(E) /\ E \in SUBSET D
    BY <1>3, OneLess
  <2>2. Adds(H(E), f, E)
    BY <2>1, SumDefined
  <2>3. SumFunctionOnSet(f, E) = H(E)[E]
    BY SumIs
  <2>4. H(D)[E] = H(E)[E]
    <3>. HIDE DEF H, E
    <3>. QED  BY <1>1, <2>1, <2>2, SumUnique
  <2>. QED  BY <2>3, <2>4
<1>4. SumFunctionOnSet(f, D) = H(D)[D]
  BY SumIs
<1>. HIDE DEF H
<1>. QED  BY <1>2, <1>3, <1>4

(* A sum over nothing. *)
LEMMA SumEmpty == \A f : SumFunctionOnSet(f, {}) = 0
<1>. QED  BY SumRecursive, FS_EmptySet

(* A sum of integers is an integer. *)
LEMMA SumType ==
  ASSUME NEW D, IsFiniteSet(D), NEW f, \A x \in D : f[x] \in Int
  PROVE  SumFunctionOnSet(f, D) \in Int
<1>. DEFINE N == {n \in Nat : \A E \in SUBSET D :
                    Cardinality(E) = n => SumFunctionOnSet(f, E) \in Int}
<1>0. \A E \in SUBSET D : IsFiniteSet(E) /\ Cardinality(E) \in Nat
  BY FS_Subset, FS_CardinalityType
<1>1. 0 \in N
  <2>1. \A E \in SUBSET D : Cardinality(E) = 0 => E = {}
    BY <1>0, FS_EmptySet
  <2>. QED  BY <2>1, SumEmpty
<1>2. ASSUME NEW n \in N  PROVE n + 1 \in N
  <2>0. n \in Nat /\ \A E \in SUBSET D : Cardinality(E) = n => SumFunctionOnSet(f, E) \in Int
    OBVIOUS
  <2>1. ASSUME NEW E \in SUBSET D, Cardinality(E) = n + 1
        PROVE  SumFunctionOnSet(f, E) \in Int
    <3>1. E # {}
      BY <2>0, <2>1, FS_EmptySet
    <3>2. First(E) \in E /\ Cardinality(E \ {First(E)}) = n
      BY <1>0, <2>0, <2>1, <3>1, OneLess
    <3>3. SumFunctionOnSet(f, E) = f[First(E)] + SumFunctionOnSet(f, E \ {First(E)})
      BY <1>0, <3>1, SumRecursive
    <3>. QED  BY <2>0, <3>2, <3>3
  <2>. QED  BY <2>0, <2>1
<1>3. N = Nat
  <2>1. N \in SUBSET Nat
    OBVIOUS
  <2>. HIDE DEF N
  <2>. QED  BY <1>1, <1>2, <2>1, Inductive
<1>. QED  BY <1>0, <1>3

(* Any member may be taken out first. *)
LEMMA SumTaken ==
  ASSUME NEW D, IsFiniteSet(D), NEW f, \A x \in D : f[x] \in Int, NEW x \in D
  PROVE  SumFunctionOnSet(f, D) = f[x] + SumFunctionOnSet(f, D \ {x})
<1>. DEFINE N == {n \in Nat : \A E \in SUBSET D : Cardinality(E) = n =>
                    \A e \in E : SumFunctionOnSet(f, E) = f[e] + SumFunctionOnSet(f, E \ {e})}
<1>0. \A E \in SUBSET D : IsFiniteSet(E) /\ Cardinality(E) \in Nat
  BY FS_Subset, FS_CardinalityType
<1>00. \A E \in SUBSET D : SumFunctionOnSet(f, E) \in Int
  BY <1>0, SumType
<1>1. 0 \in N
  <2>1. \A E \in SUBSET D : Cardinality(E) = 0 => E = {}
    BY <1>0, FS_EmptySet
  <2>. QED  BY <2>1
<1>2. ASSUME NEW n \in N  PROVE n + 1 \in N
  <2>0. n \in Nat /\ \A E \in SUBSET D : Cardinality(E) = n =>
          \A e \in E : SumFunctionOnSet(f, E) = f[e] + SumFunctionOnSet(f, E \ {e})
    OBVIOUS
  <2>1. ASSUME NEW E \in SUBSET D, Cardinality(E) = n + 1, NEW e \in E
        PROVE  SumFunctionOnSet(f, E) = f[e] + SumFunctionOnSet(f, E \ {e})
    <3>. DEFINE a == First(E)  F == E \ {a}  G == E \ {e}
    <3>1. a \in E /\ Cardinality(F) = n
      BY <1>0, <2>0, <2>1, OneLess
    <3>2. SumFunctionOnSet(f, E) = f[a] + SumFunctionOnSet(f, F)
      BY <1>0, SumRecursive
    <3>3. CASE e = a
      BY <3>2, <3>3
    <3>4. CASE e # a
      <4>1. Cardinality(G) = n
        BY <1>0, <2>0, <2>1, FS_RemoveElement
      <4>2. SumFunctionOnSet(f, F) = f[e] + SumFunctionOnSet(f, F \ {e})
        BY <2>0, <3>1, <3>4
      <4>3. SumFunctionOnSet(f, G) = f[a] + SumFunctionOnSet(f, G \ {a})
        BY <2>0, <3>1, <3>4, <4>1
      <4>4. F \ {e} = G \ {a}
        OBVIOUS
      <4>5. f[a] \in Int /\ f[e] \in Int /\ SumFunctionOnSet(f, F \ {e}) \in Int
             /\ SumFunctionOnSet(f, F) \in Int /\ SumFunctionOnSet(f, G) \in Int
        BY <1>00, <3>1
      <4>6. SumFunctionOnSet(f, E) = f[e] + SumFunctionOnSet(f, G)
        <5>. HIDE DEF a, F, G
        <5>. QED  BY <3>2, <4>2, <4>3, <4>4, <4>5
      <4>. QED  BY <4>6
    <3>. QED  BY <3>3, <3>4
  <2>. QED  BY <2>0, <2>1
<1>3. N = Nat
  <2>1. N \in SUBSET Nat
    OBVIOUS
  <2>. HIDE DEF N
  <2>. QED  BY <1>1, <1>2, <2>1, Inductive
<1>. QED  BY <1>0, <1>3

(* One more member. *)
LEMMA SumAdded ==
  ASSUME NEW D, IsFiniteSet(D), NEW x, x \notin D,
         NEW f, \A y \in D \cup {x} : f[y] \in Int
  PROVE  SumFunctionOnSet(f, D \cup {x}) = f[x] + SumFunctionOnSet(f, D)
<1>1. IsFiniteSet(D \cup {x})
  BY FS_AddElement
<1>2. (D \cup {x}) \ {x} = D
  OBVIOUS
<1>. QED  BY <1>1, <1>2, SumTaken

(* A sum of natural numbers is a natural number. *)
LEMMA SumNat ==
  ASSUME NEW D, IsFiniteSet(D), NEW f, \A x \in D : f[x] \in Nat
  PROVE  SumFunctionOnSet(f, D) \in Nat
<1>. DEFINE P == {E \in SUBSET D : SumFunctionOnSet(f, E) \in Nat}
<1>1. {} \in P
  BY SumEmpty
<1>2. ASSUME NEW E \in P, NEW x \in D \ E  PROVE E \cup {x} \in P
  <2>1. IsFiniteSet(E) /\ x \notin E /\ \A y \in E \cup {x} : f[y] \in Int
    BY FS_Subset
  <2>2. SumFunctionOnSet(f, E \cup {x}) = f[x] + SumFunctionOnSet(f, E)
    BY <2>1, SumAdded
  <2>. QED  BY <2>2
<1>3. P \in SUBSET SUBSET D
  OBVIOUS
<1>4. D \in P
  <2>. HIDE DEF P
  <2>. QED  BY <1>1, <1>2, <1>3, SetInductive
<1>. QED  BY <1>4

(* Sums are linear. *)
LEMMA SumLinear ==
  ASSUME NEW D, IsFiniteSet(D), NEW f, NEW g, NEW h, NEW k,
         \A x \in D : /\ f[x] \in Int /\ g[x] \in Int /\ h[x] \in Int
                      /\ k[x] = f[x] + g[x] - h[x]
  PROVE  SumFunctionOnSet(k, D) =
           SumFunctionOnSet(f, D) + SumFunctionOnSet(g, D) - SumFunctionOnSet(h, D)
<1>. DEFINE P == {E \in SUBSET D : SumFunctionOnSet(k, E) =
              SumFunctionOnSet(f, E) + SumFunctionOnSet(g, E) - SumFunctionOnSet(h, E)}
<1>0. \A E \in SUBSET D : IsFiniteSet(E)
  BY FS_Subset
<1>1. {} \in P
  BY SumEmpty
<1>2. ASSUME NEW E \in P, NEW x \in D \ E  PROVE E \cup {x} \in P
  <2>0. IsFiniteSet(E)
    BY <1>0
  <2>1. k[x] \in Int /\ \A y \in E : k[y] \in Int
    OBVIOUS
  <2>2. /\ SumFunctionOnSet(k, E \cup {x}) = k[x] + SumFunctionOnSet(k, E)
        /\ SumFunctionOnSet(f, E \cup {x}) = f[x] + SumFunctionOnSet(f, E)
        /\ SumFunctionOnSet(g, E \cup {x}) = g[x] + SumFunctionOnSet(g, E)
        /\ SumFunctionOnSet(h, E \cup {x}) = h[x] + SumFunctionOnSet(h, E)
    <3>1. SumFunctionOnSet(k, E \cup {x}) = k[x] + SumFunctionOnSet(k, E)
      BY <2>0, <2>1, SumAdded
    <3>2. SumFunctionOnSet(f, E \cup {x}) = f[x] + SumFunctionOnSet(f, E)
      BY <2>0, SumAdded
    <3>3. SumFunctionOnSet(g, E \cup {x}) = g[x] + SumFunctionOnSet(g, E)
      BY <2>0, SumAdded
    <3>4. SumFunctionOnSet(h, E \cup {x}) = h[x] + SumFunctionOnSet(h, E)
      BY <2>0, SumAdded
    <3>. QED  BY <3>1, <3>2, <3>3, <3>4
  <2>3. /\ SumFunctionOnSet(k, E) \in Int /\ SumFunctionOnSet(f, E) \in Int
        /\ SumFunctionOnSet(g, E) \in Int /\ SumFunctionOnSet(h, E) \in Int
    BY <2>0, <2>1, SumType
  <2>4. /\ k[x] = f[x] + g[x] - h[x] /\ f[x] \in Int /\ g[x] \in Int /\ h[x] \in Int
        /\ SumFunctionOnSet(k, E) =
             SumFunctionOnSet(f, E) + SumFunctionOnSet(g, E) - SumFunctionOnSet(h, E)
    OBVIOUS
  <2>. QED  BY <2>2, <2>3, <2>4
<1>3. P \in SUBSET SUBSET D
  OBVIOUS
<1>4. D \in P
  <2>. HIDE DEF P
  <2>. QED  BY <1>1, <1>2, <1>3, SetInductive
<1>. QED  BY <1>4

(* A sum of zeros. *)
LEMMA SumZero ==
  ASSUME NEW D, IsFiniteSet(D), NEW f, \A x \in D : f[x] = 0
  PROVE  SumFunctionOnSet(f, D) = 0
<1>. DEFINE P == {E \in SUBSET D : SumFunctionOnSet(f, E) = 0}
<1>2. {} \in P
  BY SumEmpty
<1>3. ASSUME NEW E \in P, NEW x \in D \ E  PROVE E \cup {x} \in P
  <2>1. SumFunctionOnSet(f, E \cup {x}) = f[x] + SumFunctionOnSet(f, E)
    <3>1. IsFiniteSet(E)
      BY FS_Subset
    <3>2. x \notin E /\ \A y \in E \cup {x} : f[y] \in Int
      OBVIOUS
    <3>. QED  BY <3>1, <3>2, SumAdded
  <2>. QED  BY <2>1
<1>4. P \in SUBSET SUBSET D
  OBVIOUS
<1>5. D \in P
  <2>. HIDE DEF P
  <2>. QED  BY <1>2, <1>3, <1>4, SetInductive
<1>. QED  BY <1>5

(* Functions that agree have the same sum. *)
LEMMA SumSame ==
  ASSUME NEW D, IsFiniteSet(D), NEW f, NEW g,
         \A x \in D : f[x] \in Int /\ g[x] = f[x]
  PROVE  SumFunctionOnSet(g, D) = SumFunctionOnSet(f, D)
<1>1. \A x \in D : g[x] = f[x] + f[x] - f[x]
  OBVIOUS
<1>2. SumFunctionOnSet(g, D) =
        SumFunctionOnSet(f, D) + SumFunctionOnSet(f, D) - SumFunctionOnSet(f, D)
  BY <1>1, SumLinear
<1>. QED  BY <1>2, SumType

(* A function nowhere greater has no greater sum. *)
LEMMA SumBelow ==
  ASSUME NEW D, IsFiniteSet(D), NEW f, NEW g,
         \A x \in D : f[x] \in Nat /\ g[x] \in Nat /\ f[x] <= g[x]
  PROVE  SumFunctionOnSet(f, D) <= SumFunctionOnSet(g, D)
<1>. DEFINE d == [x \in D |-> g[x] - f[x]]  zero == [x \in D |-> 0]
<1>1. \A x \in D : /\ g[x] \in Int /\ zero[x] \in Int /\ f[x] \in Int
                   /\ d[x] = g[x] + zero[x] - f[x]
  OBVIOUS
<1>0. \A x \in D : d[x] \in Nat /\ zero[x] = 0
  OBVIOUS
<1>. HIDE DEF d, zero
<1>2. SumFunctionOnSet(d, D) =
        SumFunctionOnSet(g, D) + SumFunctionOnSet(zero, D) - SumFunctionOnSet(f, D)
  BY <1>1, SumLinear
<1>3. SumFunctionOnSet(d, D) \in Nat /\ SumFunctionOnSet(zero, D) = 0
  BY <1>0, SumNat, SumZero
<1>4. SumFunctionOnSet(f, D) \in Int /\ SumFunctionOnSet(g, D) \in Int
  BY <1>1, SumType
<1>. QED  BY <1>2, <1>3, <1>4

(* A function changed at one place. *)
LEMMA SumChanged ==
  ASSUME NEW D, IsFiniteSet(D), NEW f, NEW g, NEW x \in D,
         \A y \in D : f[y] \in Int /\ g[y] \in Int,
         \A y \in D \ {x} : g[y] = f[y]
  PROVE  SumFunctionOnSet(g, D) = SumFunctionOnSet(f, D) + g[x] - f[x]
<1>1. IsFiniteSet(D \ {x})
  BY FS_RemoveElement
<1>2. SumFunctionOnSet(g, D \ {x}) = SumFunctionOnSet(f, D \ {x})
  BY <1>1, SumSame
<1>3. SumFunctionOnSet(f, D \ {x}) \in Int
  BY <1>1, SumType
<1>4. SumFunctionOnSet(f, D) = f[x] + SumFunctionOnSet(f, D \ {x})
  BY SumTaken
<1>5. SumFunctionOnSet(g, D) = g[x] + SumFunctionOnSet(g, D \ {x})
  BY SumTaken
<1>. QED  BY <1>2, <1>3, <1>4, <1>5

(* A set of natural numbers has a least member. *)
LEMMA Least ==
  ASSUME NEW S \in SUBSET Nat, S # {}
  PROVE  \E n \in S : \A m \in S : n <= m
<1>1. IsWellFoundedOn(Less, Nat)
  BY NatLessThanWellFounded DEF OpToRel, Less
<1>2. PICK n \in S : \A m \in S : <<m, n>> \notin Less
  BY <1>1, WFMin
<1>3. ASSUME NEW m \in S  PROVE n <= m
  <2>1. m \in Nat /\ n \in Nat /\ ~ (m < n)
    BY <1>2 DEF Less
  <2>. QED  BY <2>1
<1>. QED  BY <1>3

(* A sequence with one value more. *)
LEMMA SumGrows ==
  ASSUME NEW n \in Nat, NEW f, \A k \in 1..(n+1) : f[k] \in Int
  PROVE  SumFunctionOnSet(f, 1..(n+1)) = SumFunctionOnSet(f, 1..n) + f[n+1]
<1>1. IsFiniteSet(1..n)
  BY FS_Interval
<1>2. 1..(n+1) = (1..n) \cup {n+1} /\ n+1 \notin 1..n
  OBVIOUS
<1>3. SumFunctionOnSet(f, (1..n) \cup {n+1}) = f[n+1] + SumFunctionOnSet(f, 1..n)
  BY <1>1, <1>2, SumAdded
<1>4. SumFunctionOnSet(f, 1..n) \in Int
  BY <1>1, <1>2, SumType
<1>5. f[n+1] \in Int
  OBVIOUS
<1>6. SumFunctionOnSet(f, 1..(n+1)) = f[n+1] + SumFunctionOnSet(f, 1..n)
  BY <1>2, <1>3, Zenon
<1>. QED  BY <1>4, <1>5, <1>6

(* A sequence without its first value. *)
LEMMA SumSlides ==
  ASSUME NEW n \in Nat, NEW f, \A k \in 1..(n+1) : f[k] \in Int,
         NEW g, \A k \in 1..n : g[k] = f[k+1]
  PROVE  SumFunctionOnSet(g, 1..n) = SumFunctionOnSet(f, 1..(n+1)) - f[1]
<1>. DEFINE Slid(m) == SumFunctionOnSet(g, 1..m) = SumFunctionOnSet(f, 1..(m+1)) - f[1]
            N == {m \in Nat : m <= n => Slid(m)}
<1>0. \A m \in Nat : IsFiniteSet(1..m)
  BY FS_Interval
<1>1. 0 \in N
  <2>1. 1..0 = {}
    OBVIOUS
  <2>2. SumFunctionOnSet(f, 1..(0+1)) = SumFunctionOnSet(f, 1..0) + f[0+1]
    <3>1. \A k \in 1..(0+1) : f[k] \in Int
      OBVIOUS
    <3>. QED  BY <3>1, SumGrows
  <2>3. SumFunctionOnSet(f, 1..0) = 0 /\ SumFunctionOnSet(g, 1..0) = 0
    BY <2>1, SumEmpty
  <2>. QED  BY <2>2, <2>3
<1>2. ASSUME NEW m \in N  PROVE m + 1 \in N
  <2>. SUFFICES ASSUME m + 1 <= n  PROVE Slid(m+1)
    OBVIOUS
  <2>1. m \in Nat /\ Slid(m)
    OBVIOUS
  <2>2. \A k \in 1..(m+1) : g[k] \in Int
    BY <2>1
  <2>3. SumFunctionOnSet(g, 1..(m+1)) = SumFunctionOnSet(g, 1..m) + g[m+1]
    BY <2>1, <2>2, SumGrows
  <2>4. SumFunctionOnSet(f, 1..((m+1)+1)) = SumFunctionOnSet(f, 1..(m+1)) + f[(m+1)+1]
    <3>1. m + 1 \in Nat /\ \A k \in 1..((m+1)+1) : f[k] \in Int
      BY <2>1
    <3>. QED  BY <3>1, SumGrows
  <2>5. SumFunctionOnSet(f, 1..(m+1)) \in Int
    BY <1>0, <2>1, SumType
  <2>6. g[m+1] = f[(m+1)+1] /\ f[(m+1)+1] \in Int /\ f[1] \in Int
    BY <2>1
  <2>. QED  BY <2>1, <2>3, <2>4, <2>5, <2>6
<1>3. N \in SUBSET Nat
  OBVIOUS
<1>4. n \in N
  <2>. HIDE DEF N
  <2>. QED  BY <1>1, <1>2, <1>3, Inductive
<1>. QED  BY <1>4

(* Rows and columns of a table f add up to the same: c are its columns, a  *)
(* the sums of its rows, b those of its columns.                           *)
ColumnsOf(f, c, n, D) == \A k \in 1..n : \A x \in D : f[k][x] \in Int /\ c[x][k] = f[k][x]
RowSums(f, a, n, D) == \A k \in 1..n : a[k] = SumFunctionOnSet(f[k], D)
ColumnSums(c, b, n, D) == \A x \in D : b[x] = SumFunctionOnSet(c[x], 1..n)

LEMMA SumSwapped ==
  ASSUME NEW n \in Nat, NEW D, IsFiniteSet(D), NEW f, NEW a, NEW b, NEW c,
         ColumnsOf(f, c, n, D), RowSums(f, a, n, D), ColumnSums(c, b, n, D)
  PROVE  SumFunctionOnSet(a, 1..n) = SumFunctionOnSet(b, D)
<1>. USE DEF ColumnsOf, RowSums, ColumnSums
<1>. DEFINE Rows(m) == [x \in D |-> SumFunctionOnSet(c[x], 1..m)]
            Swapped(m) == SumFunctionOnSet(a, 1..m) = SumFunctionOnSet(Rows(m), D)
            N == {m \in Nat : m <= n => Swapped(m)}
<1>0. \A m \in Nat : IsFiniteSet(1..m)
  BY FS_Interval
<1>1. 0 \in N
  <2>1. 1..0 = {}
    OBVIOUS
  <2>2. SumFunctionOnSet(a, 1..0) = 0
    BY <2>1, SumEmpty
  <2>3. \A x \in D : Rows(0)[x] = 0
    BY <2>1, SumEmpty
  <2>4. SumFunctionOnSet(Rows(0), D) = 0
    <3>. HIDE DEF Rows
    <3>. QED  BY <2>3, SumZero
  <2>. QED  BY <2>2, <2>4
<1>2. ASSUME NEW m \in N  PROVE m + 1 \in N
  <2>. SUFFICES ASSUME m + 1 <= n  PROVE Swapped(m+1)
    OBVIOUS
  <2>1. m \in Nat /\ Swapped(m) /\ m + 1 \in 1..n /\ \A k \in 1..(m+1) : k \in 1..n
    OBVIOUS
  <2>2. \A k \in 1..(m+1) : a[k] \in Int
    <3>. SUFFICES ASSUME NEW k \in 1..n  PROVE a[k] \in Int
      BY <2>1
    <3>. QED  BY SumType
  <2>3. SumFunctionOnSet(a, 1..(m+1)) = SumFunctionOnSet(a, 1..m) + a[m+1]
    BY <2>1, <2>2, SumGrows
  <2>4. \A x \in D : /\ Rows(m+1)[x] = Rows(m)[x] + f[m+1][x]
                     /\ Rows(m)[x] \in Int /\ f[m+1][x] \in Int
    <3>. SUFFICES ASSUME NEW x \in D
                  PROVE  /\ SumFunctionOnSet(c[x], 1..(m+1)) =
                              SumFunctionOnSet(c[x], 1..m) + f[m+1][x]
                         /\ SumFunctionOnSet(c[x], 1..m) \in Int /\ f[m+1][x] \in Int
      OBVIOUS
    <3>1. \A k \in 1..(m+1) : c[x][k] \in Int /\ c[x][k] = f[k][x]
      BY <2>1
    <3>2. SumFunctionOnSet(c[x], 1..(m+1)) = SumFunctionOnSet(c[x], 1..m) + c[x][m+1]
      BY <2>1, <3>1, SumGrows
    <3>3. SumFunctionOnSet(c[x], 1..m) \in Int
      BY <1>0, <2>1, <3>1, SumType
    <3>. QED  BY <2>1, <3>1, <3>2, <3>3
  <2>5. SumFunctionOnSet(Rows(m+1), D) =
          SumFunctionOnSet(Rows(m), D) + SumFunctionOnSet(f[m+1], D)
    <3>. DEFINE zero == [x \in D |-> 0]
    <3>1. SumFunctionOnSet(zero, D) = 0
      BY SumZero
    <3>2. \A x \in D : zero[x] = 0
      OBVIOUS
    <3>3. SumFunctionOnSet(Rows(m+1), D) =
            SumFunctionOnSet(Rows(m), D) + SumFunctionOnSet(f[m+1], D) - SumFunctionOnSet(zero, D)
      <4>. HIDE DEF Rows, zero
      <4>. DEFINE R == Rows(m+1)  S == Rows(m)  T == f[m+1]
      <4>1. \A x \in D : /\ S[x] \in Int /\ T[x] \in Int /\ zero[x] \in Int
                         /\ R[x] = S[x] + T[x] - zero[x]
        BY <2>4, <3>2
      <4>. HIDE DEF R, S, T
      <4>2. SumFunctionOnSet(R, D) =
              SumFunctionOnSet(S, D) + SumFunctionOnSet(T, D) - SumFunctionOnSet(zero, D)
        BY <4>1, SumLinear
      <4>. QED  BY <4>2 DEF R, S, T
    <3>4. SumFunctionOnSet(Rows(m), D) \in Int /\ SumFunctionOnSet(f[m+1], D) \in Int
      <4>. HIDE DEF Rows
      <4>. QED  BY <2>4, SumType
    <3>. HIDE DEF Rows, zero
    <3>. QED  BY <3>1, <3>3, <3>4
  <2>6. a[m+1] = SumFunctionOnSet(f[m+1], D)
    BY <2>1
  <2>. HIDE DEF Rows
  <2>. QED  BY <2>1, <2>3, <2>5, <2>6
<1>3. N \in SUBSET Nat
  OBVIOUS
<1>4. n \in N
  <2>. HIDE DEF N
  <2>. QED  BY <1>1, <1>2, <1>3, Inductive
<1>5. SumFunctionOnSet(Rows(n), D) = SumFunctionOnSet(b, D)
  <2>1. \A x \in D : b[x] \in Int
    <3>. SUFFICES ASSUME NEW x \in D  PROVE SumFunctionOnSet(c[x], 1..n) \in Int
      OBVIOUS
    <3>1. \A k \in 1..n : c[x][k] \in Int
      OBVIOUS
    <3>. QED  BY <1>0, <3>1, SumType
  <2>2. \A x \in D : Rows(n)[x] = b[x]
    OBVIOUS
  <2>. HIDE DEF Rows
  <2>. QED  BY <2>1, <2>2, SumSame
<1>. QED  BY <1>4, <1>5

-----------------------------------------------------------------------------
(* A ring of at most size entries is read from index first on: where its   *)
(* k-th oldest entry is, and that they are the n numbers w, oldest first.  *)
Slot(size, first, k) == IF first + k <= size THEN first + k ELSE first + k - size

Laid(size, u, first, n, w) == \A k \in 1..n : u[Slot(size, first, k)] = w[k]

(* A queue of at most size entries w that y is pushed onto becomes v. *)
Next1(size, n) == IF n < size THEN n + 1 ELSE n

Slides(size, n, w, y, v) ==
  IF n < size THEN (\A k \in 1..n : v[k] = w[k]) /\ v[n+1] = y
              ELSE (\A k \in 1..(n-1) : v[k] = w[k+1]) /\ v[n] = y

(* So does what a function f makes of the entries. *)
Image(f, q, n, a) == \A k \in 1..n : a[k] = f[q[k]]

LEMMA ImageSlides ==
  ASSUME NEW size \in Nat \ {0}, NEW n \in 0..size, NEW q, NEW e, NEW r,
         Slides(size, n, q, e, r), NEW f, NEW a, Image(f, q, n, a),
         NEW b, Image(f, r, Next1(size, n), b)
  PROVE  Slides(size, n, a, f[e], b)
<1>1. CASE n < size
  <2>1. (\A k \in 1..n : r[k] = q[k]) /\ r[n+1] = e
    BY <1>1 DEF Slides
  <2>2. (\A k \in 1..n : b[k] = f[r[k]]) /\ b[n+1] = f[r[n+1]]
    BY <1>1 DEF Image, Next1
  <2>. QED  BY <1>1, <2>1, <2>2 DEF Slides, Image
<1>2. CASE n = size
  <2>1. (\A k \in 1..(n-1) : r[k] = q[k+1]) /\ r[n] = e
    BY <1>2 DEF Slides
  <2>2. (\A k \in 1..(n-1) : b[k] = f[r[k]]) /\ b[n] = f[r[n]]
    BY <1>2 DEF Image, Next1
  <2>3. \A k \in 1..(n-1) : a[k+1] = f[q[k+1]]
    <3>. SUFFICES ASSUME NEW k \in 1..(n-1)  PROVE a[k+1] = f[q[k+1]]
      OBVIOUS
    <3>1. k + 1 \in 1..n
      OBVIOUS
    <3>. QED  BY <3>1 DEF Image
  <2>. QED  BY <1>2, <2>1, <2>2, <2>3 DEF Slides
<1>. QED  BY <1>1, <1>2

(* The index that wraps. *)
LEMMA Remainder == \A n \in Nat \ {0} : \A a \in 0..n : a % n = IF a = n THEN 0 ELSE a
OBVIOUS

(* What a push does to the sum of the entries.                             *)
LEMMA SlideSum ==
  ASSUME NEW size \in Nat \ {0}, NEW n \in 0..size, NEW w, \A k \in 1..n : w[k] \in Nat,
         NEW y \in Nat, NEW v, Slides(size, n, w, y, v)
  PROVE  SumFunctionOnSet(v, 1..Next1(size, n)) =
           SumFunctionOnSet(w, 1..n) + y - (IF n < size THEN 0 ELSE w[1])
<1>0. n \in Nat /\ size \in Nat \ {0}
  OBVIOUS
<1>1. CASE n < size
  <2>1. (\A k \in 1..n : v[k] = w[k]) /\ v[n+1] = y
    BY <1>1 DEF Slides
  <2>2. SumFunctionOnSet(v, 1..(n+1)) = SumFunctionOnSet(v, 1..n) + v[n+1]
    <3>1. \A k \in 1..(n+1) : v[k] \in Int
      BY <1>0, <2>1
    <3>. QED  BY <1>0, <3>1, SumGrows
  <2>3. IsFiniteSet(1..n)
    BY <1>0, FS_Interval
  <2>4. SumFunctionOnSet(v, 1..n) = SumFunctionOnSet(w, 1..n)
    <3>1. \A k \in 1..n : w[k] \in Int /\ v[k] = w[k]
      BY <2>1
    <3>. QED  BY <2>3, <3>1, SumSame
  <2>5. SumFunctionOnSet(w, 1..n) \in Int
    BY <2>3, SumType
  <2>. QED  BY <1>1, <2>1, <2>2, <2>4, <2>5 DEF Next1
<1>2. CASE n = size
  <2>. DEFINE m == n - 1
  <2>1. m \in Nat /\ m + 1 = n
    BY <1>0, <1>2
  <2>2. (\A k \in 1..m : v[k] = w[k+1]) /\ v[m+1] = y
    BY <1>2, <2>1 DEF Slides
  <2>. HIDE DEF m
  <2>3. \A k \in 1..(m+1) : w[k] \in Int
    BY <2>1
  <2>4. \A k \in 1..(m+1) : v[k] \in Int
    BY <2>1, <2>2, <2>3
  <2>5. SumFunctionOnSet(v, 1..m) = SumFunctionOnSet(w, 1..(m+1)) - w[1]
    BY <2>1, <2>2, <2>3, SumSlides
  <2>6. SumFunctionOnSet(v, 1..(m+1)) = SumFunctionOnSet(v, 1..m) + v[m+1]
    BY <2>1, <2>4, SumGrows
  <2>7. SumFunctionOnSet(w, 1..(m+1)) \in Int /\ w[1] \in Int
    <3>1. IsFiniteSet(1..(m+1))
      BY <2>1, FS_Interval
    <3>. QED  BY <2>1, <2>3, <3>1, SumType
  <2>8. SumFunctionOnSet(v, 1..n) = SumFunctionOnSet(w, 1..n) + y - w[1]
    BY <2>1, <2>2, <2>5, <2>6, <2>7
  <2>. QED  BY <1>0, <1>2, <2>8 DEF Next1
<1>. QED  BY <1>0, <1>1, <1>2

(* While the slice grows, entry k stays where it is.                       *)
LEMMA GrowSlots ==
  ASSUME NEW size \in Nat \ {0}, NEW n \in Nat, n < size, NEW u \in Seq(Nat), Len(u) = n,
         NEW w, Laid(size, u, 0, n, w),
         NEW y \in Nat, NEW v, Slides(size, n, w, y, v), 
         NEW r \in Seq(Nat), Len(r) = n + 1, \A k \in 1..n : r[k] = u[k], r[n+1] = y
  PROVE  Laid(size, r, 0, n + 1, v)
<1>1. \A k \in 1..(n+1) : Slot(size, 0, k) = k
  BY DEF Slot
<1>2. (\A k \in 1..n : v[k] = w[k]) /\ v[n+1] = y
  BY DEF Slides
<1>3. ASSUME NEW k \in 1..(n+1)  PROVE r[k] = v[k]
  <2>1. CASE k = n + 1
    BY <1>2, <2>1
  <2>2. CASE k \in 1..n
    BY <1>1, <1>2, <2>2 DEF Laid
  <2>. QED  BY <2>1, <2>2
<1>. QED  BY <1>1, <1>3 DEF Laid

(* r is u with y for the entry after the first b; and the next index. *)
Replaced(u, b, n, y, r) == \A k \in 1..n : r[k] = IF k = b + 1 THEN y ELSE u[k]

Wrapped(size, b) == IF b + 1 = size THEN 0 ELSE b + 1

(* On a full ring the slot overwritten is that of the oldest entry, and    *)
(* every other entry is found one place earlier.                           *)
LEMMA OverwriteSlots ==
  ASSUME NEW n \in Nat \ {0}, NEW u, NEW b \in 0..(n - 1), NEW w, Laid(n, u, b, n, w),
         NEW y, NEW v, Slides(n, n, w, y, v), NEW r, Replaced(u, b, n, y, r)
  PROVE  u[b+1] = w[1] /\ Laid(n, r, Wrapped(n, b), n, v)
<1>. DEFINE e == Wrapped(n, b)
<1>0. n \in Nat \ {0} /\ b \in Int /\ 0 <= b /\ b < n
  OBVIOUS
<1>1. b + 1 \in 1..n /\ Slot(n, b, 1) = b + 1 /\ 1 \in 1..n
  BY <1>0 DEF Slot, Wrapped
<1>2. (\A k \in 1..(n-1) : v[k] = w[k+1]) /\ v[n] = y
  BY <1>0 DEF Slides
<1>3. ASSUME NEW k \in 1..n  PROVE r[Slot(n, e, k)] = v[k]
  <2>1. CASE k = n
    <3>1. Slot(n, e, k) = b + 1
      BY <1>0, <2>1 DEF Slot, Wrapped
    <3>. QED  BY <1>1, <1>2, <2>1, <3>1 DEF Replaced
  <2>2. CASE k # n
    <3>1. k + 1 \in 1..n /\ k \in 1..(n-1)
      BY <1>0, <2>2
    <3>2. Slot(n, e, k) = Slot(n, b, k + 1)
      <4>1. CASE b + 1 = n
        BY <1>0, <3>1, <4>1 DEF Slot, Wrapped
      <4>2. CASE b + 1 # n
        BY <1>0, <3>1, <4>2 DEF Slot, Wrapped
      <4>. QED  BY <4>1, <4>2
    <3>3. Slot(n, e, k) # b + 1 /\ Slot(n, e, k) \in 1..n
      <4>1. CASE b + 1 = n
        BY <1>0, <3>1, <4>1 DEF Slot, Wrapped
      <4>2. CASE b + 1 # n
        BY <1>0, <3>1, <4>2 DEF Slot, Wrapped
      <4>. QED  BY <4>1, <4>2
    <3>4. u[Slot(n, b, k + 1)] = w[k + 1]
      BY <3>1 DEF Laid
    <3>. QED  BY <1>2, <3>1, <3>2, <3>3, <3>4 DEF Replaced
  <2>. QED  BY <2>1, <2>2
<1>. QED  BY <1>1, <1>3 DEF Laid
=============================================================================
