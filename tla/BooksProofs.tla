----------------------------- MODULE BooksProofs -----------------------------
(***************************************************************************)
(* Sums over finite sets, and what the services compute with them: stock,  *)
(* ledger totals, quantities sold and refunded.  No step of an induction   *)
(* here is on an operator: a property is the set of the subsets that have  *)
(* it, and a counterexample among them a minimal one.                      *)
(***************************************************************************)
EXTENDS Books, FiniteSetTheorems, WellFoundedInduction, TLAPS

-----------------------------------------------------------------------------
(* Induction over the subsets of a finite set.                             *)

LEMMA MinimalSubset ==
  ASSUME NEW S, IsFiniteSet(S), NEW B, B \subseteq SUBSET S, B # {}
  PROVE  \E A \in B : \A C \in SUBSET A : C # A => C \notin B
<1>1. IsWellFoundedOn(StrictSubsetOrdering(S), FiniteSubsetsOf(S))
  BY FS_StrictSubsetOrderingWellFounded
<1>2. B \subseteq FiniteSubsetsOf(S)
  BY FS_Subset DEF FiniteSubsetsOf
<1>3. PICK A \in B : \A C \in B : <<C, A>> \notin StrictSubsetOrdering(S)
  BY <1>1, <1>2, WFMin
<1>4. ASSUME NEW C \in SUBSET A, C # A, C \in B
      PROVE  FALSE
  <2>1. <<C, A>> \in (SUBSET S) \X (SUBSET S)
    BY <1>4
  <2>2. <<C, A>> \in StrictSubsetOrdering(S)
    BY <1>4, <2>1 DEF StrictSubsetOrdering
  <2>. QED  BY <1>3, <1>4, <2>2
<1>. QED  BY <1>4

LEMMA FiniteInduction ==
  ASSUME NEW S, IsFiniteSet(S), NEW T, {} \in T,
         \A A \in SUBSET S, x \in S : A \in T /\ x \notin A => A \cup {x} \in T
  PROVE  S \in T
<1>. SUFFICES ASSUME S \notin T  PROVE FALSE
  OBVIOUS
<1>. DEFINE B == {A \in SUBSET S : A \notin T}
<1>1. S \in B /\ B \subseteq SUBSET S /\ B # {}
  OBVIOUS
<1>2. PICK A \in B : \A C \in SUBSET A : C # A => C \notin B
  <2>. HIDE DEF B
  <2>. QED  BY <1>1, MinimalSubset
<1>3. PICK x \in A : TRUE
  OBVIOUS
<1>4. A \ {x} \in T /\ A = (A \ {x}) \cup {x} /\ x \notin A \ {x}
  BY <1>2
<1>. QED  BY <1>3, <1>4

-----------------------------------------------------------------------------
(* The fold behind a sum is well defined.                                  *)

Picked(s) == CHOOSE x \in s : TRUE

Rest(s) == s \ {Picked(s)}

Iterates(g, f, U) ==
  g = [s \in SUBSET U |-> IF s = {} THEN 0 ELSE f[Picked(s)] + g[Rest(s)]]

LEMMA Smaller ==
  ASSUME NEW s, s # {}
  PROVE  /\ Picked(s) \in s /\ Rest(s) \in SUBSET s /\ Rest(s) # s
         /\ s = Rest(s) \cup {Picked(s)} /\ Picked(s) \notin Rest(s)
BY DEF Picked, Rest

LEMMA Iterate ==
  ASSUME NEW f, NEW U, NEW g, Iterates(g, f, U), NEW s \in SUBSET U
  PROVE  g[s] = IF s = {} THEN 0 ELSE f[Picked(s)] + g[Rest(s)]
BY DEF Iterates

LEMMA IteratesAgree ==
  ASSUME NEW f, NEW U, NEW V, NEW g, NEW h, Iterates(g, f, U), Iterates(h, f, V),
         NEW S, IsFiniteSet(S), S \subseteq U, S \subseteq V
  PROVE  g[S] = h[S]
<1>. SUFFICES ASSUME g[S] # h[S]  PROVE FALSE
  OBVIOUS
<1>. DEFINE B == {s \in SUBSET S : g[s] # h[s]}
<1>1. S \in B /\ B \subseteq SUBSET S /\ B # {}
  OBVIOUS
<1>2. PICK A \in B : \A C \in SUBSET A : C # A => C \notin B
  <2>. HIDE DEF B
  <2>. QED  BY <1>1, MinimalSubset
<1>3. A \in SUBSET U /\ A \in SUBSET V /\ A \in SUBSET S
  OBVIOUS
<1>4. A # {}
  BY <1>3, Iterate
<1>5. g[Rest(A)] = h[Rest(A)]
  BY <1>2, <1>3, <1>4, Smaller
<1>. QED  BY <1>3, <1>4, <1>5, Iterate

LEMMA IterateExists ==
  ASSUME NEW f, NEW S, IsFiniteSet(S)
  PROVE  \E g : Iterates(g, f, S)
<1>. SUFFICES ASSUME ~\E g : Iterates(g, f, S)  PROVE FALSE
  OBVIOUS
<1>. DEFINE B == {s \in SUBSET S : ~\E g : Iterates(g, f, s)}
<1>1. S \in B /\ B \subseteq SUBSET S /\ B # {}
  OBVIOUS
<1>2. PICK A \in B : \A C \in SUBSET A : C # A => C \notin B
  <2>. HIDE DEF B
  <2>. QED  BY <1>1, MinimalSubset
<1>. DEFINE G(s) == CHOOSE g : Iterates(g, f, s)
            k == [s \in SUBSET A |->
                    IF s = A THEN IF A = {} THEN 0 ELSE f[Picked(A)] + G(Rest(A))[Rest(A)]
                    ELSE G(s)[s]]
<1>3. ASSUME NEW s \in SUBSET A, s # A
      PROVE  Iterates(G(s), f, s) /\ IsFiniteSet(s)
  <2>1. s \notin B /\ s \in SUBSET S
    BY <1>2, <1>3
  <2>2. \E g : Iterates(g, f, s)
    BY <2>1
  <2>. QED  BY <2>1, <2>2, FS_Subset
<1>. HIDE DEF G
<1>4. ASSUME NEW s \in SUBSET A
      PROVE  k[s] = IF s = {} THEN 0 ELSE f[Picked(s)] + k[Rest(s)]
  <2>1. CASE s = A
    <3>1. CASE A = {}
      BY <2>1, <3>1
    <3>2. CASE A # {}
      <4>1. k[Rest(A)] = G(Rest(A))[Rest(A)]
        BY <3>2, Smaller
      <4>. QED  BY <2>1, <3>2, <4>1
    <3>. QED  BY <3>1, <3>2
  <2>2. CASE s # A /\ s = {}
    <3>1. k[s] = G(s)[s]
      BY <2>2
    <3>2. Iterates(G(s), f, s) /\ s \in SUBSET s
      BY <1>3, <2>2
    <3>3. G(s)[s] = 0
      BY <2>2, <3>2, Iterate
    <3>. QED  BY <2>2, <3>1, <3>3
  <2>3. CASE s # A /\ s # {}
    <3>1. /\ Rest(s) \in SUBSET A /\ Rest(s) # A /\ Rest(s) \subseteq s
      BY <2>3, Smaller
    <3>2. Iterates(G(s), f, s) /\ Iterates(G(Rest(s)), f, Rest(s)) /\ IsFiniteSet(Rest(s))
      BY <1>3, <2>3, <3>1
    <3>3. G(s)[Rest(s)] = G(Rest(s))[Rest(s)]
      BY <3>1, <3>2, IteratesAgree
    <3>4. G(s)[s] = f[Picked(s)] + G(s)[Rest(s)]
      BY <2>3, <3>2, Iterate
    <3>5. k[s] = G(s)[s] /\ k[Rest(s)] = G(Rest(s))[Rest(s)]
      BY <2>3, <3>1
    <3>. QED  BY <2>3, <3>3, <3>4, <3>5
  <2>. QED  BY <2>1, <2>2, <2>3
<1>5. k = [s \in SUBSET A |-> k[s]]
  OBVIOUS
<1>. HIDE DEF k
<1>6. [s \in SUBSET A |-> k[s]]
        = [s \in SUBSET A |-> IF s = {} THEN 0 ELSE f[Picked(s)] + k[Rest(s)]]
  BY <1>4
<1>7. Iterates(k, f, A)
  BY <1>5, <1>6 DEF Iterates
<1>. QED  BY <1>2, <1>7

LEMMA SumUnfold ==
  ASSUME NEW f, NEW S, IsFiniteSet(S)
  PROVE  SumFunctionOnSet(f, S)
           = IF S = {} THEN 0 ELSE f[Picked(S)] + SumFunctionOnSet(f, Rest(S))
<1>. DEFINE G(U) == CHOOSE g : Iterates(g, f, U)
<1>1. ASSUME NEW U  PROVE SumFunctionOnSet(f, U) = G(U)[U]
  BY DEF SumFunctionOnSet, FoldFunctionOnSet, MapThenFoldSet, Iterates, Picked, Rest
<1>2. ASSUME NEW U, IsFiniteSet(U)  PROVE Iterates(G(U), f, U)
  BY <1>2, IterateExists
<1>. HIDE DEF G
<1>3. CASE S = {}
  BY <1>1, <1>2, <1>3, Iterate
<1>4. CASE S # {}
  <2>1. Rest(S) \in SUBSET S /\ IsFiniteSet(Rest(S))
    BY <1>4, Smaller, FS_Subset
  <2>2. G(S)[Rest(S)] = G(Rest(S))[Rest(S)]
    BY <1>2, <2>1, IteratesAgree
  <2>3. G(S)[S] = f[Picked(S)] + G(S)[Rest(S)]
    BY <1>2, <1>4, Iterate
  <2>. QED  BY <1>1, <1>4, <2>2, <2>3
<1>. QED  BY <1>3, <1>4

-----------------------------------------------------------------------------
(* Sums of integers.                                                       *)

LEMMA Exchange ==
  ASSUME NEW a \in Int, NEW b \in Int, NEW c \in Int
  PROVE  a + (b + c) = b + (a + c)
OBVIOUS

LEMMA SumEmpty ==
  ASSUME NEW f
  PROVE  SumFunctionOnSet(f, {}) = 0
BY SumUnfold, FS_EmptySet

LEMMA SumType ==
  ASSUME NEW f, NEW S, IsFiniteSet(S), \A x \in S : f[x] \in Int
  PROVE  SumFunctionOnSet(f, S) \in Int
<1>. SUFFICES ASSUME SumFunctionOnSet(f, S) \notin Int  PROVE FALSE
  OBVIOUS
<1>. DEFINE B == {A \in SUBSET S : SumFunctionOnSet(f, A) \notin Int}
<1>1. S \in B /\ B \subseteq SUBSET S /\ B # {}
  OBVIOUS
<1>2. PICK A \in B : \A C \in SUBSET A : C # A => C \notin B
  <2>. HIDE DEF B
  <2>. QED  BY <1>1, MinimalSubset
<1>3. IsFiniteSet(A)
  BY FS_Subset
<1>4. A # {}
  BY SumEmpty
<1>5. SumFunctionOnSet(f, Rest(A)) \in Int /\ f[Picked(A)] \in Int
  BY <1>2, <1>4, Smaller
<1>. QED  BY <1>3, <1>4, <1>5, SumUnfold

(* The order in which a sum is taken does not matter.                      *)
LEMMA SumRemove ==
  ASSUME NEW f, NEW S, IsFiniteSet(S), \A x \in S : f[x] \in Int, NEW x \in S
  PROVE  SumFunctionOnSet(f, S) = f[x] + SumFunctionOnSet(f, S \ {x})
<1>. DEFINE P(A) == \A a \in A : SumFunctionOnSet(f, A) = f[a] + SumFunctionOnSet(f, A \ {a})
            B == {A \in SUBSET S : ~P(A)}
<1>. SUFFICES ASSUME ~P(S)  PROVE FALSE
  OBVIOUS
<1>1. S \in B /\ B \subseteq SUBSET S /\ B # {}
  OBVIOUS
<1>2. PICK A \in B : \A C \in SUBSET A : C # A => C \notin B
  <2>. HIDE DEF B
  <2>. QED  BY <1>1, MinimalSubset
<1>3. PICK a \in A : SumFunctionOnSet(f, A) # f[a] + SumFunctionOnSet(f, A \ {a})
  OBVIOUS
<1>. DEFINE c == Picked(A)
<1>4. c \in A /\ Rest(A) = A \ {c}
  BY Smaller DEF Rest
<1>. HIDE DEF c
<1>5. IsFiniteSet(A) /\ A \in SUBSET S /\ f[a] \in Int /\ f[c] \in Int
  BY <1>4, FS_Subset
<1>6. SumFunctionOnSet(f, A) = f[c] + SumFunctionOnSet(f, A \ {c})
  BY <1>4, <1>5, SumUnfold DEF c
<1>7. a # c
  BY <1>3, <1>6
<1>8. /\ SumFunctionOnSet(f, A \ {c}) = f[a] + SumFunctionOnSet(f, (A \ {c}) \ {a})
      /\ SumFunctionOnSet(f, A \ {a}) = f[c] + SumFunctionOnSet(f, (A \ {a}) \ {c})
  <2>1. A \ {c} \in SUBSET A /\ A \ {c} # A /\ A \ {a} \in SUBSET A /\ A \ {a} # A
    BY <1>4
  <2>2. P(A \ {c}) /\ P(A \ {a})
    BY <1>2, <1>5, <2>1
  <2>. QED  BY <1>4, <1>7, <2>2
<1>9. (A \ {c}) \ {a} = (A \ {a}) \ {c} /\ IsFiniteSet((A \ {a}) \ {c})
  BY <1>5, FS_Subset
<1>10. SumFunctionOnSet(f, (A \ {a}) \ {c}) \in Int
  BY <1>5, <1>9, SumType
<1>. HIDE DEF B, P
<1>. DEFINE n == SumFunctionOnSet(f, (A \ {a}) \ {c})
<1>11. SumFunctionOnSet(f, A) = f[c] + (f[a] + n)
  BY <1>6, <1>8, <1>9
<1>12. f[a] + SumFunctionOnSet(f, A \ {a}) = f[a] + (f[c] + n)
  BY <1>8
<1>13. f[c] + (f[a] + n) = f[a] + (f[c] + n)
  BY <1>5, <1>10, Exchange
<1>. QED  BY <1>3, <1>11, <1>12, <1>13

LEMMA SumAdd ==
  ASSUME NEW f, NEW S, IsFiniteSet(S), NEW x, x \notin S, \A y \in S \cup {x} : f[y] \in Int
  PROVE  SumFunctionOnSet(f, S \cup {x}) = f[x] + SumFunctionOnSet(f, S)
<1>1. IsFiniteSet(S \cup {x}) /\ x \in S \cup {x} /\ (S \cup {x}) \ {x} = S
  BY FS_AddElement
<1>2. SumFunctionOnSet(f, S \cup {x}) = f[x] + SumFunctionOnSet(f, (S \cup {x}) \ {x})
  BY <1>1, SumRemove
<1>. QED  BY <1>1, <1>2

LEMMA SumSingleton ==
  ASSUME NEW f, NEW x, f[x] \in Int
  PROVE  SumFunctionOnSet(f, {x}) = f[x]
<1>1. SumFunctionOnSet(f, {} \cup {x}) = f[x] + SumFunctionOnSet(f, {})
  BY SumAdd, FS_EmptySet, {} \cup {x} = {x}
<1>. QED  BY <1>1, SumEmpty, {} \cup {x} = {x}

LEMMA SumCongruent ==
  ASSUME NEW f, NEW g, NEW S, IsFiniteSet(S), \A x \in S : f[x] = g[x]
  PROVE  SumFunctionOnSet(f, S) = SumFunctionOnSet(g, S)
<1>. SUFFICES ASSUME SumFunctionOnSet(f, S) # SumFunctionOnSet(g, S)  PROVE FALSE
  OBVIOUS
<1>. DEFINE B == {A \in SUBSET S : SumFunctionOnSet(f, A) # SumFunctionOnSet(g, A)}
<1>1. S \in B /\ B \subseteq SUBSET S /\ B # {}
  OBVIOUS
<1>2. PICK A \in B : \A C \in SUBSET A : C # A => C \notin B
  <2>. HIDE DEF B
  <2>. QED  BY <1>1, MinimalSubset
<1>3. IsFiniteSet(A) /\ A \in SUBSET S
  BY FS_Subset
<1>4. A # {}
  BY SumEmpty
<1>5. /\ SumFunctionOnSet(f, Rest(A)) = SumFunctionOnSet(g, Rest(A))
      /\ f[Picked(A)] = g[Picked(A)]
  BY <1>2, <1>3, <1>4, Smaller
<1>. QED  BY <1>3, <1>4, <1>5, SumUnfold

(* An inductive argument about sums: what holds of the empty set and is    *)
(* kept by one more element.                                               *)
LEMMA SumUnion ==
  ASSUME NEW f, NEW S, NEW R, IsFiniteSet(S), IsFiniteSet(R), S \cap R = {},
         \A x \in S \cup R : f[x] \in Int
  PROVE  SumFunctionOnSet(f, S \cup R) = SumFunctionOnSet(f, S) + SumFunctionOnSet(f, R)
<1>. DEFINE T == {A \in SUBSET R : SumFunctionOnSet(f, S \cup A)
                                     = SumFunctionOnSet(f, S) + SumFunctionOnSet(f, A)}
<1>1. {} \in T
  BY SumEmpty, SumType, S \cup {} = S
<1>2. ASSUME NEW A \in SUBSET R, NEW x \in R, A \in T, x \notin A
      PROVE  A \cup {x} \in T
  <2>1. /\ IsFiniteSet(A) /\ IsFiniteSet(S \cup A) /\ x \notin S \cup A
        /\ S \cup (A \cup {x}) = (S \cup A) \cup {x}
    BY <1>2, FS_Subset, FS_Union
  <2>2. /\ SumFunctionOnSet(f, (S \cup A) \cup {x}) = f[x] + SumFunctionOnSet(f, S \cup A)
        /\ SumFunctionOnSet(f, A \cup {x}) = f[x] + SumFunctionOnSet(f, A)
    BY <1>2, <2>1, SumAdd
  <2>3. /\ SumFunctionOnSet(f, S) \in Int /\ SumFunctionOnSet(f, A) \in Int /\ f[x] \in Int
    BY <2>1, SumType
  <2>4. SumFunctionOnSet(f, S \cup A) = SumFunctionOnSet(f, S) + SumFunctionOnSet(f, A)
    BY <1>2
  <2>. HIDE DEF T
  <2>5. SumFunctionOnSet(f, S \cup (A \cup {x}))
          = SumFunctionOnSet(f, S) + SumFunctionOnSet(f, A \cup {x})
    <3>1. SumFunctionOnSet(f, S \cup (A \cup {x}))
            = f[x] + (SumFunctionOnSet(f, S) + SumFunctionOnSet(f, A))
      BY <2>1, <2>2, <2>4
    <3>2. @ = SumFunctionOnSet(f, S) + (f[x] + SumFunctionOnSet(f, A))
      BY <2>3, Exchange
    <3>. QED  BY <2>2, <3>1, <3>2
  <2>. QED  BY <1>2, <2>5 DEF T
<1>3. R \in T
  <2>. HIDE DEF T
  <2>. QED  BY <1>1, <1>2, FiniteInduction
<1>. QED  BY <1>3

LEMMA SumCombine ==
  ASSUME NEW f, NEW g, NEW h, NEW k \in Int, NEW S, IsFiniteSet(S),
         \A x \in S : f[x] \in Int /\ g[x] \in Int /\ h[x] = f[x] + k * g[x]
  PROVE  SumFunctionOnSet(h, S) = SumFunctionOnSet(f, S) + k * SumFunctionOnSet(g, S)
<1>. DEFINE T == {A \in SUBSET S : SumFunctionOnSet(h, A)
                                     = SumFunctionOnSet(f, A) + k * SumFunctionOnSet(g, A)}
<1>1. {} \in T
  BY SumEmpty
<1>2. ASSUME NEW A \in SUBSET S, NEW x \in S, A \in T, x \notin A
      PROVE  A \cup {x} \in T
  <2>1. IsFiniteSet(A) /\ \A y \in A \cup {x} : h[y] \in Int
    BY FS_Subset
  <2>2. /\ SumFunctionOnSet(f, A \cup {x}) = f[x] + SumFunctionOnSet(f, A)
        /\ SumFunctionOnSet(g, A \cup {x}) = g[x] + SumFunctionOnSet(g, A)
        /\ SumFunctionOnSet(h, A \cup {x}) = h[x] + SumFunctionOnSet(h, A)
    BY <1>2, <2>1, SumAdd
  <2>3. /\ SumFunctionOnSet(f, A) \in Int /\ SumFunctionOnSet(g, A) \in Int
    BY <2>1, SumType
  <2>. HIDE DEF T
  <2>4. SumFunctionOnSet(h, A) = SumFunctionOnSet(f, A) + k * SumFunctionOnSet(g, A)
    BY <1>2 DEF T
  <2>5. k * (g[x] + SumFunctionOnSet(g, A)) = k * g[x] + k * SumFunctionOnSet(g, A)
    BY <2>3
  <2>6. h[x] = f[x] + k * g[x] /\ f[x] \in Int /\ k * g[x] \in Int
        /\ k * SumFunctionOnSet(g, A) \in Int
    BY <2>3
  <2>. QED  BY <2>2, <2>3, <2>4, <2>5, <2>6 DEF T
<1>3. S \in T
  <2>. HIDE DEF T
  <2>. QED  BY <1>1, <1>2, FiniteInduction
<1>. QED  BY <1>3

LEMMA SumNatural ==
  ASSUME NEW f, NEW S, IsFiniteSet(S), \A x \in S : f[x] \in Nat
  PROVE  SumFunctionOnSet(f, S) \in Nat
<1>. DEFINE T == {A \in SUBSET S : SumFunctionOnSet(f, A) \in Nat}
<1>1. {} \in T
  BY SumEmpty
<1>2. ASSUME NEW A \in SUBSET S, NEW x \in S, A \in T, x \notin A
      PROVE  A \cup {x} \in T
  <2>1. IsFiniteSet(A) /\ \A y \in A \cup {x} : f[y] \in Int
    BY FS_Subset
  <2>2. SumFunctionOnSet(f, A \cup {x}) = f[x] + SumFunctionOnSet(f, A)
    BY <1>2, <2>1, SumAdd
  <2>. QED  BY <1>2, <2>2
<1>3. S \in T
  <2>. HIDE DEF T
  <2>. QED  BY <1>1, <1>2, FiniteInduction
<1>. QED  BY <1>3

LEMMA SumZero ==
  ASSUME NEW f, NEW S, IsFiniteSet(S), \A x \in S : f[x] = 0
  PROVE  SumFunctionOnSet(f, S) = 0
<1>. DEFINE T == {A \in SUBSET S : SumFunctionOnSet(f, A) = 0}
<1>1. {} \in T
  BY SumEmpty
<1>2. ASSUME NEW A \in SUBSET S, NEW x \in S, A \in T, x \notin A
      PROVE  A \cup {x} \in T
  <2>1. IsFiniteSet(A) /\ \A y \in A \cup {x} : f[y] \in Int
    BY FS_Subset
  <2>2. SumFunctionOnSet(f, A \cup {x}) = f[x] + SumFunctionOnSet(f, A)
    BY <1>2, <2>1, SumAdd
  <2>. QED  BY <1>2, <2>2
<1>3. S \in T
  <2>. HIDE DEF T
  <2>. QED  BY <1>1, <1>2, FiniteInduction
<1>. QED  BY <1>3

-----------------------------------------------------------------------------
(* The totals of a field over a set of records.                            *)

Integral(field, S) == IsFiniteSet(S) /\ \A r \in S : r.data[field] \in Int

LEMMA SumOfOn ==
  ASSUME NEW field, NEW S, NEW R, S \subseteq R, IsFiniteSet(S)
  PROVE  SumOf(field, S) = SumFunctionOnSet([r \in R |-> r.data[field]], S)
<1>. DEFINE f == [r \in S |-> r.data[field]]
            g == [r \in R |-> r.data[field]]
<1>1. SumOf(field, S) = SumFunctionOnSet(f, S)
  BY DEF SumOf, SumFunction
<1>2. \A r \in S : f[r] = g[r]
  OBVIOUS
<1>. HIDE DEF f, g
<1>3. SumFunctionOnSet(f, S) = SumFunctionOnSet(g, S)
  BY <1>2, SumCongruent
<1>. QED  BY <1>1, <1>3 DEF g

LEMMA SumOfType ==
  ASSUME NEW field, NEW S, Integral(field, S)
  PROVE  SumOf(field, S) \in Int
<1>1. SumOf(field, S) = SumFunctionOnSet([r \in S |-> r.data[field]], S)
  BY SumOfOn DEF Integral
<1>. QED  BY <1>1, SumType DEF Integral

LEMMA SumOfEmpty ==
  ASSUME NEW field
  PROVE  SumOf(field, {}) = 0
BY SumEmpty, SumOfOn, FS_EmptySet

LEMMA SumOfUnion ==
  ASSUME NEW field, NEW S, NEW R, Integral(field, S), Integral(field, R), S \cap R = {}
  PROVE  SumOf(field, S \cup R) = SumOf(field, S) + SumOf(field, R)
<1>. DEFINE f == [r \in S \cup R |-> r.data[field]]
<1>1. IsFiniteSet(S) /\ IsFiniteSet(R) /\ IsFiniteSet(S \cup R)
  BY FS_Union DEF Integral
<1>2. /\ SumOf(field, S) = SumFunctionOnSet(f, S)
      /\ SumOf(field, R) = SumFunctionOnSet(f, R)
      /\ SumOf(field, S \cup R) = SumFunctionOnSet(f, S \cup R)
  BY <1>1, SumOfOn
<1>3. \A r \in S \cup R : f[r] \in Int
  BY DEF Integral
<1>. HIDE DEF f
<1>. QED  BY <1>1, <1>2, <1>3, SumUnion

LEMMA SumOfOne ==
  ASSUME NEW field, NEW r, r.data[field] \in Int
  PROVE  Integral(field, {r}) /\ SumOf(field, {r}) = r.data[field]
<1>1. IsFiniteSet({r})
  BY FS_Singleton
<1>2. SumOf(field, {r}) = SumFunctionOnSet([x \in {r} |-> x.data[field]], {r})
  BY <1>1, SumOfOn
<1>. QED  BY <1>1, <1>2, SumSingleton DEF Integral

LEMMA SumOfAdd ==
  ASSUME NEW field, NEW S, Integral(field, S), NEW r, r \notin S, r.data[field] \in Int
  PROVE  SumOf(field, S \cup {r}) = SumOf(field, S) + r.data[field]
<1>1. Integral(field, {r}) /\ SumOf(field, {r}) = r.data[field]
  BY SumOfOne
<1>2. S \cap {r} = {}
  OBVIOUS
<1>3. SumOf(field, S \cup {r}) = SumOf(field, S) + SumOf(field, {r})
  BY <1>1, <1>2, SumOfUnion
<1>. QED  BY <1>1, <1>3

LEMMA SumOfNatural ==
  ASSUME NEW field, NEW S, IsFiniteSet(S), \A r \in S : r.data[field] \in Nat
  PROVE  SumOf(field, S) \in Nat
<1>1. SumOf(field, S) = SumFunctionOnSet([r \in S |-> r.data[field]], S)
  BY SumOfOn
<1>. QED  BY <1>1, SumNatural

-----------------------------------------------------------------------------
(* Sums along sequences.                                                   *)

LEMMA SumImage ==
  ASSUME NEW f, NEW g, NEW phi, NEW S, IsFiniteSet(S), NEW R,
         \A x \in S : phi[x] \in R, \A y \in R : \E x \in S : y = phi[x],
         \A x, y \in S : phi[x] = phi[y] => x = y,
         \A x \in S : f[x] \in Int /\ g[phi[x]] = f[x]
  PROVE  SumFunctionOnSet(g, R) = SumFunctionOnSet(f, S)
<1>. DEFINE im(A) == {phi[x] : x \in A}
            T == {A \in SUBSET S : /\ IsFiniteSet(im(A))
                                   /\ SumFunctionOnSet(g, im(A)) = SumFunctionOnSet(f, A)}
<1>1. {} \in T
  <2>1. im({}) = {}
    OBVIOUS
  <2>. QED  BY <2>1, SumEmpty, FS_EmptySet
<1>2. ASSUME NEW A \in SUBSET S, NEW x \in S, A \in T, x \notin A
      PROVE  A \cup {x} \in T
  <2>1. IsFiniteSet(im(A)) /\ SumFunctionOnSet(g, im(A)) = SumFunctionOnSet(f, A)
    BY <1>2
  <2>2. IsFiniteSet(A) /\ \A y \in A \cup {x} : f[y] \in Int
    BY FS_Subset
  <2>3. SumFunctionOnSet(f, A \cup {x}) = f[x] + SumFunctionOnSet(f, A)
    BY <1>2, <2>2, SumAdd
  <2>4. im(A \cup {x}) = im(A) \cup {phi[x]} /\ phi[x] \notin im(A)
    BY <1>2
  <2>5. \A y \in im(A) \cup {phi[x]} : g[y] \in Int
    BY <1>2
  <2>6. IsFiniteSet(im(A) \cup {phi[x]})
    BY <2>1, FS_AddElement
  <2>7. g[phi[x]] = f[x]
    OBVIOUS
  <2>8. A \cup {x} \in SUBSET S
    OBVIOUS
  <2>. HIDE DEF im
  <2>9. SumFunctionOnSet(g, im(A) \cup {phi[x]}) = g[phi[x]] + SumFunctionOnSet(g, im(A))
    BY <2>1, <2>4, <2>5, SumAdd
  <2>. QED  BY <2>1, <2>3, <2>4, <2>6, <2>7, <2>8, <2>9
<1>3. S \in T
  <2>. HIDE DEF T
  <2>. QED  BY <1>1, <1>2, FiniteInduction
<1>4. im(S) = R
  OBVIOUS
<1>. HIDE DEF im
<1>. QED  BY <1>3, <1>4

LEMMA SumJoined ==
  ASSUME NEW f, NEW g, NEW h, NEW I, NEW J, NEW K, IsFiniteSet(I), IsFiniteSet(J), NEW phi,
         \A i \in I : i \in K /\ f[i] \in Int /\ h[i] = f[i],
         \A j \in J : phi[j] \in K /\ phi[j] \notin I /\ g[j] \in Int /\ h[phi[j]] = g[j],
         \A i, j \in J : phi[i] = phi[j] => i = j,
         \A k \in K : k \in I \/ \E j \in J : k = phi[j]
  PROVE  SumFunctionOnSet(h, K) = SumFunctionOnSet(f, I) + SumFunctionOnSet(g, J)
<1>. DEFINE R == K \ I
<1>1. K = I \cup R /\ I \cap R = {}
  OBVIOUS
<1>2. (\A j \in J : phi[j] \in R) /\ \A k \in R : \E j \in J : k = phi[j]
  OBVIOUS
<1>3. \A k \in I \cup R : h[k] \in Int
  OBVIOUS
<1>4. IsFiniteSet(R)
  <2>. DEFINE F == [j \in J |-> phi[j]]
  <2>1. F \in Surjection(J, R)
    BY <1>2 DEF Surjection
  <2>. QED  BY <2>1, FS_Surjection
<1>. HIDE DEF R
<1>5. SumFunctionOnSet(h, R) = SumFunctionOnSet(g, J)
  BY <1>2, SumImage
<1>6. SumFunctionOnSet(h, I) = SumFunctionOnSet(f, I)
  BY SumCongruent
<1>7. SumFunctionOnSet(h, I \cup R) = SumFunctionOnSet(h, I) + SumFunctionOnSet(h, R)
  BY <1>1, <1>3, <1>4, SumUnion
<1>. QED  BY <1>1, <1>5, <1>6, <1>7

(* A sum over groups is the sum over all that is grouped.                  *)
LEMMA SumGrouped ==
  ASSUME NEW f, NEW S, IsFiniteSet(S), \A x \in S : f[x] \in Int,
         NEW key, NEW U, IsFiniteSet(U), \A x \in S : key[x] \in U,
         NEW g, \A u \in U : g[u] = SumFunctionOnSet(f, {x \in S : key[x] = u})
  PROVE  /\ SumFunctionOnSet(g, U) = SumFunctionOnSet(f, S)
         /\ \A u \in U : g[u] \in Int
<1>1. \A R \in SUBSET S : IsFiniteSet(R) /\ SumFunctionOnSet(f, R) \in Int
  <2>. SUFFICES ASSUME NEW R \in SUBSET S
                PROVE  IsFiniteSet(R) /\ SumFunctionOnSet(f, R) \in Int
    OBVIOUS
  <2>1. IsFiniteSet(R) /\ \A x \in R : f[x] \in Int
    BY FS_Subset
  <2>. QED  BY <2>1, SumType
<1>2. \A u \in U : g[u] \in Int
  <2>. SUFFICES ASSUME NEW u \in U PROVE g[u] \in Int
    OBVIOUS
  <2>1. {x \in S : key[x] = u} \in SUBSET S
    OBVIOUS
  <2>. QED  BY <1>1, <2>1
<1>3. PICK T : T = {A \in SUBSET U :
                      SumFunctionOnSet(g, A) = SumFunctionOnSet(f, {x \in S : key[x] \in A})}
  OBVIOUS
<1>4. {} \in T
  <2>1. {x \in S : key[x] \in {}} = {}
    OBVIOUS
  <2>2. SumFunctionOnSet(g, {}) = 0 /\ SumFunctionOnSet(f, {}) = 0
    BY SumEmpty
  <2>. QED  BY <1>3, <2>1, <2>2
<1>5. ASSUME NEW A \in SUBSET U, NEW u \in U, A \in T, u \notin A
      PROVE  A \cup {u} \in T
  <2>1. PICK P, Q, R : /\ P = {x \in S : key[x] \in A} /\ Q = {x \in S : key[x] = u}
                       /\ R = {x \in S : key[x] \in A \cup {u}}
    OBVIOUS
  <2>2. P \in SUBSET S /\ Q \in SUBSET S /\ P \cap Q = {} /\ R = Q \cup P
    BY <1>5, <2>1
  <2>3. SumFunctionOnSet(f, Q \cup P) = SumFunctionOnSet(f, Q) + SumFunctionOnSet(f, P)
    <3>1. IsFiniteSet(P) /\ IsFiniteSet(Q) /\ Q \cap P = {} /\ \A x \in Q \cup P : f[x] \in Int
      BY <1>1, <2>2
    <3>. QED  BY ONLY <3>1, SumUnion
  <2>4. SumFunctionOnSet(g, A \cup {u}) = g[u] + SumFunctionOnSet(g, A)
    <3>1. IsFiniteSet(A) /\ \A y \in A \cup {u} : g[y] \in Int
      BY <1>2, FS_Subset
    <3>. QED  BY ONLY <1>5, <3>1, SumAdd
  <2>5. g[u] = SumFunctionOnSet(f, Q) /\ SumFunctionOnSet(g, A) = SumFunctionOnSet(f, P)
    BY <1>3, <1>5, <2>1
  <2>6. SumFunctionOnSet(g, A \cup {u}) = SumFunctionOnSet(f, R)
    BY <2>2, <2>3, <2>4, <2>5
  <2>. QED  BY <1>3, <2>1, <2>6
<1>6. U \in T
  BY <1>4, <1>5, FiniteInduction
<1>7. {x \in S : key[x] \in U} = S
  OBVIOUS
<1>. QED  BY <1>2, <1>3, <1>6, <1>7

-----------------------------------------------------------------------------
(* Sums that are at most others.                                           *)

Grouped(f, S, key, U, g) ==
  /\ IsFiniteSet(S) /\ IsFiniteSet(U)
  /\ \A x \in S : f[x] \in Int /\ key[x] \in U
  /\ \A u \in U : g[u] = SumFunctionOnSet(f, {x \in S : key[x] = u})

LEMMA SumOfGroups ==
  ASSUME NEW f, NEW S, NEW key, NEW U, NEW g, Grouped(f, S, key, U, g)
  PROVE  /\ SumFunctionOnSet(g, U) = SumFunctionOnSet(f, S)
         /\ \A u \in U : g[u] \in Int
<1>1. IsFiniteSet(S) /\ (\A x \in S : f[x] \in Int) /\ (\A x \in S : key[x] \in U)
  BY DEF Grouped
<1>2. ASSUME NEW u \in U
      PROVE  g[u] = SumFunctionOnSet(f, {x \in S : key[x] = u})
  BY DEF Grouped
<1>3. IsFiniteSet(U)
  BY DEF Grouped
<1>. QED  BY ONLY <1>1, <1>2, <1>3, SumGrouped

LEMMA SumLess ==
  ASSUME NEW f, NEW g, NEW h, NEW S, IsFiniteSet(S),
         \A x \in S : f[x] \in Int /\ g[x] \in Int /\ h[x] = f[x] - g[x]
  PROVE  /\ SumFunctionOnSet(h, S) = SumFunctionOnSet(f, S) - SumFunctionOnSet(g, S)
         /\ \A x \in S : h[x] \in Int
<1>1. PICK k \in Int : k = -1
  OBVIOUS
<1>2. \A x \in S : f[x] \in Int /\ g[x] \in Int /\ h[x] = f[x] + k * g[x]
  BY <1>1
<1>3. SumFunctionOnSet(h, S) = SumFunctionOnSet(f, S) + k * SumFunctionOnSet(g, S)
  BY <1>2, SumCombine
<1>4. SumFunctionOnSet(f, S) \in Int /\ SumFunctionOnSet(g, S) \in Int
  BY SumType
<1>. QED  BY <1>1, <1>3, <1>4

LEMMA SumAtMost ==
  ASSUME NEW f, NEW g, NEW S, IsFiniteSet(S),
         \A x \in S : f[x] \in Int /\ g[x] \in Int /\ f[x] <= g[x]
  PROVE  SumFunctionOnSet(f, S) <= SumFunctionOnSet(g, S)
<1>1. PICK h : h = [x \in S |-> g[x] - f[x]]
  OBVIOUS
<1>2. /\ \A x \in S : g[x] \in Int /\ f[x] \in Int /\ h[x] = g[x] - f[x]
      /\ \A x \in S : h[x] \in Nat
  BY <1>1
<1>3. SumFunctionOnSet(h, S) = SumFunctionOnSet(g, S) - SumFunctionOnSet(f, S)
  BY <1>2, SumLess
<1>4. SumFunctionOnSet(h, S) \in Nat
  BY <1>2, SumNatural
<1>5. SumFunctionOnSet(f, S) \in Int /\ SumFunctionOnSet(g, S) \in Int
  BY SumType
<1>. QED  BY ONLY <1>3, <1>4, <1>5

LEMMA SumOfPart ==
  ASSUME NEW field, NEW S, IsFiniteSet(S), \A r \in S : r.data[field] \in Nat,
         NEW R, R \subseteq S
  PROVE  SumOf(field, R) <= SumOf(field, S)
<1>1. PICK Q : Q = S \ R
  OBVIOUS
<1>2. /\ Integral(field, R) /\ Integral(field, Q) /\ R \cap Q = {} /\ R \cup Q = S
      /\ IsFiniteSet(Q) /\ \A r \in Q : r.data[field] \in Nat
  BY <1>1, FS_Subset DEF Integral
<1>3. SumOf(field, R \cup Q) = SumOf(field, R) + SumOf(field, Q)
  BY <1>2, SumOfUnion
<1>4. SumOf(field, Q) \in Nat
  BY <1>2, SumOfNatural
<1>5. SumOf(field, R) \in Int
  BY <1>2, SumOfType
<1>6. SumOf(field, S) = SumOf(field, R) + SumOf(field, Q)
  BY ONLY <1>2, <1>3
<1>. QED  BY ONLY <1>4, <1>5, <1>6

(* A sum over two indices.                                                *)
LEMMA SumPair ==
  ASSUME NEW f, NEW a, NEW b, a # b, f[a] \in Int, f[b] \in Int
  PROVE  IsFiniteSet({a, b}) /\ SumFunctionOnSet(f, {a, b}) = f[a] + f[b]
<1>1. IsFiniteSet({a}) /\ IsFiniteSet({b}) /\ {a} \cap {b} = {} /\ {a, b} = {a} \cup {b}
  BY FS_Singleton
<1>2. IsFiniteSet({a, b})
  <2>1. IsFiniteSet({a} \cup {b})
    BY <1>1, FS_Union
  <2>. QED  BY <1>1, <2>1
<1>3. SumFunctionOnSet(f, {a} \cup {b}) = SumFunctionOnSet(f, {a}) + SumFunctionOnSet(f, {b})
  BY <1>1, SumUnion
<1>4. SumFunctionOnSet(f, {a}) = f[a] /\ SumFunctionOnSet(f, {b}) = f[b]
  BY SumSingleton
<1>. QED  BY <1>1, <1>2, <1>3, <1>4
=============================================================================
