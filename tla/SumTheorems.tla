---------------------------- MODULE SumTheorems -----------------------------
(***************************************************************************)
(* Sums over finite sets.  SumFunctionOnSet of the community modules is a  *)
(* recursive function that adds up the values of g at the elements of S in *)
(* some order; here is what that order cannot change.  The induction is on *)
(* the subsets of S: a set of counterexamples would have a smallest        *)
(* member, since the order of finite subsets is well founded.              *)
(***************************************************************************)
EXTENDS Integers, FiniteSets, Functions, FiniteSetTheorems, WellFoundedInduction, TLAPS

(* A set of numbers has a least one.                                       *)
LEMMA LeastNat ==
  ASSUME NEW T, T \subseteq Nat, T # {}
  PROVE  \E n \in T : \A m \in T : n <= m
<1> DEFINE R == OpToRel(<, Nat)
<1>1. IsWellFoundedOn(R, Nat)
  BY NatLessThanWellFounded
<1>2. R = {ss \in Nat \X Nat : ss[1] < ss[2]}
  BY DEF OpToRel
<1> HIDE DEF R
<1>3. \E n \in T : \A m \in T : ~(<<m, n>> \in R)
  BY <1>1, WFMin
<1>4. PICK n \in T : \A m \in T : ~(<<m, n>> \in R)
  BY <1>3
<1>5. ASSUME NEW m \in T PROVE n <= m
  <2>1. <<m, n>> \in Nat \X Nat
    OBVIOUS
  <2>2. ~(m < n)
    BY <1>4, <1>2, <2>1
  <2> QED BY <2>1, <2>2
<1> QED BY <1>5

-----------------------------------------------------------------------------
(* The recursion.  it adds g up on the sets in D; Sums is the definition   *)
(* that the community modules give for all subsets of A.                   *)
Pick(s) == CHOOSE x \in s : TRUE

Adds(it, g, D) ==
  it = [s \in D |-> IF s = {} THEN 0 ELSE g[Pick(s)] + it[s \ {Pick(s)}]]

Sums(it, g, A) == Adds(it, g, SUBSET A)

Small(S, n) == {s \in SUBSET S : Cardinality(s) <= n}

(* The equation has a solution: it grows with the size of the subsets.     *)
LEMMA AddsUp ==
  ASSUME NEW S, IsFiniteSet(S), NEW g
  PROVE  \E it : Sums(it, g, S)
<1> DEFINE T == {n \in Nat : ~\E it : Adds(it, g, Small(S, n))}
<1>0. \A s \in SUBSET S : IsFiniteSet(s) /\ Cardinality(s) \in Nat
  BY FS_Subset, FS_CardinalityType
<1>1. T = {}
  <2> SUFFICES ASSUME T # {} PROVE FALSE
    OBVIOUS
  <2>1. PICK n \in T : \A m \in T : n <= m
    <3> HIDE DEF T
    <3>1. T \subseteq Nat
      BY DEF T
    <3> QED BY <3>1, LeastNat
  <2>2. n # 0
    <3> SUFFICES ASSUME n = 0 PROVE FALSE
      OBVIOUS
    <3>1. Small(S, 0) = {{}}
      BY <1>0, FS_EmptySet DEF Small
    <3>2. Adds([s \in {{}} |-> 0], g, {{}})
      BY DEF Adds
    <3> QED BY <2>1, <3>1, <3>2
  <2>3. n \in Nat /\ n-1 \in Nat /\ n-1 \notin T
    BY <2>1, <2>2
  <2>4. PICK it : Adds(it, g, Small(S, n-1))
    BY <2>3
  <2> DEFINE up == [s \in Small(S, n) |->
                      IF Cardinality(s) <= n-1 THEN it[s]
                      ELSE g[Pick(s)] + it[s \ {Pick(s)}]]
  <2>5. ASSUME NEW s \in Small(S, n)
        PROVE  up[s] = IF s = {} THEN 0 ELSE g[Pick(s)] + up[s \ {Pick(s)}]
    <3>1. s \in SUBSET S /\ IsFiniteSet(s) /\ Cardinality(s) \in Nat /\ Cardinality(s) <= n
      BY <1>0 DEF Small
    <3>2. CASE s = {}
      <4>1. Cardinality(s) = 0
        BY <3>2, FS_EmptySet
      <4>2. s \in Small(S, n-1) /\ Cardinality(s) <= n-1
        BY <2>3, <3>1, <4>1 DEF Small
      <4>3. it[s] = 0
        BY <2>4, <3>2, <4>2 DEF Adds
      <4> QED BY <3>2, <4>2, <4>3
    <3>3. CASE s # {}
      <4>1. Pick(s) \in s
        BY <3>3 DEF Pick
      <4> DEFINE r == s \ {Pick(s)}
      <4>2. r \in SUBSET S /\ Cardinality(r) = Cardinality(s) - 1
        BY <3>1, <4>1, FS_RemoveElement
      <4>3. r \in Small(S, n-1) /\ r \in Small(S, n) /\ Cardinality(r) <= n-1
        BY <2>3, <3>1, <4>2 DEF Small
      <4>4. up[r] = it[r]
        BY <4>3
      <4>5. Cardinality(s) <= n-1 => it[s] = g[Pick(s)] + it[r]
        <5>1. Cardinality(s) <= n-1 => s \in Small(S, n-1)
          BY <3>1 DEF Small
        <5> QED BY <2>4, <3>3, <5>1 DEF Adds
      <4> QED BY <3>3, <4>4, <4>5
    <3> QED BY <3>2, <3>3
  <2>6. Adds(up, g, Small(S, n))
    BY <2>5 DEF Adds
  <2> QED BY <2>1, <2>6
<1>2. Cardinality(S) \in Nat /\ Small(S, Cardinality(S)) = SUBSET S
  BY FS_Subset, FS_CardinalityType DEF Small
<1>3. Cardinality(S) \notin T
  BY <1>1
<1> QED BY <1>2, <1>3 DEF Sums

(* The sum is the value of a solution.                                     *)
LEMMA SumAdds ==
  ASSUME NEW S, IsFiniteSet(S), NEW g
  PROVE  \E it : Sums(it, g, S) /\ SumFunctionOnSet(g, S) = it[S]
<1> DEFINE it == CHOOSE it : Sums(it, g, S)
<1>1. Sums(it, g, S)
  BY AddsUp
<1>2. SumFunctionOnSet(g, S) = it[S]
  BY DEF SumFunctionOnSet, FoldFunctionOnSet, MapThenFoldSet, Sums, Adds, Pick
<1> QED BY <1>1, <1>2
(* Among subsets of a finite set there is one that contains no other.      *)
LEMMA SmallestSubset ==
  ASSUME NEW S, IsFiniteSet(S), NEW C, C \subseteq SUBSET S, C # {}
  PROVE  \E s \in C : \A r \in C : r \subseteq s => r = s
<1> DEFINE R == StrictSubsetOrdering(S)
<1>1. IsWellFoundedOn(R, FiniteSubsetsOf(S))
  BY FS_StrictSubsetOrderingWellFounded
<1>2. C \subseteq FiniteSubsetsOf(S)
  BY FS_Subset DEF FiniteSubsetsOf
<1> HIDE DEF R
<1>3. PICK s \in C : \A r \in C : ~(<<r, s>> \in R)
  BY <1>1, <1>2, WFMin
<1> QED BY <1>2, <1>3 DEF R, StrictSubsetOrdering
(* One step of the recursion.                                              *)
LEMMA AddsTo ==
  ASSUME NEW A, NEW s, s \subseteq A, s # {}, NEW g, NEW it, Sums(it, g, A)
  PROVE  /\ Pick(s) \in s /\ s \ {Pick(s)} \subseteq A
         /\ it[s] = g[Pick(s)] + it[s \ {Pick(s)}]
<1>1. Pick(s) \in s
  BY DEF Pick
<1>2. it[s] = g[Pick(s)] + it[s \ {Pick(s)}]
  BY DEF Sums, Adds
<1> QED BY <1>1, <1>2

(* Solutions for different sets agree where the summands do.               *)
LEMMA AddsAgree ==
  ASSUME NEW A, NEW B, NEW S, IsFiniteSet(S), S \subseteq A, S \subseteq B,
         NEW g, NEW h, \A x \in S : g[x] = h[x],
         NEW it, Sums(it, g, A), NEW jt, Sums(jt, h, B)
  PROVE  it[S] = jt[S]
<1> DEFINE C == {s \in SUBSET S : it[s] # jt[s]}
<1>1. C = {}
  <2> SUFFICES ASSUME C # {} PROVE FALSE
    OBVIOUS
  <2>0. C \subseteq SUBSET S
    OBVIOUS
  <2>1. PICK s \in C : \A r \in C : r \subseteq s => r = s
    <3> HIDE DEF C
    <3> QED BY <2>0, SmallestSubset
  <2>2. s # {}
    <3>1. it[{}] = 0 /\ jt[{}] = 0
      BY DEF Sums, Adds
    <3> QED BY <2>1, <3>1
  <2>3. /\ Pick(s) \in s /\ it[s] = g[Pick(s)] + it[s \ {Pick(s)}]
        /\ jt[s] = h[Pick(s)] + jt[s \ {Pick(s)}]
    <3>1. s \subseteq A /\ s \subseteq B
      BY <2>1
    <3>2. Pick(s) \in s /\ it[s] = g[Pick(s)] + it[s \ {Pick(s)}]
      BY <2>2, <3>1, AddsTo
    <3>3. jt[s] = h[Pick(s)] + jt[s \ {Pick(s)}]
      BY <2>2, <3>1, AddsTo
    <3> QED BY <3>2, <3>3
  <2>4. s \ {Pick(s)} \notin C /\ s \ {Pick(s)} \in SUBSET S
    BY <2>1, <2>3
  <2>5. it[s \ {Pick(s)}] = jt[s \ {Pick(s)}]
    BY <2>4
  <2> QED BY <2>1, <2>3, <2>5
<1> QED BY <1>1

(* A sum of naturals, integers or zeros is one.                            *)
LEMMA AddsIn ==
  ASSUME NEW A, NEW S, IsFiniteSet(S), S \subseteq A,
         NEW N \in {Nat, Int, {0}}, NEW g, \A x \in S : g[x] \in N,
         NEW it, Sums(it, g, A)
  PROVE  it[S] \in N
<1> DEFINE C == {s \in SUBSET S : it[s] \notin N}
<1>1. C = {}
  <2> SUFFICES ASSUME C # {} PROVE FALSE
    OBVIOUS
  <2>0. C \subseteq SUBSET S
    OBVIOUS
  <2>1. PICK s \in C : \A r \in C : r \subseteq s => r = s
    <3> HIDE DEF C
    <3> QED BY <2>0, SmallestSubset
  <2>2. s # {}
    <3>1. it[{}] = 0 /\ 0 \in N
      BY DEF Sums, Adds
    <3> QED BY <2>1, <3>1
  <2>3. Pick(s) \in s /\ it[s] = g[Pick(s)] + it[s \ {Pick(s)}]
    <3>1. s \subseteq A
      BY <2>1
    <3> HIDE DEF C
    <3> QED BY <2>2, <3>1, AddsTo
  <2>4. s \ {Pick(s)} \notin C /\ s \ {Pick(s)} \in SUBSET S
    BY <2>1, <2>3
  <2>5. it[s \ {Pick(s)}] \in N /\ g[Pick(s)] \in N
    BY <2>1, <2>3, <2>4
  <2>6. it[s] \in N
    BY <2>3, <2>5
  <2> QED BY <2>1, <2>6
<1> QED BY <1>1

(* Which element the recursion picks makes no difference.                  *)
LEMMA AddsOne ==
  ASSUME NEW A, IsFiniteSet(A), NEW g, \A x \in A : g[x] \in Int,
         NEW it, Sums(it, g, A), NEW S, S \subseteq A, NEW e, e \in A \ S
  PROVE  it[S \cup {e}] = it[S] + g[e]
<1> DEFINE C == {s \in SUBSET A : \E x \in A \ s : it[s \cup {x}] # it[s] + g[x]}
<1>0. \A s \in SUBSET A : it[s] \in Int
  BY AddsIn, FS_Subset
<1>1. C = {}
  <2> SUFFICES ASSUME C # {} PROVE FALSE
    OBVIOUS
  <2>0. C \subseteq SUBSET A
    OBVIOUS
  <2>1. PICK s \in C : \A r \in C : r \subseteq s => r = s
    <3> HIDE DEF C
    <3> QED BY <2>0, SmallestSubset
  <2>2. PICK x \in A \ s : it[s \cup {x}] # it[s] + g[x]
    BY <2>1
  <2> DEFINE p == Pick(s \cup {x})
  <2>3. /\ p \in s \cup {x}
        /\ it[s \cup {x}] = g[p] + it[(s \cup {x}) \ {p}]
    <3>1. s \cup {x} \subseteq A /\ s \cup {x} # {}
      BY <2>1, <2>2
    <3> DEFINE t == s \cup {x}
    <3> HIDE DEF t
    <3>2. t \subseteq A /\ t # {}
      BY <3>1 DEF t
    <3>3. Pick(t) \in t /\ it[t] = g[Pick(t)] + it[t \ {Pick(t)}]
      <4> HIDE DEF C, p
      <4> QED BY <3>2, AddsTo
    <3> QED BY <3>3 DEF t
  <2> HIDE DEF p
  <2>4. p # x
    <3> SUFFICES ASSUME p = x PROVE FALSE
      OBVIOUS
    <3>1. (s \cup {x}) \ {p} = s
      BY <2>2
    <3>2. it[s] \in Int /\ g[x] \in Int
      BY <1>0, <2>1, <2>2
    <3>3. it[s \cup {x}] = g[x] + it[s]
      BY <2>3, <3>1
    <3> QED BY <2>2, <3>2, <3>3
  <2> DEFINE r == s \ {p}
  <2>5. /\ p \in s /\ r \in SUBSET A /\ r \subseteq s /\ r # s
        /\ x \in A \ r /\ p \in A \ r
        /\ (s \cup {x}) \ {p} = r \cup {x} /\ s = r \cup {p}
    BY <2>1, <2>2, <2>3, <2>4
  <2>6. r \notin C
    BY <2>1, <2>5
  <2>7. it[r \cup {x}] = it[r] + g[x] /\ it[r \cup {p}] = it[r] + g[p]
    BY <2>5, <2>6
  <2>8. it[r] \in Int /\ g[x] \in Int /\ g[p] \in Int
    BY <1>0, <2>5
  <2>9. it[s \cup {x}] = g[p] + (it[r] + g[x]) /\ it[s] = it[r] + g[p]
    BY <2>3, <2>5, <2>7
  <2> HIDE DEF r
  <2> QED BY <2>2, <2>8, <2>9
<1> QED BY <1>1

-----------------------------------------------------------------------------
(* What the proofs use.                                                    *)

(* The empty sum.                                                          *)
LEMMA SumOfNothing ==
  ASSUME NEW g PROVE SumFunctionOnSet(g, {}) = 0
<1>1. PICK it : Sums(it, g, {}) /\ SumFunctionOnSet(g, {}) = it[{}]
  BY SumAdds, FS_EmptySet
<1> QED BY <1>1 DEF Sums, Adds

(* The range of a sum.                                                     *)
LEMMA SumIn ==
  ASSUME NEW S, IsFiniteSet(S), NEW N \in {Nat, Int, {0}}, NEW g, \A x \in S : g[x] \in N
  PROVE  SumFunctionOnSet(g, S) \in N
BY SumAdds, AddsIn

(* Equal summands, equal sums.                                             *)
LEMMA SumsAgree ==
  ASSUME NEW S, IsFiniteSet(S), NEW g, NEW h, \A x \in S : g[x] = h[x]
  PROVE  SumFunctionOnSet(g, S) = SumFunctionOnSet(h, S)
<1>1. PICK it : Sums(it, g, S) /\ SumFunctionOnSet(g, S) = it[S]
  BY SumAdds
<1>2. PICK jt : Sums(jt, h, S) /\ SumFunctionOnSet(h, S) = jt[S]
  BY SumAdds
<1> DEFINE A == S
<1>3. Sums(it, g, A) /\ Sums(jt, h, A) /\ S \subseteq A
  BY <1>1, <1>2
<1>4. it[S] = jt[S]
  <2> HIDE DEF A
  <2> QED BY <1>3, AddsAgree
<1> QED BY <1>1, <1>2, <1>4

(* One more summand.                                                       *)
LEMMA SumWithOne ==
  ASSUME NEW S, IsFiniteSet(S), NEW e, e \notin S,
         NEW g, \A x \in S \cup {e} : g[x] \in Int
  PROVE  SumFunctionOnSet(g, S \cup {e}) = SumFunctionOnSet(g, S) + g[e]
<1> DEFINE A == S \cup {e}
<1>0. IsFiniteSet(A)
  BY FS_AddElement
<1>1. PICK it : Sums(it, g, A) /\ SumFunctionOnSet(g, A) = it[A]
  BY <1>0, SumAdds
<1>2. PICK jt : Sums(jt, g, S) /\ SumFunctionOnSet(g, S) = jt[S]
  BY SumAdds
<1>3. S \subseteq A /\ e \in A \ S /\ \A x \in A : g[x] \in Int
  OBVIOUS
<1>4. it[S \cup {e}] = it[S] + g[e]
  <2> HIDE DEF A
  <2> QED BY <1>0, <1>1, <1>3, AddsOne
<1>5. it[S] = jt[S]
  <2> HIDE DEF A
  <2> QED BY <1>1, <1>2, <1>3, AddsAgree
<1> QED BY <1>1, <1>2, <1>4, <1>5

(* One summand changes.                                                    *)
LEMMA SumExcept ==
  ASSUME NEW S, IsFiniteSet(S), NEW e \in S,
         NEW g, \A x \in S : g[x] \in Int, NEW h, h[e] \in Int,
         \A x \in S \ {e} : h[x] = g[x]
  PROVE  SumFunctionOnSet(h, S) = SumFunctionOnSet(g, S) - g[e] + h[e]
<1> DEFINE R == S \ {e}
<1>1. S = R \cup {e} /\ e \notin R /\ IsFiniteSet(R)
  BY FS_RemoveElement
<1>2. /\ \A x \in R \cup {e} : g[x] \in Int /\ h[x] \in Int
      /\ \A x \in R : h[x] = g[x]
  OBVIOUS
<1> HIDE DEF R
<1>3. SumFunctionOnSet(g, R \cup {e}) = SumFunctionOnSet(g, R) + g[e]
  BY <1>1, <1>2, SumWithOne
<1>4. SumFunctionOnSet(h, R \cup {e}) = SumFunctionOnSet(h, R) + h[e]
  BY <1>1, <1>2, SumWithOne
<1>5. SumFunctionOnSet(h, R) = SumFunctionOnSet(g, R)
  BY <1>1, <1>2, SumsAgree
<1>6. SumFunctionOnSet(g, R) \in Int /\ g[e] \in Int /\ h[e] \in Int
  BY <1>1, <1>2, SumIn
<1> QED BY <1>1, <1>3, <1>4, <1>5, <1>6

(* A summand is at most the sum.                                           *)
LEMMA SumBounds ==
  ASSUME NEW S, IsFiniteSet(S), NEW e \in S, NEW g, \A x \in S : g[x] \in Nat
  PROVE  g[e] <= SumFunctionOnSet(g, S)
<1> DEFINE R == S \ {e}
<1>1. S = R \cup {e} /\ e \notin R /\ IsFiniteSet(R)
  BY FS_RemoveElement
<1>2. \A x \in R \cup {e} : g[x] \in Nat /\ g[x] \in Int
  OBVIOUS
<1> HIDE DEF R
<1>3. SumFunctionOnSet(g, R \cup {e}) = SumFunctionOnSet(g, R) + g[e]
  BY <1>1, <1>2, SumWithOne
<1>4. SumFunctionOnSet(g, R) \in Nat /\ g[e] \in Nat
  BY <1>1, <1>2, SumIn
<1> QED BY <1>1, <1>3, <1>4

(* Every finite set can be taken element by element.                       *)
LEMMA TakeOne ==
  ASSUME NEW S, IsFiniteSet(S), NEW C, C \subseteq SUBSET S, C # {}, {} \notin C
  PROVE  \E s \in C : \E x \in s : s \ {x} \in SUBSET S /\ s \ {x} \notin C
<1>1. PICK s \in C : \A r \in C : r \subseteq s => r = s
  BY SmallestSubset
<1>2. s # {} /\ s \subseteq S
  BY <1>1
<1>3. PICK x \in s : TRUE
  BY <1>2
<1>4. s \ {x} \subseteq s /\ s \ {x} # s /\ s \ {x} \in SUBSET S
  BY <1>2, <1>3
<1> QED BY <1>1, <1>3, <1>4

(* Sums over disjoint sets.                                                *)
LEMMA SumOfDisjoint ==
  ASSUME NEW A, NEW B, IsFiniteSet(A), IsFiniteSet(B), A \cap B = {},
         NEW g, \A x \in A \cup B : g[x] \in Int
  PROVE  SumFunctionOnSet(g, A \cup B) = SumFunctionOnSet(g, A) + SumFunctionOnSet(g, B)
<1> DEFINE Right(T) == SumFunctionOnSet(g, A \cup T)
                         = SumFunctionOnSet(g, A) + SumFunctionOnSet(g, T)
           C == {T \in SUBSET B : ~Right(T)}
<1>0. \A T \in SUBSET B : /\ IsFiniteSet(T) /\ IsFiniteSet(A \cup T)
                          /\ SumFunctionOnSet(g, T) \in Int
                          /\ SumFunctionOnSet(g, A \cup T) \in Int
  <2> SUFFICES ASSUME NEW T \in SUBSET B
               PROVE  /\ IsFiniteSet(T) /\ IsFiniteSet(A \cup T)
                      /\ SumFunctionOnSet(g, T) \in Int
                      /\ SumFunctionOnSet(g, A \cup T) \in Int
    OBVIOUS
  <2>1. IsFiniteSet(T) /\ IsFiniteSet(A \cup T)
    BY FS_Subset, FS_Union
  <2>2. \A x \in A \cup T : g[x] \in Int
    OBVIOUS
  <2>3. SumFunctionOnSet(g, T) \in Int
    BY <2>1, <2>2, SumIn
  <2>4. SumFunctionOnSet(g, A \cup T) \in Int
    BY <2>1, <2>2, SumIn
  <2> QED BY <2>1, <2>3, <2>4
<1>1. SumFunctionOnSet(g, A) \in Int
  BY SumIn
<1>2. Right({})
  <2>1. A \cup {} = A
    OBVIOUS
  <2> QED BY <1>1, <2>1, SumOfNothing
<1>3. C = {}
  <2> SUFFICES ASSUME C # {} PROVE FALSE
    OBVIOUS
  <2>1. C \subseteq SUBSET B /\ {} \notin C
    BY <1>2
  <2>2. PICK s \in C : \E x \in s : s \ {x} \in SUBSET B /\ s \ {x} \notin C
    <3> HIDE DEF C
    <3> QED BY <2>1, TakeOne
  <2>3. PICK x \in s : s \ {x} \in SUBSET B /\ s \ {x} \notin C
    BY <2>2
  <2> DEFINE r == s \ {x}
  <2>4. /\ r \in SUBSET B /\ x \notin r /\ x \notin A \cup r /\ s = r \cup {x}
        /\ A \cup s = (A \cup r) \cup {x} /\ x \in B
    BY <2>2, <2>3
  <2>5. Right(r) /\ ~Right(s)
    BY <2>2, <2>3
  <2> HIDE DEF r
  <2>6. SumFunctionOnSet(g, (A \cup r) \cup {x}) = SumFunctionOnSet(g, A \cup r) + g[x]
    <3>1. \A y \in (A \cup r) \cup {x} : g[y] \in Int
      BY <2>4
    <3> QED BY <1>0, <2>4, <3>1, SumWithOne
  <2>7. SumFunctionOnSet(g, r \cup {x}) = SumFunctionOnSet(g, r) + g[x]
    <3>1. \A y \in r \cup {x} : g[y] \in Int
      BY <2>4
    <3> QED BY <1>0, <2>4, <3>1, SumWithOne
  <2>8. g[x] \in Int /\ SumFunctionOnSet(g, r) \in Int
    BY <1>0, <2>4
  <2>9. SumFunctionOnSet(g, A \cup s) = SumFunctionOnSet(g, A \cup r) + g[x]
    BY <2>4, <2>6
  <2>10. SumFunctionOnSet(g, s) = SumFunctionOnSet(g, r) + g[x]
    BY <2>4, <2>7
  <2>11. SumFunctionOnSet(g, A \cup r) = SumFunctionOnSet(g, A) + SumFunctionOnSet(g, r)
    BY <2>5
  <2>12. SumFunctionOnSet(g, A \cup s) = SumFunctionOnSet(g, A) + SumFunctionOnSet(g, s)
    BY <1>1, <2>8, <2>9, <2>10, <2>11
  <2> QED BY <2>5, <2>12
<1>4. B \notin C
  BY <1>3
<1> QED BY <1>4

(* A sum can be taken group by group: the elements of S under key k.       *)
Group(S, K, k) == {x \in S : K[x] = k}

LEMMA SumByKey ==
  ASSUME NEW S, IsFiniteSet(S), NEW g, \A x \in S : g[x] \in Int,
         NEW K, NEW D, IsFiniteSet(D), \A x \in S : K[x] \in D,
         NEW h, \A k \in D : h[k] = SumFunctionOnSet(g, Group(S, K, k))
  PROVE  SumFunctionOnSet(h, D) = SumFunctionOnSet(g, S)
<1> DEFINE H(T) == [k \in D |-> SumFunctionOnSet(g, Group(T, K, k))]
           Right(T) == SumFunctionOnSet(H(T), D) = SumFunctionOnSet(g, T)
           C == {T \in SUBSET S : ~Right(T)}
<1>0. ASSUME NEW T \in SUBSET S
      PROVE  /\ IsFiniteSet(T) /\ SumFunctionOnSet(g, T) \in Int
             /\ \A k \in D : IsFiniteSet(Group(T, K, k)) /\ H(T)[k] \in Int
             /\ SumFunctionOnSet(H(T), D) \in Int
  <2>1. IsFiniteSet(T) /\ \A k \in D : IsFiniteSet(Group(T, K, k))
    <3>1. \A k \in D : Group(T, K, k) \subseteq S
      BY DEF Group
    <3> QED BY <3>1, FS_Subset
  <2>2. ASSUME NEW k \in D PROVE H(T)[k] \in Int
    <3>1. \A x \in Group(T, K, k) : g[x] \in Int
      BY DEF Group
    <3>2. SumFunctionOnSet(g, Group(T, K, k)) \in Int
      BY <2>1, <3>1, SumIn
    <3> QED BY <3>2
  <2>3. SumFunctionOnSet(g, T) \in Int
    <3>1. \A x \in T : g[x] \in Int
      OBVIOUS
    <3> QED BY <2>1, <3>1, SumIn
  <2>4. SumFunctionOnSet(H(T), D) \in Int
    <3> HIDE DEF H
    <3> QED BY <2>2, SumIn
  <2> QED BY <2>1, <2>2, <2>3, <2>4
<1>1. Right({})
  <2>1. \A k \in D : H({})[k] \in {0}
    <3>1. \A k : Group({}, K, k) = {}
      BY DEF Group
    <3> QED BY <3>1, SumOfNothing
  <2>2. SumFunctionOnSet(H({}), D) \in {0}
    <3> HIDE DEF H
    <3> QED BY <2>1, SumIn
  <2> QED BY <2>2, SumOfNothing
<1>2. C = {}
  <2> SUFFICES ASSUME C # {} PROVE FALSE
    OBVIOUS
  <2>1. C \subseteq SUBSET S /\ {} \notin C
    BY <1>1
  <2>2. PICK s \in C : \E x \in s : s \ {x} \in SUBSET S /\ s \ {x} \notin C
    <3> HIDE DEF C
    <3> QED BY <2>1, TakeOne
  <2>3. PICK x \in s : s \ {x} \in SUBSET S /\ s \ {x} \notin C
    BY <2>2
  <2> DEFINE r == s \ {x}
             k == K[x]
  <2>4. /\ s \in SUBSET S /\ r \in SUBSET S /\ x \notin r /\ s = r \cup {x} /\ x \in S /\ k \in D
        /\ Group(s, K, k) = Group(r, K, k) \cup {x} /\ x \notin Group(r, K, k)
        /\ \A j \in D \ {k} : Group(s, K, j) = Group(r, K, j)
    BY <2>2, <2>3 DEF Group
  <2>5. Right(r) /\ ~Right(s)
    BY <2>2, <2>3
  <2> HIDE DEF r
  <2>6. SumFunctionOnSet(g, r \cup {x}) = SumFunctionOnSet(g, r) + g[x]
    <3>1. \A y \in r \cup {x} : g[y] \in Int
      BY <2>4
    <3>2. IsFiniteSet(r) /\ x \notin r
      BY <1>0, <2>4
    <3> QED BY <3>1, <3>2, SumWithOne
  <2>7. H(s)[k] = H(r)[k] + g[x]
    <3>1. SumFunctionOnSet(g, Group(r, K, k) \cup {x}) = SumFunctionOnSet(g, Group(r, K, k)) + g[x]
      <4>1. \A y \in Group(r, K, k) \cup {x} : g[y] \in Int
        BY <2>4 DEF Group
      <4>2. IsFiniteSet(Group(r, K, k)) /\ x \notin Group(r, K, k)
        BY <1>0, <2>4
      <4> QED BY <4>1, <4>2, SumWithOne
    <3> QED BY <2>4, <3>1
  <2>8. \A j \in D \ {k} : H(s)[j] = H(r)[j]
    BY <2>4
  <2>9. /\ \A j \in D : H(r)[j] \in Int /\ H(s)[j] \in Int
        /\ SumFunctionOnSet(H(r), D) \in Int
    BY <1>0, <2>4
  <2>10. SumFunctionOnSet(H(s), D) = SumFunctionOnSet(H(r), D) - H(r)[k] + H(s)[k]
    <3>1. k \in D
      BY <2>4
    <3> HIDE DEF H, k
    <3> QED BY <2>8, <2>9, <3>1, SumExcept
  <2>11. /\ SumFunctionOnSet(g, s) = SumFunctionOnSet(g, r) + g[x]
         /\ g[x] \in Int /\ SumFunctionOnSet(g, r) \in Int
    BY <1>0, <2>4, <2>6
  <2> HIDE DEF H
  <2>12. SumFunctionOnSet(H(s), D) = SumFunctionOnSet(g, s)
    <3>1. k \in D /\ SumFunctionOnSet(H(r), D) = SumFunctionOnSet(g, r)
      BY <2>4, <2>5
    <3> HIDE DEF k
    <3> QED BY <2>7, <2>9, <2>10, <2>11, <3>1
  <2> QED BY <2>5, <2>12
<1>3. SumFunctionOnSet(H(S), D) = SumFunctionOnSet(g, S)
  <2>1. S \notin C /\ S \in SUBSET S
    BY <1>2
  <2> QED BY <2>1
<1>4. SumFunctionOnSet(h, D) = SumFunctionOnSet(H(S), D)
  <2>1. \A k \in D : h[k] = H(S)[k]
    OBVIOUS
  <2> HIDE DEF H
  <2> QED BY <2>1, SumsAgree
<1> QED BY <1>3, <1>4
=============================================================================
