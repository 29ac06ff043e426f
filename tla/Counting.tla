------------------------------ MODULE Counting ------------------------------
(***************************************************************************)
(* Facts about numbers that the proofs share: least elements, sums and     *)
(* ranks.  Induction is by a counterexample of least size.                 *)
(*                                                                         *)
(* SumFunction is a sum over a finite set in an order left open; of an     *)
(* integer function F it is Total(F).  The rank of a number is how many    *)
(* members of a set are below it, for a set of numbers below n.            *)
(***************************************************************************)
EXTENDS Functions, FiniteSetTheorems, WellFoundedInduction, TLAPS

Pick(s) == CHOOSE x \in s : TRUE

Sums(g, F) ==
  g = [s \in SUBSET DOMAIN F |-> IF s = {} THEN 0 ELSE F[Pick(s)] + g[s \ {Pick(s)}]]

SumOf(F) == CHOOSE g : Sums(g, F)
Total(F) == SumOf(F)[DOMAIN F]

LEMMA LeastExists ==
  ASSUME NEW T, T \subseteq Nat, T # {}
  PROVE  \E x \in T : \A y \in T : x <= y
<1> DEFINE R == OpToRel(<, Nat)
<1>1. PICK x \in T : \A y \in T : ~ (<<y, x>> \in R)
  <2>1. IsWellFoundedOn(R, Nat)
    BY NatLessThanWellFounded
  <2> HIDE DEF R
  <2> QED
    BY <2>1, WFMin, Zenon
<1>2. ASSUME NEW y \in T
      PROVE  x <= y
  <2>1. ~ (<<y, x>> \in R) /\ <<y, x>> \in Nat \X Nat
    BY <1>1
  <2>2. ~ (y < x)
    BY <2>1 DEF OpToRel
  <2> QED
    BY <2>2
<1> QED
  BY <1>2

(* A set of numbers that starts at 0 and goes on up to N is all of them.   *)
LEMMA AllReached ==
  ASSUME NEW N \in Nat, NEW T, T \subseteq 0 .. N, 0 \in T,
         \A n \in T : n < N => n + 1 \in T
  PROVE  T = 0 .. N
<1> DEFINE Missing == (0 .. N) \ T
<1>1. SUFFICES ASSUME Missing # {} PROVE FALSE
  OBVIOUS
<1>2. Missing \subseteq Nat
  OBVIOUS
<1>3. PICK x \in Missing : \A y \in Missing : x <= y
  <2> HIDE DEF Missing
  <2> QED
    BY <1>1, <1>2, LeastExists
<1>4. x \in Nat /\ x # 0 /\ x <= N
  OBVIOUS
<1>5. x - 1 \in 0 .. N /\ x - 1 \notin Missing
  BY <1>3, <1>4
<1>6. x - 1 \in T /\ x - 1 < N /\ (x - 1) + 1 = x
  BY <1>4, <1>5
<1>7. x \in T
  BY <1>6
<1> QED
  BY <1>7

(* Of the finite sets of a collection one is least in size.                *)
LEMMA SmallestExists ==
  ASSUME NEW C, C # {}, \A s \in C : IsFiniteSet(s)
  PROVE  \E s \in C : \A t \in C : Cardinality(s) <= Cardinality(t)
<1> DEFINE T == { Cardinality(s) : s \in C }
<1>1. T \subseteq Nat /\ T # {}
  BY FS_CardinalityType
<1>2. PICK n \in T : \A m \in T : n <= m
  BY <1>1, LeastExists
<1> QED
  BY <1>2

LEMMA Picked ==
  ASSUME NEW s, IsFiniteSet(s), s # {}
  PROVE  /\ Pick(s) \in s
         /\ IsFiniteSet(s \ {Pick(s)})
         /\ Cardinality(s) \in Nat \ {0}
         /\ Cardinality(s \ {Pick(s)}) = Cardinality(s) - 1
<1>1. Pick(s) \in s
  BY DEF Pick
<1>2. Cardinality(s) \in Nat /\ Cardinality(s) # 0
  BY FS_CardinalityType, FS_EmptySet
<1> QED
  BY <1>1, <1>2, FS_RemoveElement

-----------------------------------------------------------------------------
(* There is a function that sums. *)

LEMMA SumExists ==
  ASSUME NEW F, IsFiniteSet(DOMAIN F)
  PROVE  Sums(SumOf(F), F)
<1> DEFINE D == DOMAIN F
           Small(n) == { s \in SUBSET D : Cardinality(s) <= n }
           Equation(g, n) ==
             g = [s \in Small(n) |-> IF s = {} THEN 0 ELSE F[Pick(s)] + g[s \ {Pick(s)}]]
           T == { n \in Nat : ~ \E g : Equation(g, n) }
<1>1. \A s \in SUBSET D : IsFiniteSet(s) /\ Cardinality(s) \in Nat /\ Cardinality(s) <= Cardinality(D)
  BY FS_Subset, FS_CardinalityType
<1>2. \E g : Equation(g, 0)
  <2> DEFINE g == [s \in Small(0) |-> 0]
  <2>1. \A s \in Small(0) : s = {}
    BY <1>1, FS_EmptySet
  <2>2. Equation(g, 0)
    BY <2>1
  <2> QED
    BY <2>2
<1>3. ASSUME NEW n \in Nat, NEW g, Equation(g, n)
      PROVE  \E h : Equation(h, n + 1)
  <2> DEFINE h == [s \in Small(n + 1) |-> IF s = {} THEN 0 ELSE F[Pick(s)] + g[s \ {Pick(s)}]]
  <2>1. ASSUME NEW s \in Small(n + 1), s # {}
        PROVE  s \ {Pick(s)} \in Small(n) /\ s \ {Pick(s)} \in Small(n + 1)
    <3>1. IsFiniteSet(s) /\ Cardinality(s) \in Nat
      BY <1>1
    <3>2. Cardinality(s \ {Pick(s)}) = Cardinality(s) - 1
      BY <2>1, <3>1, Picked
    <3> QED
      BY <3>1, <3>2
  <2>2. \A t \in Small(n) : t \in Small(n + 1)
    BY <1>1
  <2>3. \A t \in Small(n) : h[t] = g[t]
    BY <1>3, <2>2
  <2>4. \A s \in Small(n + 1) : s # {} => h[s \ {Pick(s)}] = g[s \ {Pick(s)}]
    BY <2>1, <2>3
  <2>5. Equation(h, n + 1)
    BY <2>4
  <2> HIDE DEF Equation
  <2> QED
    BY <2>5
<1>4. T = {}
  <2>1. SUFFICES ASSUME T # {} PROVE FALSE
    OBVIOUS
  <2>2. PICK n \in T : \A m \in T : n <= m
    <3>1. T \subseteq Nat
      OBVIOUS
    <3> HIDE DEF T
    <3> QED
      BY <2>1, <3>1, LeastExists
  <2> HIDE DEF Equation
  <2>3. n # 0 /\ n \in Nat
    BY <1>2
  <2>4. n - 1 \in Nat /\ n - 1 \notin T /\ (n - 1) + 1 = n
    BY <2>2, <2>3
  <2>5. PICK g : Equation(g, n - 1)
    BY <2>4
  <2>6. \E h : Equation(h, (n - 1) + 1)
    BY <1>3, <2>4, <2>5
  <2> QED
    BY <2>4, <2>6
<1>5. PICK g : Equation(g, Cardinality(D))
  <2>1. Cardinality(D) \in Nat
    BY <1>1
  <2> HIDE DEF Equation
  <2> QED
    BY <1>4, <2>1
<1>6. Small(Cardinality(D)) = SUBSET D
  BY <1>1
<1>7. Sums(g, F)
  BY <1>5, <1>6 DEF Sums
<1> QED
  BY <1>7 DEF SumOf

LEMMA SumSteps ==
  ASSUME NEW F, IsFiniteSet(DOMAIN F)
  PROVE  /\ SumOf(F)[{}] = 0
         /\ \A s \in SUBSET DOMAIN F :
              s # {} => SumOf(F)[s] = F[Pick(s)] + SumOf(F)[s \ {Pick(s)}]
<1> DEFINE g == SumOf(F)
<1>1. Sums(g, F)
  BY SumExists
<1> HIDE DEF g
<1>2. g[{}] = 0 /\ \A s \in SUBSET DOMAIN F : s # {} => g[s] = F[Pick(s)] + g[s \ {Pick(s)}]
  BY <1>1 DEF Sums
<1> QED
  BY <1>2 DEF g

-----------------------------------------------------------------------------
(* What a sum is. *)

LEMMA SumInt ==
  ASSUME NEW F, IsFiniteSet(DOMAIN F), \A x \in DOMAIN F : F[x] \in Int
  PROVE  \A s \in SUBSET DOMAIN F : SumOf(F)[s] \in Int
<1> DEFINE g == SumOf(F)
           C == { s \in SUBSET DOMAIN F : g[s] \notin Int }
<1>1. SUFFICES ASSUME C # {} PROVE FALSE
  OBVIOUS
<1>2. \A s \in SUBSET DOMAIN F : IsFiniteSet(s)
  BY FS_Subset
<1>3. PICK s \in C : \A t \in C : Cardinality(s) <= Cardinality(t)
  <2>1. \A t \in C : IsFiniteSet(t)
    BY <1>2
  <2> HIDE DEF C
  <2> QED
    BY <1>1, <2>1, SmallestExists
<1> HIDE DEF g
<1>4. s # {}
  <2>1. g[{}] = 0 /\ g[s] \notin Int
    BY SumSteps DEF g
  <2> QED
    BY <2>1
<1> DEFINE r == s \ {Pick(s)}
<1>5. Pick(s) \in s /\ Cardinality(r) = Cardinality(s) - 1 /\ Cardinality(s) \in Nat
  BY <1>2, <1>4, Picked
<1>6. r \notin C /\ r \in SUBSET DOMAIN F
  <2>1. ~(Cardinality(s) <= Cardinality(r))
    BY <1>5
  <2> QED
    BY <1>3, <2>1
<1>7. g[s] = F[Pick(s)] + g[r]
  BY <1>4, SumSteps DEF g
<1> QED
  BY <1>5, <1>6, <1>7

LEMMA SumNat ==
  ASSUME NEW F, IsFiniteSet(DOMAIN F), \A x \in DOMAIN F : F[x] \in Nat
  PROVE  \A s \in SUBSET DOMAIN F : SumOf(F)[s] \in Nat
<1> DEFINE g == SumOf(F)
           C == { s \in SUBSET DOMAIN F : g[s] \notin Nat }
<1>1. SUFFICES ASSUME C # {} PROVE FALSE
  OBVIOUS
<1>2. \A s \in SUBSET DOMAIN F : IsFiniteSet(s)
  BY FS_Subset
<1>3. PICK s \in C : \A t \in C : Cardinality(s) <= Cardinality(t)
  <2>1. \A t \in C : IsFiniteSet(t)
    BY <1>2
  <2> HIDE DEF C
  <2> QED
    BY <1>1, <2>1, SmallestExists
<1> HIDE DEF g
<1>4. s # {}
  BY SumSteps DEF g
<1> DEFINE r == s \ {Pick(s)}
<1>5. Pick(s) \in s /\ Cardinality(r) = Cardinality(s) - 1 /\ Cardinality(s) \in Nat
  BY <1>2, <1>4, Picked
<1>6. r \notin C /\ r \in SUBSET DOMAIN F
  <2>1. ~(Cardinality(s) <= Cardinality(r))
    BY <1>5
  <2> QED
    BY <1>3, <2>1
<1>7. g[s] = F[Pick(s)] + g[r]
  BY <1>4, SumSteps DEF g
<1> QED
  BY <1>5, <1>6, <1>7

(* A sum may begin with any element.                                       *)
LEMMA SumTakes ==
  ASSUME NEW F, IsFiniteSet(DOMAIN F), \A x \in DOMAIN F : F[x] \in Int
  PROVE  \A s \in SUBSET DOMAIN F : \A y \in s : SumOf(F)[s] = F[y] + SumOf(F)[s \ {y}]
<1> DEFINE g == SumOf(F)
           C == { s \in SUBSET DOMAIN F : \E y \in s : g[s] # F[y] + g[s \ {y}] }
<1>1. SUFFICES ASSUME C # {} PROVE FALSE
  OBVIOUS
<1>2. \A s \in SUBSET DOMAIN F : IsFiniteSet(s)
  BY FS_Subset
<1>3. PICK s \in C : \A t \in C : Cardinality(s) <= Cardinality(t)
  <2>1. \A t \in C : IsFiniteSet(t)
    BY <1>2
  <2> HIDE DEF C
  <2> QED
    BY <1>1, <2>1, SmallestExists
<1>4. \A t \in SUBSET DOMAIN F : g[t] \in Int
  BY SumInt
<1> HIDE DEF g
<1>5. PICK y \in s : g[s] # F[y] + g[s \ {y}]
  OBVIOUS
<1> DEFINE x == Pick(s)
<1>6. x \in s /\ g[s] = F[x] + g[s \ {x}]
  BY <1>2, <1>5, Picked, SumSteps DEF g
<1> HIDE DEF x
<1>7. x # y
  BY <1>5, <1>6
<1>8. ASSUME NEW z \in s
      PROVE  s \ {z} \in SUBSET DOMAIN F /\ s \ {z} \notin C
  <2>1. Cardinality(s) \in Nat /\ Cardinality(s \ {z}) = Cardinality(s) - 1
    BY <1>2, FS_CardinalityType, FS_RemoveElement
  <2>2. ~(Cardinality(s) <= Cardinality(s \ {z}))
    BY <2>1
  <2> QED
    BY <1>3, <2>2
<1>9. y \in s \ {x} /\ x \in s \ {y} /\ (s \ {x}) \ {y} = (s \ {y}) \ {x}
  BY <1>6, <1>7
<1> DEFINE rest == (s \ {x}) \ {y}
<1>10. g[s \ {x}] = F[y] + g[rest]
  BY <1>6, <1>8, <1>9
<1>11. g[s \ {y}] = F[x] + g[(s \ {y}) \ {x}]
  BY <1>8, <1>9
<1>12. rest \in SUBSET DOMAIN F /\ g[rest] \in Int /\ F[x] \in Int /\ F[y] \in Int
  BY <1>4, <1>6
<1> HIDE DEF rest
<1>13. g[s] = F[x] + (F[y] + g[rest]) /\ g[s \ {y}] = F[x] + g[rest]
  BY <1>6, <1>9, <1>10, <1>11 DEF rest
<1> QED
  BY <1>5, <1>12, <1>13

(* Functions that agree on a set have one sum over it.                     *)
LEMMA SumsAgree ==
  ASSUME NEW F, NEW G, IsFiniteSet(DOMAIN F), IsFiniteSet(DOMAIN G),
         NEW S, S \subseteq DOMAIN F, S \subseteq DOMAIN G, \A x \in S : F[x] = G[x]
  PROVE  SumOf(F)[S] = SumOf(G)[S]
<1> DEFINE g == SumOf(F)
           h == SumOf(G)
           C == { s \in SUBSET S : g[s] # h[s] }
<1>1. SUFFICES ASSUME C # {} PROVE FALSE
  OBVIOUS
<1>2. \A s \in SUBSET S : IsFiniteSet(s) /\ s \in SUBSET DOMAIN F /\ s \in SUBSET DOMAIN G
  <2>1. \A s \in SUBSET S : s \in SUBSET DOMAIN F /\ s \in SUBSET DOMAIN G
    OBVIOUS
  <2> QED
    BY <2>1, FS_Subset
<1>3. PICK s \in C : \A t \in C : Cardinality(s) <= Cardinality(t)
  <2>1. \A t \in C : IsFiniteSet(t)
    BY <1>2
  <2> HIDE DEF C
  <2> QED
    BY <1>1, <2>1, SmallestExists
<1> HIDE DEF g, h
<1>4. s # {}
  BY SumSteps DEF g, h
<1> DEFINE r == s \ {Pick(s)}
<1>5. Pick(s) \in s /\ Cardinality(r) = Cardinality(s) - 1 /\ Cardinality(s) \in Nat
  BY <1>2, <1>4, Picked
<1>6. r \notin C /\ r \in SUBSET S
  <2>1. ~(Cardinality(s) <= Cardinality(r))
    BY <1>5
  <2> QED
    BY <1>3, <2>1
<1>7. g[s] = F[Pick(s)] + g[r] /\ h[s] = G[Pick(s)] + h[r]
  BY <1>2, <1>4, SumSteps DEF g, h
<1> QED
  BY <1>5, <1>6, <1>7

-----------------------------------------------------------------------------
(* Sums of functions over their domain. *)

LEMMA TotalType ==
  ASSUME NEW F, IsFiniteSet(DOMAIN F), \A x \in DOMAIN F : F[x] \in Int
  PROVE  /\ Total(F) \in Int
         /\ (\A x \in DOMAIN F : F[x] \in Nat) => Total(F) \in Nat
<1>1. Total(F) \in Int
  BY SumInt DEF Total
<1>2. ASSUME \A x \in DOMAIN F : F[x] \in Nat
      PROVE  Total(F) \in Nat
  BY <1>2, SumNat DEF Total
<1> QED
  BY <1>1, <1>2

LEMMA TotalEmpty ==
  ASSUME NEW F, DOMAIN F = {}
  PROVE  Total(F) = 0
  BY SumSteps, FS_EmptySet DEF Total

(* One value more.                                                         *)
LEMMA TotalExtends ==
  ASSUME NEW F, NEW G, NEW y, IsFiniteSet(DOMAIN F), y \notin DOMAIN F,
         DOMAIN G = DOMAIN F \union {y}, \A x \in DOMAIN F : F[x] = G[x],
         \A x \in DOMAIN G : G[x] \in Int
  PROVE  Total(G) = Total(F) + G[y]
<1>1. IsFiniteSet(DOMAIN G)
  BY FS_AddElement
<1>2. y \in DOMAIN G /\ (DOMAIN G) \ {y} = DOMAIN F
  OBVIOUS
<1>3. Total(G) = G[y] + SumOf(G)[DOMAIN F]
  BY <1>1, <1>2, SumTakes DEF Total
<1>4. SumOf(G)[DOMAIN F] = Total(F)
  BY <1>1, <1>2, SumsAgree DEF Total
<1>5. Total(F) \in Int /\ G[y] \in Int
  BY <1>2, TotalType
<1> QED
  BY <1>3, <1>4, <1>5

(* One value other.                                                        *)
LEMMA TotalChanges ==
  ASSUME NEW F, NEW G, NEW y \in DOMAIN F, IsFiniteSet(DOMAIN F), DOMAIN G = DOMAIN F,
         \A x \in DOMAIN F : x # y => F[x] = G[x],
         \A x \in DOMAIN F : F[x] \in Int /\ G[x] \in Int
  PROVE  Total(G) = Total(F) + (G[y] - F[y])
<1> DEFINE rest == (DOMAIN F) \ {y}
<1>1. Total(F) = F[y] + SumOf(F)[rest]
  BY SumTakes DEF Total
<1>2. Total(G) = G[y] + SumOf(G)[rest]
  <2>1. y \in DOMAIN G /\ IsFiniteSet(DOMAIN G) /\ \A x \in DOMAIN G : G[x] \in Int
    OBVIOUS
  <2>2. SumOf(G)[DOMAIN G] = G[y] + SumOf(G)[(DOMAIN G) \ {y}]
    BY <2>1, SumTakes
  <2> QED
    BY <2>2 DEF Total
<1>3. SumOf(F)[rest] = SumOf(G)[rest]
  BY SumsAgree
<1>4. SumOf(F)[rest] \in Int /\ F[y] \in Int /\ G[y] \in Int
  BY SumInt
<1> QED
  BY <1>1, <1>2, <1>3, <1>4

(* SumFunction is that sum.                                                *)
LEMMA SumIsTotal ==
  ASSUME NEW F
  PROVE  SumFunction(F) = Total(F)
  BY DEF SumFunction, SumFunctionOnSet, FoldFunctionOnSet, MapThenFoldSet, Total, SumOf, Sums, Pick

-----------------------------------------------------------------------------
(* Ranks. *)

RankOf(S, s) == Cardinality({ t \in S : t < s })

LEMMA RankTypes ==
  ASSUME NEW n \in Nat, NEW S, S \subseteq 0 .. n - 1
  PROVE  /\ S \subseteq Nat
         /\ IsFiniteSet(S)
         /\ Cardinality(S) \in Nat /\ Cardinality(S) <= n
         /\ \A s \in Nat : IsFiniteSet({ t \in S : t < s }) /\ RankOf(S, s) \in Nat
<1>1. IsFiniteSet(0 .. n - 1) /\ Cardinality(0 .. n - 1) = n
  <2>1. 0 \in Int /\ n - 1 \in Int
    OBVIOUS
  <2>2. /\ IsFiniteSet(0 .. n - 1)
        /\ Cardinality(0 .. n - 1) = IF 0 > n - 1 THEN 0 ELSE (n - 1) - 0 + 1
    BY <2>1, FS_Interval
  <2> QED
    BY <2>2
<1>2. IsFiniteSet(S) /\ Cardinality(S) \in Nat /\ Cardinality(S) <= n
  BY <1>1, FS_Subset, FS_CardinalityType
<1>3. ASSUME NEW s \in Nat
      PROVE  IsFiniteSet({ t \in S : t < s }) /\ RankOf(S, s) \in Nat
  <2>1. IsFiniteSet({ t \in S : t < s })
    BY <1>2, FS_Subset
  <2> QED
    BY <2>1, FS_CardinalityType DEF RankOf
<1> QED
  BY <1>2, <1>3

(* Passing a member raises the rank by one, passing anything else does not. *)
LEMMA RankSteps ==
  ASSUME NEW n \in Nat, NEW S, S \subseteq 0 .. n - 1, NEW s \in Nat
  PROVE  RankOf(S, s + 1) = IF s \in S THEN RankOf(S, s) + 1 ELSE RankOf(S, s)
<1> DEFINE below == { t \in S : t < s }
           upto  == { t \in S : t < s + 1 }
<1>1. IsFiniteSet(below) /\ \A t \in S : t \in Nat
  BY RankTypes
<1>2. \A t \in S : t < s + 1 <=> t < s \/ t = s
  BY <1>1
<1>3. ~(s < s)
  OBVIOUS
<1>4. CASE s \in S
  <2>1. upto = below \union {s} /\ s \notin below
    BY <1>2, <1>3, <1>4
  <2>2. Cardinality(below \union {s}) = Cardinality(below) + 1
    BY <1>1, <2>1, FS_AddElement
  <2> QED
    BY <1>4, <2>1, <2>2 DEF RankOf
<1>5. CASE s \notin S
  <2>1. upto = below
    BY <1>2, <1>5
  <2> QED
    BY <1>5, <2>1 DEF RankOf
<1> QED
  BY <1>4, <1>5

(* Two members never have one rank.                                        *)
LEMMA RanksGrow ==
  ASSUME NEW n \in Nat, NEW S, S \subseteq 0 .. n - 1, NEW s \in S, NEW t \in S, s < t
  PROVE  RankOf(S, s) < RankOf(S, t)
<1> DEFINE below == { u \in S : u < s }
           under == { u \in S : u < t }
<1>1. \A u \in S : u \in Nat
  BY RankTypes
<1>2. /\ IsFiniteSet(below) /\ IsFiniteSet(under)
      /\ Cardinality(below) \in Nat /\ Cardinality(under) \in Nat
  BY <1>1, RankTypes, FS_CardinalityType
<1>3. \A u \in S : u < s => u < t
  BY <1>1
<1>4. ~(s < s)
  BY <1>1
<1>5. below \union {s} \subseteq under /\ s \notin below
  BY <1>3, <1>4
<1>6. Cardinality(below \union {s}) = Cardinality(below) + 1
  BY <1>2, <1>5, FS_AddElement
<1>7. Cardinality(below \union {s}) <= Cardinality(under)
  BY <1>2, <1>5, FS_Subset
<1>8. RankOf(S, s) = Cardinality(below) /\ RankOf(S, t) = Cardinality(under)
  BY DEF RankOf
<1> HIDE DEF below, under
<1> QED
  BY <1>2, <1>6, <1>7, <1>8

LEMMA RankIdentifies ==
  ASSUME NEW n \in Nat, NEW S, S \subseteq 0 .. n - 1,
         NEW s \in S, NEW t \in S, RankOf(S, s) = RankOf(S, t)
  PROVE  s = t
<1>1. s \in Nat /\ t \in Nat /\ RankOf(S, s) \in Nat /\ RankOf(S, t) \in Nat
  BY RankTypes
<1>2. ~(s < t)
  <2>1. s < t => RankOf(S, s) < RankOf(S, t)
    BY RanksGrow
  <2> QED
    BY <1>1, <2>1
<1>3. ~(t < s)
  <2>1. t < s => RankOf(S, t) < RankOf(S, s)
    BY RanksGrow
  <2> QED
    BY <1>1, <2>1
<1> QED
  BY <1>1, <1>2, <1>3

(* The ranks of the members are the numbers below their number.            *)
LEMMA RankBounds ==
  ASSUME NEW n \in Nat, NEW S, S \subseteq 0 .. n - 1, NEW s \in S
  PROVE  RankOf(S, s) \in 0 .. Cardinality(S) - 1
<1>1. s \in Nat /\ RankOf(S, s) \in Nat /\ IsFiniteSet(S) /\ Cardinality(S) \in Nat
  <2>1. S \subseteq Nat /\ IsFiniteSet(S) /\ Cardinality(S) \in Nat
    BY RankTypes
  <2>2. \A u \in Nat : RankOf(S, u) \in Nat
    BY RankTypes
  <2> QED
    BY <2>1, <2>2
<1>2. RankOf(S, s + 1) = RankOf(S, s) + 1
  BY <1>1, RankSteps
<1>3. RankOf(S, s + 1) <= Cardinality(S)
  BY <1>1, FS_Subset DEF RankOf
<1> QED
  BY <1>1, <1>2, <1>3

LEMMA RankReached ==
  ASSUME NEW n \in Nat, NEW S, S \subseteq 0 .. n - 1, NEW k \in 0 .. Cardinality(S) - 1
  PROVE  \E s \in S : RankOf(S, s) = k
<1> DEFINE T == { s \in Nat : k < RankOf(S, s) }
<1>1. /\ S \subseteq Nat /\ Cardinality(S) \in Nat
      /\ \A s \in Nat : RankOf(S, s) \in Nat
  <2>1. S \subseteq Nat /\ Cardinality(S) \in Nat
    BY RankTypes
  <2>2. \A s \in Nat : RankOf(S, s) \in Nat
    BY RankTypes
  <2> QED
    BY <2>1, <2>2
<1>2. RankOf(S, 0) = 0 /\ RankOf(S, n) = Cardinality(S)
  <2>1. \A t \in S : ~(t < 0) /\ t < n
    OBVIOUS
  <2>2. { t \in S : t < 0 } = {} /\ { t \in S : t < n } = S
    BY <2>1
  <2> QED
    BY <2>2, FS_EmptySet DEF RankOf
<1>3. n \in T
  BY <1>1, <1>2
<1>4. PICK t \in T : \A u \in T : t <= u
  <2>1. T \subseteq Nat /\ T # {}
    BY <1>3
  <2> HIDE DEF T
  <2> QED
    BY <2>1, LeastExists
<1>5. t # 0
  BY <1>2
<1> DEFINE s == t - 1
<1>6. s \in Nat /\ t = s + 1 /\ ~(t <= s)
  BY <1>5
<1> HIDE DEF s
<1>7. ~(k < RankOf(S, s)) /\ k < RankOf(S, s + 1)
  BY <1>4, <1>6
<1>8. s \in S /\ RankOf(S, s) = k
  <2>1. RankOf(S, s + 1) = IF s \in S THEN RankOf(S, s) + 1 ELSE RankOf(S, s)
    BY <1>6, RankSteps
  <2>2. RankOf(S, s) \in Nat /\ k \in Nat
    BY <1>1, <1>6
  <2> QED
    BY <1>7, <2>1, <2>2
<1> QED
  BY <1>8

=============================================================================
