------------------------------- MODULE Sums -------------------------------
(***************************************************************************)
(* What the sums of the models are: SumFunction and SumFunctionOnSet of    *)
(* the module Functions are folds, that is, functions chosen to satisfy a  *)
(* recursive equation.  For finite sets there is such a function, it does  *)
(* not depend on the order in which elements are chosen, and so a sum      *)
(* grows by the term that is added.                                        *)
(*                                                                         *)
(* The induction is on sets of finite sets instead of predicates.          *)
(***************************************************************************)
EXTENDS Integers, FiniteSets, Functions, FiniteSetTheorems, WellFoundedInduction,
        TLAPS

\* A set of numbers has a least one, ...
LEMMA SmallestNumber ==
    ASSUME NEW N, N \subseteq Nat, N # {}
    PROVE  \E n \in N : \A m \in N : n <= m
  <1>1. PICK n \in N : \A m \in N : ~(<<m, n>> \in OpToRel(<, Nat))
    BY NatLessThanWellFounded, WFMin
  <1>2. \A m \in N : ~(m < n)
    BY <1>1 DEF OpToRel
  <1> QED
    BY <1>2

\* ... and a set of finite sets has a smallest one.
LEMMA SmallestSet ==
    ASSUME NEW F, F # {}, \A T \in F : IsFiniteSet(T)
    PROVE  \E T \in F : \A U \in F : ~(Cardinality(U) < Cardinality(T))
  <1> DEFINE N == {Cardinality(T) : T \in F}
  <1>1. N \subseteq Nat /\ N # {}
    BY FS_CardinalityType
  <1>2. PICK n \in N : \A m \in N : n <= m
    BY <1>1, SmallestNumber
  <1>3. PICK T \in F : n = Cardinality(T)
    BY <1>2
  <1>4. \A U \in F : n <= Cardinality(U) /\ Cardinality(U) \in Nat
    BY <1>2, FS_CardinalityType
  <1> QED
    BY <1>3, <1>4

\* Taking an element away leaves one less.
LEMMA OneLess ==
    ASSUME NEW S, IsFiniteSet(S), NEW c \in S
    PROVE  /\ IsFiniteSet(S \ {c}) /\ Cardinality(S \ {c}) = Cardinality(S) - 1
           /\ Cardinality(S) \in Nat \ {0}
  <1>1. Cardinality(S) \in Nat /\ Cardinality(S) # 0
    BY FS_CardinalityType, FS_EmptySet
  <1> QED
    BY <1>1, FS_RemoveElement

\* A set that contains the empty set and, with the sets that have one element
\* less, every subset of a finite set, contains them all.
LEMMA SubsetInduction ==
    ASSUME NEW S, IsFiniteSet(S), NEW G, {} \in G,
           \A s \in SUBSET S : s # {} /\ (\A x \in s : s \ {x} \in G) => s \in G
    PROVE  SUBSET S \subseteq G
  <1> DEFINE Bad == (SUBSET S) \ G
  <1> SUFFICES ASSUME Bad # {} PROVE FALSE
    OBVIOUS
  <1>1. \A s \in Bad : IsFiniteSet(s) /\ s # {}
    BY FS_Subset
  <1>2. PICK s \in Bad : \A t \in Bad : ~(Cardinality(t) < Cardinality(s))
    BY <1>1, SmallestSet
  <1>3. PICK x \in s : s \ {x} \notin G
    BY <1>1
  <1>4. s \ {x} \in Bad
    BY <1>3
  <1>5. Cardinality(s \ {x}) < Cardinality(s)
    <2>1. Cardinality(s \ {x}) = Cardinality(s) - 1 /\ Cardinality(s) \in Nat
      BY <1>1, OneLess
    <2> QED
      BY <2>1
  <1> QED
    BY <1>2, <1>4, <1>5

\* The element the sum takes first.
First(s) == CHOOSE x \in s : TRUE

\* It is an element.
LEMMA FirstIn == \A s : s # {} => First(s) \in s
  BY DEF First

\* A function that sums f over every set in D.
Solves(it, f, D) ==
    it = [s \in D |-> IF s = {} THEN 0 ELSE f[First(s)] + it[s \ {First(s)}]]

\* A sum is the value of such a function.
LEMMA SumByRecursion ==
    ASSUME NEW f, NEW S
    PROVE  SumFunctionOnSet(f, S) = (CHOOSE it : Solves(it, f, SUBSET S))[S]
  BY DEF SumFunctionOnSet, FoldFunctionOnSet, MapThenFoldSet, Solves, First

\* The recursion has at most one solution, ...
LEMMA OneSolution ==
    ASSUME NEW f, NEW T, IsFiniteSet(T), NEW D, SUBSET T \subseteq D,
           NEW it, Solves(it, f, D), NEW jt, Solves(jt, f, SUBSET T)
    PROVE  \A s \in SUBSET T : it[s] = jt[s]
  <1> DEFINE G == {s \in SUBSET T : it[s] = jt[s]}
  <1>1. {} \in G
    BY DEF Solves
  <1>2. ASSUME NEW s \in SUBSET T, s # {}, \A x \in s : s \ {x} \in G
        PROVE  s \in G
    <2>1. s \ {First(s)} \in G
      BY <1>2, FirstIn
    <2>2. /\ it[s] = f[First(s)] + it[s \ {First(s)}]
          /\ jt[s] = f[First(s)] + jt[s \ {First(s)}]
      BY <1>2 DEF Solves
    <2> QED
      BY <2>1, <2>2
  <1>3. SUBSET T \subseteq G
    <2> HIDE DEF G
    <2> QED
      BY <1>1, <1>2, SubsetInduction
  <1> QED
    BY <1>3

\* The small subsets of a set.
Small(S, n) == {s \in SUBSET S : Cardinality(s) <= n}

\* ... and for finite sets it has one, ...
LEMMA SolvedUpTo ==
    ASSUME NEW f, NEW S, IsFiniteSet(S)
    PROVE  \A n \in Nat : \E it : Solves(it, f, Small(S, n))
  <1> DEFINE Open == {n \in Nat : ~ \E it : Solves(it, f, Small(S, n))}
  <1> SUFFICES ASSUME Open # {} PROVE FALSE
    OBVIOUS
  <1>1. PICK n \in Open : \A m \in Open : n <= m
    BY SmallestNumber
  <1>2. \A s \in SUBSET S : IsFiniteSet(s) /\ Cardinality(s) \in Nat
    BY FS_Subset, FS_CardinalityType
  <1>3. \A s \in SUBSET S : s # {} =>
             /\ s \ {First(s)} \in SUBSET S
             /\ Cardinality(s \ {First(s)}) = Cardinality(s) - 1
             /\ Cardinality(s) > 0
    BY <1>2, FirstIn, OneLess
  <1>4. CASE n = 0
    <2> DEFINE it == [s \in Small(S, n) |-> 0]
    <2>1. \A s \in Small(S, n) : s = {}
      <3>1. SUFFICES ASSUME NEW s \in SUBSET S, s # {} PROVE ~(Cardinality(s) <= 0)
        BY <1>4 DEF Small
      <3>2. Cardinality(s) \in Nat /\ Cardinality(s) > 0
        BY <1>2, <1>3, <3>1
      <3> QED
        BY <3>2
    <2>2. Solves(it, f, Small(S, n))
      BY <2>1 DEF Solves
    <2> QED
      BY <1>1, <2>2
  <1>5. CASE n # 0
    <2>1. n - 1 \in Nat /\ n - 1 \notin Open
      BY <1>1, <1>5
    <2>2. PICK h : Solves(h, f, Small(S, n - 1))
      BY <2>1
    <2> DEFINE it == [s \in Small(S, n) |->
                        IF s = {} THEN 0 ELSE f[First(s)] + h[s \ {First(s)}]]
    <2>3. \A s \in Small(S, n) : s # {} => s \ {First(s)} \in Small(S, n - 1)
      BY <1>2, <1>3, <2>1 DEF Small
    <2>4. Small(S, n - 1) \subseteq Small(S, n)
      BY <1>2, <2>1 DEF Small
    <2>5. \A s \in Small(S, n - 1) : it[s] = h[s]
      BY <2>2, <2>4 DEF Solves
    <2>6. it = [s \in Small(S, n) |->
                  IF s = {} THEN 0 ELSE f[First(s)] + it[s \ {First(s)}]]
      <3>1. \A s \in Small(S, n) : s # {} => it[s \ {First(s)}] = h[s \ {First(s)}]
        BY <2>3, <2>5
      <3> QED
        BY <3>1
    <2>7. Solves(it, f, Small(S, n))
      BY <2>6 DEF Solves
    <2> QED
      BY <1>1, <2>7
  <1> QED
    BY <1>4, <1>5

\* ... so the one that is chosen is one.
LEMMA Solved ==
    ASSUME NEW f, NEW S, IsFiniteSet(S)
    PROVE  Solves(CHOOSE it : Solves(it, f, SUBSET S), f, SUBSET S)
  <1>1. Small(S, Cardinality(S)) = SUBSET S
    BY FS_Subset DEF Small
  <1>2. \E it : Solves(it, f, Small(S, Cardinality(S)))
    <2>1. \A n \in Nat : \E it : Solves(it, f, Small(S, n))
      BY SolvedUpTo
    <2> QED
      BY <2>1, FS_CardinalityType
  <1> QED
    BY <1>1, <1>2

\* The equation of the sum.
LEMMA SumByChoice ==
    ASSUME NEW f, NEW S, IsFiniteSet(S)
    PROVE  /\ SumFunctionOnSet(f, {}) = 0
           /\ S # {} => SumFunctionOnSet(f, S)
                        = f[First(S)] + SumFunctionOnSet(f, S \ {First(S)})
  <1> DEFINE at(T) == CHOOSE it : Solves(it, f, SUBSET T)
  <1>1. SumFunctionOnSet(f, {}) = at({})[{}] /\ Solves(at({}), f, SUBSET {})
    BY SumByRecursion, Solved, FS_EmptySet
  <1>2. SumFunctionOnSet(f, {}) = 0
    BY <1>1 DEF Solves
  <1>3. ASSUME S # {}
        PROVE  SumFunctionOnSet(f, S) = f[First(S)] + SumFunctionOnSet(f, S \ {First(S)})
    <2> DEFINE T == S \ {First(S)}
    <2>1. IsFiniteSet(T) /\ T \in SUBSET S
      BY FS_RemoveElement
    <2>2. Solves(at(S), f, SUBSET S) /\ Solves(at(T), f, SUBSET T)
      BY <2>1, Solved
    <2>3. at(S)[T] = at(T)[T]
      <3>1. PICK it, jt : it = at(S) /\ jt = at(T)
        OBVIOUS
      <3>2. /\ Solves(it, f, SUBSET S) /\ Solves(jt, f, SUBSET T)
            /\ SUBSET T \subseteq SUBSET S
        BY <2>1, <2>2, <3>1
      <3>3. \A s \in SUBSET T : it[s] = jt[s]
        <4> HIDE DEF T
        <4> QED
          BY <2>1, <3>2, OneSolution
      <3> QED
        BY <3>1, <3>3
    <2>4. at(S)[S] = f[First(S)] + at(S)[T]
      BY <1>3, <2>2 DEF Solves
    <2> QED
      BY <2>3, <2>4, SumByRecursion
  <1> QED
    BY <1>2, <1>3

\* The empty sum is zero.
LEMMA SumEmpty == \A f : SumFunctionOnSet(f, {}) = 0
  BY SumByChoice, FS_EmptySet

\* A sum of integers is an integer.
LEMMA SumIsInt ==
    ASSUME NEW S, IsFiniteSet(S), NEW f, \A x \in S : f[x] \in Int
    PROVE  \A T \in SUBSET S : SumFunctionOnSet(f, T) \in Int
  <1> DEFINE G == {T \in SUBSET S : SumFunctionOnSet(f, T) \in Int}
  <1>1. {} \in G
    BY SumEmpty
  <1>2. ASSUME NEW T \in SUBSET S, T # {}, \A x \in T : T \ {x} \in G
        PROVE  T \in G
    <2>1. IsFiniteSet(T) /\ First(T) \in T
      BY <1>2, FS_Subset, FirstIn
    <2>2. SumFunctionOnSet(f, T) = f[First(T)] + SumFunctionOnSet(f, T \ {First(T)})
      BY <1>2, <2>1, SumByChoice
    <2>3. f[First(T)] \in Int /\ SumFunctionOnSet(f, T \ {First(T)}) \in Int
      BY <1>2, <2>1
    <2> QED
      BY <2>2, <2>3
  <1>3. SUBSET S \subseteq G
    <2> HIDE DEF G
    <2> QED
      BY <1>1, <1>2, SubsetInduction
  <1> QED
    BY <1>3

\* Any term of a sum can be taken first.
LEMMA SumRemove ==
    ASSUME NEW S, IsFiniteSet(S), NEW f, \A x \in S : f[x] \in Int
    PROVE  /\ SumFunctionOnSet(f, S) \in Int
           /\ \A a \in S : SumFunctionOnSet(f, S) = f[a] + SumFunctionOnSet(f, S \ {a})
  <1> DEFINE sum(T) == SumFunctionOnSet(f, T)
             G == {T \in SUBSET S : /\ sum(T) \in Int
                                    /\ \A a \in T : sum(T) = f[a] + sum(T \ {a})}
  <1>1. {} \in G
    BY SumEmpty
  <1>2. ASSUME NEW T \in SUBSET S, T # {}, \A x \in T : T \ {x} \in G
        PROVE  T \in G
    <2> DEFINE c == First(T)
    <2>1. IsFiniteSet(T) /\ c \in T
      BY <1>2, FS_Subset, FirstIn
    <2>2. sum(T) = f[c] + sum(T \ {c})
      BY <1>2, <2>1, SumByChoice
    <2> HIDE DEF c
    <2>3. sum(T) \in Int
      BY <1>2, <2>1, <2>2
    <2>4. ASSUME NEW a \in T, a # c
          PROVE  sum(T) = f[a] + sum(T \ {a})
      <3>1. sum(T \ {c}) = f[a] + sum((T \ {c}) \ {a})
        BY <1>2, <2>1, <2>4
      <3>2. sum(T \ {a}) = f[c] + sum((T \ {a}) \ {c})
        BY <1>2, <2>1, <2>4
      <3>3. (T \ {c}) \ {a} = (T \ {a}) \ {c}
        OBVIOUS
      <3>4. f[a] \in Int /\ f[c] \in Int
        BY <1>2, <2>1, <2>4
      <3>5. sum(T \ {a}) \in Int /\ sum(T \ {c}) \in Int
        BY <1>2, <2>1, <2>4
      <3>6. sum((T \ {c}) \ {a}) \in Int
        <4>1. IsFiniteSet((T \ {c}) \ {a}) /\ (T \ {c}) \ {a} \in SUBSET S
          BY <1>2, <2>1, FS_RemoveElement
        <4> QED
          BY <4>1, SumIsInt
      <3>7. sum((T \ {c}) \ {a}) = sum((T \ {a}) \ {c})
        BY <3>3
      <3> HIDE DEF sum, G
      <3> QED
        BY <2>2, <3>1, <3>2, <3>4, <3>5, <3>6, <3>7
    <2> QED
      BY <2>2, <2>3, <2>4
  <1>3. SUBSET S \subseteq G
    <2> HIDE DEF G
    <2> QED
      BY <1>1, <1>2, SubsetInduction
  <1> QED
    BY <1>3

\* One more term.
LEMMA SumAdd ==
    ASSUME NEW S, IsFiniteSet(S), NEW f, NEW a, a \notin S,
           \A x \in S \cup {a} : f[x] \in Int
    PROVE  SumFunctionOnSet(f, S \cup {a}) = SumFunctionOnSet(f, S) + f[a]
  <1>1. IsFiniteSet(S \cup {a}) /\ (S \cup {a}) \ {a} = S
    BY FS_AddElement
  <1>2. SumFunctionOnSet(f, S \cup {a}) = f[a] + SumFunctionOnSet(f, S)
    <2>1. \A x \in S \cup {a} : SumFunctionOnSet(f, S \cup {a})
                                  = f[x] + SumFunctionOnSet(f, (S \cup {a}) \ {x})
      BY <1>1, SumRemove
    <2> QED
      BY <1>1, <2>1
  <1>3. SumFunctionOnSet(f, S) \in Int /\ f[a] \in Int
    BY SumRemove
  <1> QED
    BY <1>2, <1>3

\* A greater term makes a greater sum.
LEMMA SumGrows ==
    ASSUME NEW S, IsFiniteSet(S), NEW f, NEW g,
           \A x \in S : f[x] \in Int /\ g[x] \in Int /\ f[x] <= g[x]
    PROVE  SumFunctionOnSet(f, S) <= SumFunctionOnSet(g, S)
  <1> DEFINE G == {T \in SUBSET S : SumFunctionOnSet(f, T) <= SumFunctionOnSet(g, T)}
  <1>1. {} \in G
    BY SumEmpty
  <1>2. ASSUME NEW T \in SUBSET S, T # {}, \A x \in T : T \ {x} \in G
        PROVE  T \in G
    <2>1. PICK c \in T : T \ {c} \in G
      BY <1>2
    <2>2. IsFiniteSet(T) /\ IsFiniteSet(T \ {c})
      BY FS_Subset
    <2>3. /\ SumFunctionOnSet(f, T) = f[c] + SumFunctionOnSet(f, T \ {c})
          /\ SumFunctionOnSet(g, T) = g[c] + SumFunctionOnSet(g, T \ {c})
      BY <2>2, SumRemove
    <2>4. SumFunctionOnSet(f, T \ {c}) \in Int /\ SumFunctionOnSet(g, T \ {c}) \in Int
      BY <2>2, SumRemove
    <2> QED
      BY <2>1, <2>3, <2>4
  <1>3. SUBSET S \subseteq G
    <2> HIDE DEF G
    <2> QED
      BY <1>1, <1>2, SubsetInduction
  <1> QED
    BY <1>3

\* Only the terms matter.
LEMMA SumSame ==
    ASSUME NEW S, IsFiniteSet(S), NEW f, NEW g,
           \A x \in S : f[x] \in Int /\ f[x] = g[x]
    PROVE  SumFunctionOnSet(f, S) = SumFunctionOnSet(g, S)
  <1>1. /\ SumFunctionOnSet(f, S) <= SumFunctionOnSet(g, S)
        /\ SumFunctionOnSet(g, S) <= SumFunctionOnSet(f, S)
    BY SumGrows
  <1>2. SumFunctionOnSet(f, S) \in Int /\ SumFunctionOnSet(g, S) \in Int
    BY SumRemove
  <1> QED
    BY <1>1, <1>2

\* A sum of naturals is a natural number.
LEMMA SumNat ==
    ASSUME NEW S, IsFiniteSet(S), NEW f, \A x \in S : f[x] \in Nat
    PROVE  SumFunctionOnSet(f, S) \in Nat
  <1> DEFINE G == {T \in SUBSET S : SumFunctionOnSet(f, T) \in Nat}
  <1>1. {} \in G
    BY SumEmpty
  <1>2. ASSUME NEW T \in SUBSET S, T # {}, \A x \in T : T \ {x} \in G
        PROVE  T \in G
    <2>1. PICK c \in T : T \ {c} \in G
      BY <1>2
    <2>2. IsFiniteSet(T) /\ \A x \in T : f[x] \in Int
      BY FS_Subset
    <2>3. SumFunctionOnSet(f, T) = f[c] + SumFunctionOnSet(f, T \ {c})
      BY <2>2, SumRemove
    <2> QED
      BY <2>1, <2>3
  <1>3. SUBSET S \subseteq G
    <2> HIDE DEF G
    <2> QED
      BY <1>1, <1>2, SubsetInduction
  <1> QED
    BY <1>3

\* A part of a sum of naturals is at most the whole.
LEMMA SumPart ==
    ASSUME NEW S, IsFiniteSet(S), NEW T \in SUBSET S, NEW f, \A x \in S : f[x] \in Nat
    PROVE  SumFunctionOnSet(f, T) <= SumFunctionOnSet(f, S)
  <1> DEFINE G == {U \in SUBSET (S \ T) :
                     SumFunctionOnSet(f, T) <= SumFunctionOnSet(f, T \cup U)}
  <1>1. IsFiniteSet(S \ T) /\ IsFiniteSet(T)
    BY FS_Subset
  <1>2. {} \in G
    <2>1. T \cup {} = T /\ SumFunctionOnSet(f, T) \in Nat
      BY <1>1, SumNat
    <2> QED
      BY <2>1
  <1>3. ASSUME NEW U \in SUBSET (S \ T), U # {}, \A x \in U : U \ {x} \in G
        PROVE  U \in G
    <2>1. PICK c \in U : U \ {c} \in G
      BY <1>3
    <2>2. /\ IsFiniteSet(T \cup U) /\ IsFiniteSet(T \cup (U \ {c}))
          /\ (T \cup U) \ {c} = T \cup (U \ {c})
      BY FS_Subset
    <2>3. SumFunctionOnSet(f, T \cup U) = f[c] + SumFunctionOnSet(f, (T \cup U) \ {c})
      BY <2>2, SumRemove
    <2>4. SumFunctionOnSet(f, T) \in Nat /\ SumFunctionOnSet(f, T \cup (U \ {c})) \in Nat
      BY <1>1, <2>2, SumNat
    <2> QED
      BY <2>1, <2>2, <2>3, <2>4
  <1>4. SUBSET (S \ T) \subseteq G
    <2> HIDE DEF G
    <2> QED
      BY <1>1, <1>2, <1>3, SubsetInduction
  <1>5. T \cup (S \ T) = S
    OBVIOUS
  <1> QED
    BY <1>4, <1>5

-----------------------------------------------------------------------------
(* The same for functions, in the forms in which the modules use them.     *)

\* A function of integers has an integral sum, one of naturals a natural one.
LEMMA SumType ==
    ASSUME NEW S, IsFiniteSet(S)
    PROVE  /\ \A f \in [S -> Int] : SumFunction(f) \in Int
           /\ \A f \in [S -> Nat] : SumFunction(f) \in Nat
  <1>1. ASSUME NEW f \in [S -> Int] PROVE SumFunction(f) \in Int
    <2>1. \A x \in S : f[x] \in Int
      OBVIOUS
    <2>2. SumFunctionOnSet(f, S) \in Int
      BY <2>1, SumIsInt
    <2> QED
      BY <2>2 DEF SumFunction
  <1>2. ASSUME NEW f \in [S -> Nat] PROVE SumFunction(f) \in Nat
    <2>1. \A x \in S : f[x] \in Nat
      OBVIOUS
    <2>2. SumFunctionOnSet(f, S) \in Nat
      BY <2>1, SumNat
    <2> QED
      BY <2>2 DEF SumFunction
  <1> QED
    BY <1>1, <1>2

\* One more argument adds its value.
LEMMA SumExtended ==
    ASSUME NEW S, IsFiniteSet(S), NEW a, a \notin S,
           NEW f \in [S -> Int], NEW g \in [S \cup {a} -> Int], \A x \in S : g[x] = f[x]
    PROVE  SumFunction(g) = SumFunction(f) + g[a]
  <1>1. SumFunctionOnSet(g, S \cup {a}) = SumFunctionOnSet(g, S) + g[a]
    BY SumAdd
  <1>2. SumFunctionOnSet(g, S) = SumFunctionOnSet(f, S)
    BY SumSame
  <1> QED
    BY <1>1, <1>2 DEF SumFunction

\* Fewer arguments with smaller values make a smaller sum.
LEMMA SumBounded ==
    ASSUME NEW S, IsFiniteSet(S), NEW T \in SUBSET S,
           NEW f \in [S -> Nat], NEW g \in [T -> Nat], \A x \in T : g[x] <= f[x]
    PROVE  SumFunction(g) <= SumFunction(f)
  <1>1. IsFiniteSet(T) /\ \A x \in T : f[x] \in Nat
    BY FS_Subset
  <1>2. SumFunctionOnSet(g, T) <= SumFunctionOnSet(f, T)
    BY <1>1, SumGrows
  <1>3. SumFunctionOnSet(f, T) <= SumFunctionOnSet(f, S)
    BY SumPart
  <1>4. /\ SumFunctionOnSet(g, T) \in Nat /\ SumFunctionOnSet(f, T) \in Nat
        /\ SumFunctionOnSet(f, S) \in Nat
    BY <1>1, SumNat
  <1> QED
    BY <1>2, <1>3, <1>4 DEF SumFunction
=============================================================================
