----------------------- MODULE BellmanEquationsProofs -----------------------
(***************************************************************************)
(* Lemmas about the Bellman operator and the optimal values that the       *)
(* proofs about every search algorithm rest on, for every MDP: sums over   *)
(* finite sets and minima, the type of a backup, its monotonicity in the   *)
(* values it reads, and the optimal values as its fixed point.             *)
(*                                                                         *)
(* The facts about sums and minima are proved by minimal counterexample: a *)
(* nonempty set of subsets of a finite set has a minimal element.          *)
(***************************************************************************)
EXTENDS OptimalValues, FiniteSetTheorems, WellFoundedInduction, TLAPS

-----------------------------------------------------------------------------
(* Sums and minima.                                                        *)

Pick(s) == CHOOSE x \in s : TRUE

(* iter maps each subset of S to the sum of fun over it.                   *)
IsSum(fun, S, iter) ==
  iter = [s \in SUBSET S |->
            IF s = {} THEN 0 ELSE fun[Pick(s)] + iter[s \ {Pick(s)}]]

(* A set of subsets of a finite set has a minimal element: the induction   *)
(* principle of this module.                                               *)
LEMMA MinimalSubset ==
  ASSUME NEW S, IsFiniteSet(S), NEW Bad \in SUBSET SUBSET S, Bad # {}
  PROVE  \E T \in Bad : \A U \in Bad : U \subseteq T => U = T
<1>1. \A T \in SUBSET S : IsFiniteSet(T)
  BY FS_Subset
<1>2. Bad \subseteq FiniteSubsetsOf(S)
  BY <1>1 DEF FiniteSubsetsOf
<1>3. PICK T \in Bad : \A U \in Bad : ~(<<U, T>> \in StrictSubsetOrdering(S))
  <2> HIDE DEF FiniteSubsetsOf, StrictSubsetOrdering
  <2> QED BY <1>2, FS_StrictSubsetOrderingWellFounded, WFMin
<1>4. \A U \in Bad : U \subseteq T /\ U # T => <<U, T>> \in StrictSubsetOrdering(S)
  BY DEF StrictSubsetOrdering
<1>5. \A U \in Bad : U \subseteq T => U = T
  BY <1>3, <1>4
<1> QED BY <1>5

(* What the fold picks from a set is one of its elements.                  *)
LEMMA PickIn == \A s : s # {} => Pick(s) \in s
  BY DEF Pick

(* The library's fold, unfolded to the recursion IsSum describes.          *)
LEMMA SumUnfold ==
  ASSUME NEW fun, NEW S
  PROVE SumFunctionOnSet(fun, S) = (CHOOSE iter : IsSum(fun, S, iter))[S]
  BY DEF SumFunctionOnSet, FoldFunctionOnSet, MapThenFoldSet, IsSum, Pick

(* Two functions that satisfy the recursion of a sum agree where both are  *)
(* defined.                                                                *)
LEMMA SumUnique ==
  ASSUME NEW fun, NEW S, IsFiniteSet(S), NEW U, NEW V, 
         NEW f, NEW g, IsSum(fun, U, f), IsSum(fun, V, g), S \subseteq U, S \subseteq V
  PROVE  f[S] = g[S]
<1> DEFINE Bad == {T \in SUBSET S : f[T] # g[T]}
<1> SUFFICES ASSUME Bad # {} PROVE FALSE
  OBVIOUS
<1>1. PICK T \in Bad : \A W \in Bad : W \subseteq T => W = T
  <2>1. Bad \in SUBSET SUBSET S
    OBVIOUS
  <2> HIDE DEF Bad
  <2> QED BY <2>1, MinimalSubset
<1>2. /\ f[T] = IF T = {} THEN 0 ELSE fun[Pick(T)] + f[T \ {Pick(T)}]
      /\ g[T] = IF T = {} THEN 0 ELSE fun[Pick(T)] + g[T \ {Pick(T)}]
  <2>1. T \in SUBSET U /\ T \in SUBSET V
    OBVIOUS
  <2> QED BY <2>1 DEF IsSum
<1>3. T # {}
  BY <1>2
<1>4. Pick(T) \in T
  BY <1>3, PickIn
<1>5. T \ {Pick(T)} \notin Bad
  BY <1>1, <1>4
<1>6. f[T \ {Pick(T)}] = g[T \ {Pick(T)}]
  BY <1>5
<1> QED BY <1>2, <1>6

(* There is a function that satisfies the recursion of a sum.              *)
LEMMA SumExists ==
  ASSUME NEW fun, NEW S, IsFiniteSet(S)
  PROVE  \E f : IsSum(fun, S, f)
<1> DEFINE Bad == {T \in SUBSET S : ~ \E f : IsSum(fun, T, f)}
<1> SUFFICES ASSUME Bad # {} PROVE FALSE
  OBVIOUS
<1>1. PICK T \in Bad : \A W \in Bad : W \subseteq T => W = T
  <2>1. Bad \in SUBSET SUBSET S
    OBVIOUS
  <2> HIDE DEF Bad
  <2> QED BY <2>1, MinimalSubset
<1> DEFINE G(W) == CHOOSE f : IsSum(fun, W, f)
           h == [W \in SUBSET T |-> IF W = {} THEN 0
                  ELSE fun[Pick(W)] + G(W \ {Pick(W)})[W \ {Pick(W)}]]
<1>2. \A W \in SUBSET T : W # T => IsSum(fun, W, G(W))
  <2> TAKE W \in SUBSET T
  <2> HAVE W # T
  <2>1. W \notin Bad
    BY <1>1
  <2>2. \E f : IsSum(fun, W, f)
    BY <2>1
  <2> QED BY <2>2
<1> HIDE DEF G
<1>3. \A W \in SUBSET T : W # T => h[W] = G(W)[W]
  <2> TAKE W \in SUBSET T
  <2> HAVE W # T
  <2>1. IsSum(fun, W, G(W))
    BY <1>2
  <2>2. G(W)[W] = IF W = {} THEN 0 ELSE fun[Pick(W)] + G(W)[W \ {Pick(W)}]
    BY <2>1 DEF IsSum
  <2>3. CASE W = {}
    BY <2>2, <2>3
  <2>4. CASE W # {}
    <3> DEFINE R == W \ {Pick(W)}
    <3>1. Pick(W) \in W
      BY <2>4, PickIn
    <3>2. R \subseteq W /\ R \in SUBSET T /\ R # T /\ IsFiniteSet(R)
      <4>1. R \in SUBSET S
        OBVIOUS
      <4> QED BY <3>1, <4>1, FS_Subset
    <3>3. IsSum(fun, R, G(R))
      BY <3>2, <1>2
    <3> HIDE DEF R
    <3>4. G(R)[R] = G(W)[R]
      BY <3>2, <3>3, <2>1, SumUnique
    <3> QED BY <2>2, <2>4, <3>4 DEF R
  <2> QED BY <2>3, <2>4
<1>4. IsSum(fun, T, h)
  <2>1. \A W \in SUBSET T : W # {} => 
           G(W \ {Pick(W)})[W \ {Pick(W)}] = h[W \ {Pick(W)}]
    <3> TAKE W \in SUBSET T
    <3> HAVE W # {}
    <3>1. Pick(W) \in W
      BY PickIn
    <3>2. W \ {Pick(W)} \in SUBSET T /\ W \ {Pick(W)} # T
      BY <3>1
    <3> HIDE DEF h
    <3> QED BY <3>2, <1>3
  <2> QED BY <2>1 DEF IsSum
<1> HIDE DEF h
<1> QED BY <1>4
(* The library's sum satisfies its recursion.                              *)
LEMMA SumOnSet ==
  ASSUME NEW fun, NEW S, IsFiniteSet(S)
  PROVE  \E f : IsSum(fun, S, f) /\ SumFunctionOnSet(fun, S) = f[S]
<1> DEFINE f == CHOOSE iter : IsSum(fun, S, iter)
<1>1. IsSum(fun, S, f)
  BY SumExists
<1>2. SumFunctionOnSet(fun, S) = f[S]
  BY SumUnfold
<1> HIDE DEF f
<1> QED BY <1>1, <1>2

(* A finite sum of integers is an integer.                                 *)
THEOREM SumIsInt ==
  ASSUME NEW S, IsFiniteSet(S), NEW fun, \A x \in S : fun[x] \in Int
  PROVE  SumFunctionOnSet(fun, S) \in Int
<1>1. PICK f : IsSum(fun, S, f) /\ SumFunctionOnSet(fun, S) = f[S]
  BY SumOnSet
<1> DEFINE Bad == {T \in SUBSET S : f[T] \notin Int}
<1> SUFFICES ASSUME Bad # {} PROVE FALSE
  BY <1>1
<1>2. PICK T \in Bad : \A W \in Bad : W \subseteq T => W = T
  <2>1. Bad \in SUBSET SUBSET S
    OBVIOUS
  <2> HIDE DEF Bad
  <2> QED BY <2>1, MinimalSubset
<1>3. f[T] = IF T = {} THEN 0 ELSE fun[Pick(T)] + f[T \ {Pick(T)}]
  BY <1>1 DEF IsSum
<1>4. T # {}
  BY <1>3
<1>5. Pick(T) \in T
  BY <1>4, PickIn
<1>6. f[T \ {Pick(T)}] \in Int
  BY <1>2, <1>5
<1> QED BY <1>3, <1>4, <1>5, <1>6

(* A finite sum is monotone in its terms.                                  *)
THEOREM SumMonotone ==
  ASSUME NEW S, IsFiniteSet(S), NEW fun, NEW gun,
         \A x \in S : fun[x] \in Int /\ gun[x] \in Int /\ fun[x] <= gun[x]
  PROVE  SumFunctionOnSet(fun, S) <= SumFunctionOnSet(gun, S)
<1>1. PICK f : IsSum(fun, S, f) /\ SumFunctionOnSet(fun, S) = f[S]
  BY SumOnSet
<1>2. PICK g : IsSum(gun, S, g) /\ SumFunctionOnSet(gun, S) = g[S]
  BY SumOnSet
<1> DEFINE Good(T) == f[T] \in Int /\ g[T] \in Int /\ f[T] <= g[T]
           Bad == {T \in SUBSET S : ~ Good(T)}
<1> SUFFICES ASSUME Bad # {} PROVE FALSE
  BY <1>1, <1>2
<1>3. PICK T \in Bad : \A W \in Bad : W \subseteq T => W = T
  <2>1. Bad \in SUBSET SUBSET S
    OBVIOUS
  <2> HIDE DEF Bad
  <2> QED BY <2>1, MinimalSubset
<1>4. /\ f[T] = IF T = {} THEN 0 ELSE fun[Pick(T)] + f[T \ {Pick(T)}]
      /\ g[T] = IF T = {} THEN 0 ELSE gun[Pick(T)] + g[T \ {Pick(T)}]
  BY <1>1, <1>2 DEF IsSum
<1>5. T # {}
  BY <1>4
<1>6. Pick(T) \in T
  BY <1>5, PickIn
<1>7. Good(T \ {Pick(T)})
  BY <1>3, <1>6
<1> QED BY <1>4, <1>5, <1>6, <1>7

(* The recursion, for the sum itself.                                      *)
LEMMA SumStep ==
  ASSUME NEW S, IsFiniteSet(S), NEW fun
  PROVE  /\ S = {} => SumFunctionOnSet(fun, S) = 0
         /\ S # {} => SumFunctionOnSet(fun, S) =
                        fun[Pick(S)] + SumFunctionOnSet(fun, S \ {Pick(S)})
<1> DEFINE R == S \ {Pick(S)}
<1>1. PICK f : IsSum(fun, S, f) /\ SumFunctionOnSet(fun, S) = f[S]
  BY SumOnSet
<1>2. f[S] = IF S = {} THEN 0 ELSE fun[Pick(S)] + f[S \ {Pick(S)}]
  BY <1>1 DEF IsSum
<1>3. R \subseteq S /\ IsFiniteSet(R)
  BY FS_Subset
<1>4. PICK g : IsSum(fun, R, g) /\ SumFunctionOnSet(fun, R) = g[R]
  <2> HIDE DEF R
  <2> QED BY <1>3, SumOnSet
<1>5. f[R] = g[R]
  <2> HIDE DEF R
  <2> QED BY <1>1, <1>3, <1>4, SumUnique
<1> QED BY <1>1, <1>2, <1>4, <1>5

(* Any element may be split off ...                                        *)
LEMMA SumRemove ==
  ASSUME NEW S, IsFiniteSet(S), NEW fun, \A x \in S : fun[x] \in Int, NEW p \in S
  PROVE  SumFunctionOnSet(fun, S) = fun[p] + SumFunctionOnSet(fun, S \ {p})
<1> DEFINE Total(T) == SumFunctionOnSet(fun, T)
           Good(T) == \A x \in T : Total(T) = fun[x] + Total(T \ {x})
           Bad == {T \in SUBSET S : ~Good(T)}
<1> SUFFICES ASSUME Bad # {} PROVE FALSE
  OBVIOUS
<1>1. PICK T \in Bad : \A W \in Bad : W \subseteq T => W = T
  <2>1. Bad \in SUBSET SUBSET S
    OBVIOUS
  <2> HIDE DEF Bad
  <2> QED BY <2>1, MinimalSubset
<1>2. \A W \in SUBSET S : IsFiniteSet(W) /\ Total(W) \in Int
  <2> TAKE W \in SUBSET S
  <2>1. IsFiniteSet(W) /\ \A x \in W : fun[x] \in Int
    BY FS_Subset
  <2> QED BY <2>1, SumIsInt
<1>3. PICK x \in T : Total(T) # fun[x] + Total(T \ {x})
  OBVIOUS
<1> DEFINE q == Pick(T)
<1>4. q \in T /\ Total(T) = fun[q] + Total(T \ {q})
  BY <1>2, <1>3, PickIn, SumStep
<1>5. x # q
  BY <1>3, <1>4
<1>6. Good(T \ {q}) /\ Good(T \ {x})
  BY <1>1, <1>3, <1>4
<1> HIDE DEF q
<1>7. /\ Total(T \ {q}) = fun[x] + Total((T \ {q}) \ {x})
      /\ Total(T \ {x}) = fun[q] + Total((T \ {x}) \ {q})
  BY <1>3, <1>4, <1>5, <1>6
<1>8. (T \ {q}) \ {x} = (T \ {x}) \ {q} /\ (T \ {q}) \ {x} \in SUBSET S
  OBVIOUS
<1>9. fun[x] \in Int /\ fun[q] \in Int
  BY <1>3, <1>4
<1>10. /\ Total((T \ {x}) \ {q}) \in Int
       /\ Total(T \ {q}) = fun[x] + Total((T \ {x}) \ {q})
       /\ Total(T \ {x}) = fun[q] + Total((T \ {x}) \ {q})
       /\ Total(T) = fun[q] + Total(T \ {q})
       /\ Total(T) # fun[x] + Total(T \ {x})
  BY <1>2, <1>3, <1>4, <1>7, <1>8
<1> HIDE DEF Total
<1> QED BY <1>9, <1>10

(* ... and any part.                                                       *)
LEMMA SumUnion ==
  ASSUME NEW S, NEW R, IsFiniteSet(S), IsFiniteSet(R), S \cap R = {},
         NEW fun, \A x \in S \union R : fun[x] \in Int
  PROVE  SumFunctionOnSet(fun, S \union R) =
           SumFunctionOnSet(fun, S) + SumFunctionOnSet(fun, R)
<1> DEFINE Total(T) == SumFunctionOnSet(fun, T)
           Good(T) == Total(T \union R) = Total(T) + Total(R)
           Bad == {T \in SUBSET S : ~Good(T)}
<1> SUFFICES ASSUME Bad # {} PROVE FALSE
  OBVIOUS
<1>1. PICK T \in Bad : \A W \in Bad : W \subseteq T => W = T
  <2>1. Bad \in SUBSET SUBSET S
    OBVIOUS
  <2> HIDE DEF Bad
  <2> QED BY <2>1, MinimalSubset
<1>2. \A W \in SUBSET (S \union R) :
        /\ IsFiniteSet(W) /\ Total(W) \in Int /\ \A x \in W : fun[x] \in Int
  <2> TAKE W \in SUBSET (S \union R)
  <2>1. IsFiniteSet(S \union R)
    BY FS_Union
  <2>2. IsFiniteSet(W) /\ \A x \in W : fun[x] \in Int
    BY <2>1, FS_Subset
  <2> QED BY <2>2, SumIsInt
<1>3. CASE T = {}
  <2>1. Total({}) = 0 /\ T \union R = R
    BY <1>2, <1>3, SumStep
  <2> HIDE DEF Total
  <2> QED BY <1>2, <1>3, <2>1
<1>4. CASE T # {}
  <2>1. PICK p \in T : TRUE
    BY <1>4
  <2>2. Good(T \ {p})
    BY <1>1, <2>1
  <2>3. /\ Total(T) = fun[p] + Total(T \ {p})
        /\ Total(T \union R) = fun[p] + Total((T \union R) \ {p})
    BY <1>2, <2>1, SumRemove
  <2>4. (T \union R) \ {p} = (T \ {p}) \union R
    BY <2>1
  <2>5. /\ Total(T \ {p}) \in Int /\ Total(R) \in Int /\ fun[p] \in Int
        /\ Total((T \ {p}) \union R) = Total(T \ {p}) + Total(R)
    BY <1>2, <2>1, <2>2
  <2>6. Total(T \union R) = Total(T) + Total(R)
    <3>1. Total(T \union R) = fun[p] + Total((T \ {p}) \union R)
      BY ONLY <2>3, <2>4
    <3>2. Total(T) = fun[p] + Total(T \ {p})
      BY <2>3
    <3> HIDE DEF Total
    <3> QED BY ONLY <2>5, <3>1, <3>2
  <2> QED BY <2>6
<1> QED BY <1>3, <1>4

(* Only the terms matter.                                                  *)
LEMMA SumSame ==
  ASSUME NEW S, IsFiniteSet(S), NEW fun, NEW gun,
         \A x \in S : fun[x] \in Int /\ fun[x] = gun[x]
  PROVE  SumFunctionOnSet(fun, S) = SumFunctionOnSet(gun, S)
<1>1. /\ SumFunctionOnSet(fun, S) \in Int /\ SumFunctionOnSet(gun, S) \in Int
  BY SumIsInt
<1>2. /\ SumFunctionOnSet(fun, S) <= SumFunctionOnSet(gun, S)
      /\ SumFunctionOnSet(gun, S) <= SumFunctionOnSet(fun, S)
  BY SumMonotone
<1> QED BY <1>1, <1>2

(* A finite, nonempty sum of positive integers is positive.                *)
THEOREM SumIsPos ==
  ASSUME NEW S, IsFiniteSet(S), S # {}, NEW fun,
         \A x \in S : fun[x] \in Nat \ {0}
  PROVE  SumFunctionOnSet(fun, S) \in Nat \ {0}
<1>1. PICK f : IsSum(fun, S, f) /\ SumFunctionOnSet(fun, S) = f[S]
  BY SumOnSet
<1> DEFINE Good(T) == f[T] \in Nat /\ (T # {} => f[T] # 0)
           Bad == {T \in SUBSET S : ~ Good(T)}
<1> SUFFICES ASSUME Bad # {} PROVE FALSE
  BY <1>1
<1>2. PICK T \in Bad : \A W \in Bad : W \subseteq T => W = T
  <2>1. Bad \in SUBSET SUBSET S
    OBVIOUS
  <2> HIDE DEF Bad
  <2> QED BY <2>1, MinimalSubset
<1>3. f[T] = IF T = {} THEN 0 ELSE fun[Pick(T)] + f[T \ {Pick(T)}]
  BY <1>1 DEF IsSum
<1>4. T # {}
  BY <1>3
<1>5. Pick(T) \in T
  BY <1>4, PickIn
<1>6. Good(T \ {Pick(T)})
  BY <1>2, <1>5
<1> QED BY <1>3, <1>4, <1>5, <1>6

(* A finite, nonempty set of integers has its minimum, and Min is it.      *)
THEOREM MinInSet ==
  ASSUME NEW S, IsFiniteSet(S), S # {}, \A x \in S : x \in Int
  PROVE  Min(S) \in S /\ \A y \in S : Min(S) <= y
<1> DEFINE Good(T) == T # {} => \E x \in T : \A y \in T : x <= y
           Bad == {T \in SUBSET S : ~ Good(T)}
<1>1. Good(S) => Min(S) \in S /\ \A y \in S : Min(S) <= y
  BY DEF Min
<1> SUFFICES ASSUME Bad # {} PROVE FALSE
  <2>1. S \notin Bad => Good(S)
    OBVIOUS
  <2> HIDE DEF Good
  <2> QED BY <1>1, <2>1
<1>2. PICK T \in Bad : \A W \in Bad : W \subseteq T => W = T
  <2>1. Bad \in SUBSET SUBSET S
    OBVIOUS
  <2> HIDE DEF Bad
  <2> QED BY <2>1, MinimalSubset
<1>3. PICK z : z \in T
  OBVIOUS
<1>4. Good(T \ {z})
  <2>1. T \ {z} \notin Bad
    BY <1>2, <1>3
  <2>2. T \ {z} \in SUBSET S
    OBVIOUS
  <2> HIDE DEF Good
  <2> QED BY <2>1, <2>2
<1>5. z \in Int /\ T \subseteq Int
  BY <1>3
<1>6. CASE T \ {z} = {}
  <2>1. \A y \in T : y = z
    BY <1>6
  <2> QED BY <1>3, <1>5, <2>1
<1>7. CASE T \ {z} # {}
  <2>1. PICK x \in T \ {z} : \A y \in T \ {z} : x <= y
    BY <1>4, <1>7
  <2>2. x \in Int
    BY <1>5
  <2>3. CASE x <= z
    BY <1>5, <2>1, <2>2, <2>3
  <2>4. CASE z < x
    <3>1. \A y \in T : z <= y
      BY <1>5, <2>1, <2>2, <2>4
    <3> QED BY <1>3, <3>1
  <2> QED BY <1>5, <2>2, <2>3, <2>4
<1> QED BY <1>6, <1>7

(* The minimum of a function over a finite, nonempty set is one of its     *)
(* values and below all of them.                                           *)
THEOREM MinOfImage ==
  ASSUME NEW S, IsFiniteSet(S), S # {}, NEW f, \A x \in S : f[x] \in Int
  PROVE  LET m == Min({f[x] : x \in S})
         IN  m \in Int /\ (\E x \in S : m = f[x]) /\ \A x \in S : m <= f[x]
<1> DEFINE T == {f[x] : x \in S}
           h == [x \in S |-> f[x]]
<1>1. h \in Surjection(S, T)
  BY DEF Surjection
<1>2. IsFiniteSet(T)
  <2> HIDE DEF h, T
  <2> QED BY <1>1, FS_Surjection
<1>3. T # {} /\ \A x \in T : x \in Int
  OBVIOUS
<1>4. Min(T) \in T /\ \A y \in T : Min(T) <= y
  <2> HIDE DEF T
  <2> QED BY <1>2, <1>3, MinInSet
<1>5. \A x \in S : f[x] \in T
  OBVIOUS
<1>6. \A y \in T : \E x \in S : y = f[x]
  OBVIOUS
<1>7. /\ Min(T) \in Int
      /\ \E x \in S : Min(T) = f[x]
      /\ \A x \in S : Min(T) <= f[x]
  <2> HIDE DEF T
  <2> QED BY <1>3, <1>4, <1>5, <1>6
<1> QED BY <1>7

-----------------------------------------------------------------------------
(* The Bellman operator yields values.                                     *)

BoundNames == {"lower", "upper"}

(* The transitions of a state are finitely many, and so are the states one *)
(* of them leads to.                                                       *)
LEMMA TailsType ==
  ASSUME NEW s \in State
  PROVE  /\ TransitionTails(s) \subseteq Action
         /\ IsFiniteSet(TransitionTails(s))
         /\ \A a \in TransitionTails(s) :
              /\ a \in Applicable(s)
              /\ NonSource(s, a) \subseteq State
              /\ IsFiniteSet(NonSource(s, a))
              /\ NonSource(s, a) # {}
<1>1. TransitionTails(s) \subseteq Action
  BY MDPAssumption DEF TransitionTails
<1>2. IsFiniteSet(TransitionTails(s))
  BY <1>1, MDPAssumption, FS_Subset
<1>3. ASSUME NEW a \in TransitionTails(s)
      PROVE  /\ a \in Applicable(s)
             /\ NonSource(s, a) \subseteq State
             /\ IsFiniteSet(NonSource(s, a))
             /\ NonSource(s, a) # {}
  <2>1. a \in Applicable(s) /\ NonSource(s, a) # {}
    BY DEF TransitionTails
  <2>2. NonSource(s, a) \subseteq State
    BY <2>1, MDPAssumption DEF NonSource
  <2>3. IsFiniteSet(NonSource(s, a))
    BY <2>2, MDPAssumption, FS_Subset
  <2> QED BY <2>1, <2>2, <2>3
<1> QED BY <1>1, <1>2, <1>3

(* The weights of a transition that leaves s are integers, and what leaves *)
(* s has positive weight: QValue never divides by zero (the assertion of   *)
(* compute_qvalue).                                                        *)
LEMMA WeightsType ==
  ASSUME NEW s \in State, NEW a \in TransitionTails(s)
  PROVE  /\ TotalWeight[s][a] \in Int
         /\ NonSourceWeight[s][a] \in Nat \ {0}
         /\ \A t \in NonSource(s, a) : Transition[s][a][t] \in Nat \ {0}
<1>1. /\ a \in Applicable(s)
      /\ Successors(s, a) \in SUBSET State
      /\ Transition[s][a] \in [Successors(s, a) -> Nat \ {0}]
      /\ DOMAIN Transition[s][a] = Successors(s, a)
  BY TailsType, MDPAssumption DEF Successors
<1>2. IsFiniteSet(Successors(s, a))
  BY <1>1, MDPAssumption, FS_Subset
<1>3. \A t \in Successors(s, a) : Transition[s][a][t] \in Nat \ {0}
  BY <1>1
<1>4. TotalWeight[s][a] = SumFunction(Transition[s][a])
  BY <1>1 DEF TotalWeight
<1>5. SumFunctionOnSet(Transition[s][a], Successors(s, a)) \in Int
  <2>1. \A t \in Successors(s, a) : Transition[s][a][t] \in Int
    BY <1>3
  <2> QED BY <1>2, <2>1, SumIsInt
<1>6. NonSource(s, a) \subseteq Successors(s, a)
  BY DEF NonSource
<1> DEFINE w == [t \in NonSource(s, a) |-> Transition[s][a][t]]
<1>7. NonSourceWeight[s][a] = SumFunctionOnSet(w, NonSource(s, a))
  BY DEF NonSourceWeight, SumFunction
<1>8. SumFunctionOnSet(w, NonSource(s, a)) \in Nat \ {0}
  <2>1. \A t \in NonSource(s, a) : w[t] \in Nat \ {0}
    BY <1>3, <1>6
  <2> HIDE DEF w
  <2> QED BY <2>1, TailsType, SumIsPos
<1> QED BY <1>1, <1>3, <1>4, <1>5, <1>6, <1>7, <1>8 DEF SumFunction

(* The sum that QValue is computed from.                                   *)
Weighted(v, bound, s, a) ==
  SumFunctionOnSet([t \in NonSource(s, a) |->
                      Transition[s][a][t] * v[t][bound]], NonSource(s, a))

(* Both bounds of a value are integers.                                    *)
LEMMA BoundType ==
  ASSUME NEW b \in Bounds, NEW bound \in BoundNames
  PROVE  b[bound] \in Int
BY DEF Bounds, BoundNames

(* The quotient that QValue saturates.                                     *)
Quotient(v, bound, s, a) ==
  (TotalWeight[s][a] * ActionCost[a] + Weighted(v, bound, s, a))
  \div NonSourceWeight[s][a]

(* QValue in terms of the sum over the set of successors.                  *)
LEMMA QValueUnfold ==
  ASSUME NEW v, NEW bound, NEW s, NEW a
  PROVE  QValue(v, bound, s, a) =
           IF \E t \in NonSource(s, a) : v[t][bound] = Infinite
           THEN Infinite
           ELSE Saturated(Quotient(v, bound, s, a))
BY DEF QValue, Weighted, Quotient, SumFunction

(* The weighted sum of successor values is an integer.                     *)
LEMMA WeightedType ==
  ASSUME NEW v \in [State -> Bounds], NEW bound \in BoundNames,
         NEW s \in State, NEW a \in TransitionTails(s)
  PROVE  Weighted(v, bound, s, a) \in Int
<1> DEFINE w == [t \in NonSource(s, a) |-> Transition[s][a][t] * v[t][bound]]
<1>1. \A t \in NonSource(s, a) : w[t] \in Int
  <2> SUFFICES ASSUME NEW t \in NonSource(s, a)
               PROVE  Transition[s][a][t] * v[t][bound] \in Int
    OBVIOUS
  <2>1. v[t] \in Bounds
    BY TailsType
  <2>2. v[t][bound] \in Int
    BY <2>1, BoundType
  <2>3. Transition[s][a][t] \in Int
    BY WeightsType
  <2> QED BY <2>2, <2>3
<1> HIDE DEF w
<1>2. SumFunctionOnSet(w, NonSource(s, a)) \in Int
  BY <1>1, TailsType, SumIsInt
<1> QED BY <1>2 DEF Weighted, w

(* A quotient by a positive number is an integer.                          *)
LEMMA DivType ==
  ASSUME NEW x \in Int, NEW n \in Nat \ {0}
  PROVE  x \div n \in Int
OBVIOUS

(* The quotient of QValue is an integer.                                   *)
LEMMA QuotientType ==
  ASSUME NEW v \in [State -> Bounds], NEW bound \in BoundNames,
         NEW s \in State, NEW a \in TransitionTails(s)
  PROVE  Quotient(v, bound, s, a) \in Int
<1>1. ActionCost[a] \in Int
  BY TailsType, MDPAssumption
<1>2. TotalWeight[s][a] * ActionCost[a] + Weighted(v, bound, s, a) \in Int
  BY <1>1, WeightsType, WeightedType
<1> QED BY <1>2, WeightsType, DivType DEF Quotient

(* A Q-value is an integer, at most infinite.                              *)
LEMMA QValueType ==
  ASSUME NEW v \in [State -> Bounds], NEW bound \in BoundNames,
         NEW s \in State, NEW a \in TransitionTails(s)
  PROVE  /\ QValue(v, bound, s, a) \in Int
         /\ QValue(v, bound, s, a) <= Infinite
<1>1. Infinite \in Int
  BY MDPAssumption
<1> QED BY <1>1, QuotientType, QValueUnfold DEF Saturated

(* The best Q-value is the Q-value of some transition and below all        *)
(* others.                                                                 *)
LEMMA BestType ==
  ASSUME NEW v \in [State -> Bounds], NEW bound \in BoundNames,
         NEW s \in State, TransitionTails(s) # {}
  PROVE  /\ Best(v, bound, s) \in Int
         /\ \E a \in TransitionTails(s) :
              Best(v, bound, s) = QValue(v, bound, s, a)
         /\ \A a \in TransitionTails(s) :
              Best(v, bound, s) <= QValue(v, bound, s, a)
<1> DEFINE q == [a \in TransitionTails(s) |-> QValue(v, bound, s, a)]
<1>1. \A a \in TransitionTails(s) : q[a] = QValue(v, bound, s, a)
  OBVIOUS
<1>2. \A a \in TransitionTails(s) : q[a] \in Int
  BY QValueType
<1>3. Best(v, bound, s) = Min({q[a] : a \in TransitionTails(s)})
  BY <1>1 DEF Best
<1> HIDE DEF q
<1>4. LET m == Min({q[a] : a \in TransitionTails(s)})
      IN  /\ m \in Int
          /\ \E a \in TransitionTails(s) : m = q[a]
          /\ \A a \in TransitionTails(s) : m <= q[a]
  BY <1>2, TailsType, MinOfImage
<1> QED BY <1>1, <1>3, <1>4

(* A backup yields a pair of bounds.                                       *)
LEMMA BellmanType ==
  ASSUME NEW v \in [State -> Bounds], NEW s \in State
  PROVE  Bellman(v, s) \in Bounds
<1>1. TerminationCost[s] \in Int
  BY MDPAssumption
<1>2. CASE Terminates(v, s)
  BY <1>1, <1>2 DEF Bellman, Point, Bounds
<1>3. CASE ~Terminates(v, s)
  <2>1. TransitionTails(s) # {}
    BY <1>3 DEF Terminates
  <2>2. Best(v, "lower", s) \in Int /\ Best(v, "upper", s) \in Int
    BY <2>1, BestType DEF BoundNames
  <2> QED BY <1>3, <2>2 DEF Bellman, Bounds
<1> QED BY <1>2, <1>3

(* Equal values are approximately equal.                                   *)
LEMMA ApproxEqualReflexive == \A x : ApproxEqual(x, x)
BY DEF ApproxEqual

(* The Q-value of a transition depends on the values of the states it      *)
(* leads to only.                                                          *)
LEMMA QValueSame ==
  ASSUME NEW v, NEW w, NEW b, NEW s, NEW a,
         \A t \in NonSource(s, a) : v[t][b] = w[t][b]
  PROVE  QValue(v, b, s, a) = QValue(w, b, s, a)
<1>1. [t \in NonSource(s, a) |-> Transition[s][a][t] * v[t][b]]
        = [t \in NonSource(s, a) |-> Transition[s][a][t] * w[t][b]]
  OBVIOUS
<1>2. (\E t \in NonSource(s, a) : v[t][b] = Infinite)
        <=> \E t \in NonSource(s, a) : w[t][b] = Infinite
  OBVIOUS
<1> QED BY <1>1, <1>2 DEF QValue

-----------------------------------------------------------------------------
(* Monotonicity.                                                           *)

(* Multiplication with a natural number is monotone.                       *)
LEMMA ProductMonotone ==
  ASSUME NEW n \in Nat, NEW x \in Int, NEW y \in Int, x <= y
  PROVE  n * x <= n * y
<1>1. y - x >= 0 /\ y - x \in Int
  OBVIOUS
<1>2. n * (y - x) >= 0
  BY <1>1
<1> QED BY <1>2

(* Division by a positive number, rounded down, is monotone.               *)
LEMMA QuotientMonotone ==
  ASSUME NEW n \in Nat \ {0}, NEW x \in Int, NEW y \in Int, x <= y
  PROVE  x \div n <= y \div n
<1> DEFINE p == x \div n
           q == y \div n
<1>1. p \in Int /\ q \in Int
  BY DivType
<1>2. n * p <= x /\ y < n * (q + 1)
  OBVIOUS
<1> HIDE DEF p, q
<1>3. SUFFICES ASSUME q + 1 <= p PROVE FALSE
  BY <1>1 DEF p, q
<1>4. n * (q + 1) <= n * p
  BY <1>1, <1>3, ProductMonotone
<1>5. n * p \in Int /\ n * (q + 1) \in Int
  BY <1>1
<1> QED BY <1>2, <1>4, <1>5

(* The weighted sum of successor values is monotone in them.               *)
LEMMA WeightedMonotone ==
  ASSUME NEW v \in [State -> Bounds], NEW w \in [State -> Bounds],
         NEW b \in BoundNames, NEW c \in BoundNames,
         NEW s \in State, NEW a \in TransitionTails(s),
         \A t \in NonSource(s, a) : v[t][b] <= w[t][c]
  PROVE  Weighted(v, b, s, a) <= Weighted(w, c, s, a)
<1> DEFINE f == [t \in NonSource(s, a) |-> Transition[s][a][t] * v[t][b]]
           g == [t \in NonSource(s, a) |-> Transition[s][a][t] * w[t][c]]
<1>1. \A t \in NonSource(s, a) : f[t] \in Int /\ g[t] \in Int /\ f[t] <= g[t]
  <2> SUFFICES ASSUME NEW t \in NonSource(s, a)
               PROVE  /\ Transition[s][a][t] * v[t][b] \in Int
                      /\ Transition[s][a][t] * w[t][c] \in Int
                      /\ Transition[s][a][t] * v[t][b]
                           <= Transition[s][a][t] * w[t][c]
    OBVIOUS
  <2>1. v[t] \in Bounds /\ w[t] \in Bounds
    BY TailsType
  <2>2. v[t][b] \in Int /\ w[t][c] \in Int /\ v[t][b] <= w[t][c]
    BY <2>1, BoundType
  <2>3. Transition[s][a][t] \in Nat
    BY WeightsType
  <2> QED BY <2>2, <2>3, ProductMonotone
<1> HIDE DEF f, g
<1>2. SumFunctionOnSet(f, NonSource(s, a)) <= SumFunctionOnSet(g, NonSource(s, a))
  BY <1>1, TailsType, SumMonotone
<1> QED BY <1>2 DEF Weighted, f, g

(* Q-values are monotone in the values of the successors, also where they  *)
(* saturate.                                                               *)
LEMMA QValueMonotone ==
  ASSUME NEW v \in [State -> Bounds], NEW w \in [State -> Bounds],
         NEW b \in BoundNames, NEW c \in BoundNames,
         NEW s \in State, NEW a \in TransitionTails(s),
         \A t \in NonSource(s, a) : v[t][b] <= w[t][c] /\ w[t][c] <= Infinite
  PROVE  QValue(v, b, s, a) <= QValue(w, c, s, a)
<1>1. \A t \in NonSource(s, a) : v[t][b] \in Int /\ w[t][c] \in Int
  <2>1. \A t \in NonSource(s, a) : v[t] \in Bounds /\ w[t] \in Bounds
    BY TailsType
  <2> QED BY <2>1, BoundType
<1>2. Infinite \in Int
  BY MDPAssumption
<1>3. CASE \E t \in NonSource(s, a) : w[t][c] = Infinite
  <2>1. QValue(w, c, s, a) = Infinite
    BY <1>3, QValueUnfold
  <2> QED BY <2>1, QValueType
<1>4. CASE ~ \E t \in NonSource(s, a) : w[t][c] = Infinite
  <2>1. ~ \E t \in NonSource(s, a) : v[t][b] = Infinite
    BY <1>1, <1>2, <1>4
  <2>2. Weighted(v, b, s, a) <= Weighted(w, c, s, a)
    BY WeightedMonotone
  <2>3. /\ Weighted(v, b, s, a) \in Int /\ Weighted(w, c, s, a) \in Int
        /\ TotalWeight[s][a] * ActionCost[a] \in Int
        /\ NonSourceWeight[s][a] \in Nat \ {0}
    <3>1. ActionCost[a] \in Int
      BY TailsType, MDPAssumption
    <3> QED BY <3>1, WeightedType, WeightsType
  <2>4. TotalWeight[s][a] * ActionCost[a] + Weighted(v, b, s, a)
          <= TotalWeight[s][a] * ActionCost[a] + Weighted(w, c, s, a)
    BY <2>2, <2>3
  <2>5. Quotient(v, b, s, a) <= Quotient(w, c, s, a)
    BY <2>3, <2>4, QuotientMonotone DEF Quotient
  <2>6. Quotient(v, b, s, a) \in Int /\ Quotient(w, c, s, a) \in Int
    BY QuotientType
  <2>7. Saturated(Quotient(v, b, s, a)) <= Saturated(Quotient(w, c, s, a))
    BY <1>2, <2>5, <2>6 DEF Saturated
  <2> QED BY <1>4, <2>1, <2>7, QValueUnfold
<1> QED BY <1>3, <1>4

(* The best Q-value is monotone in the values of the neighbours.           *)
LEMMA BestMonotone ==
  ASSUME NEW v \in [State -> Bounds], NEW w \in [State -> Bounds],
         NEW b \in BoundNames, NEW c \in BoundNames,
         NEW s \in State, TransitionTails(s) # {},
         \A t \in Neighbours(s) : v[t][b] <= w[t][c] /\ w[t][c] <= Infinite
  PROVE  Best(v, b, s) <= Best(w, c, s)
<1>1. PICK a \in TransitionTails(s) : Best(w, c, s) = QValue(w, c, s, a)
  BY BestType
<1>2. Best(v, b, s) <= QValue(v, b, s, a)
  BY BestType
<1>3. \A t \in NonSource(s, a) : v[t][b] <= w[t][c] /\ w[t][c] <= Infinite
  BY DEF Neighbours
<1>4. QValue(v, b, s, a) <= QValue(w, c, s, a)
  BY <1>3, QValueMonotone
<1> QED BY <1>1, <1>2, <1>4, BestType, QValueType

-----------------------------------------------------------------------------
(* The optimal values.                                                     *)

StarValue == [s \in State |-> Point(OptimalValue[s])]

(* The optimal values are values.                                          *)
LEMMA StarType ==
  /\ StarValue \in [State -> Bounds]
  /\ \A s \in State : /\ OptimalValue[s] \in Int
                      /\ StarValue[s]["lower"] = OptimalValue[s]
                      /\ StarValue[s]["upper"] = OptimalValue[s]
<1>1. \A s \in State : OptimalValue[s] \in Int
  BY ReferenceAssumption
<1> QED BY <1>1 DEF StarValue, Point, Bounds

(* The optimality equations, by cases; no optimal value is above the       *)
(* termination cost.                                                       *)
LEMMA StarEquation ==
  ASSUME NEW s \in State
  PROVE  /\ s \in Goal => OptimalValue[s] = TerminationCost[s]
         /\ s \notin Goal /\ Terminates(StarValue, s) =>
              OptimalValue[s] = TerminationCost[s]
         /\ s \notin Goal /\ ~Terminates(StarValue, s) =>
              OptimalValue[s] = Best(StarValue, "lower", s)
         /\ OptimalValue[s] <= TerminationCost[s]
         /\ TerminationCost[s] <= Infinite
         /\ OptimalValue[s] <= Infinite
<1>1. /\ TerminationCost[s] \in Int /\ Infinite \in Int
      /\ TerminationCost[s] <= Infinite
  BY MDPAssumption
<1>2. OptimalValue[s] = IF s \in Goal THEN TerminationCost[s]
                        ELSE Bellman(StarValue, s).lower
  BY ReferenceAssumption DEF StarValue
<1>3. CASE s \in Goal
  BY <1>1, <1>2, <1>3
<1>4. CASE s \notin Goal /\ Terminates(StarValue, s)
  BY <1>1, <1>2, <1>4 DEF Bellman, Point
<1>5. CASE s \notin Goal /\ ~Terminates(StarValue, s)
  <2>1. OptimalValue[s] = Best(StarValue, "lower", s)
    BY <1>2, <1>5 DEF Bellman
  <2>2. TransitionTails(s) # {} /\ ~(Best(StarValue, "lower", s) >= TerminationCost[s])
    BY <1>5 DEF Terminates
  <2>3. Best(StarValue, "lower", s) \in Int
    BY <2>2, StarType, BestType DEF BoundNames
  <2> QED BY <1>1, <1>5, <2>1, <2>2, <2>3
<1> QED BY <1>3, <1>4, <1>5

-----------------------------------------------------------------------------
(* The Bellman backup of algorithms that store no policy.                  *)

LEMMA NeighboursType ==
  ASSUME NEW s \in State
  PROVE  /\ Neighbours(s) \subseteq State /\ s \notin Neighbours(s)
         /\ TransitionTails(s) = {} <=> Neighbours(s) = {}
<1>1. Neighbours(s) \subseteq State
  BY TailsType DEF Neighbours
<1>2. s \notin Neighbours(s)
  BY DEF Neighbours, NonSource
<1>3. TransitionTails(s) = {} => Neighbours(s) = {}
  BY DEF Neighbours
<1>4. ASSUME NEW a \in TransitionTails(s) PROVE Neighbours(s) # {}
  <2>1. PICK t \in NonSource(s, a) : TRUE
    BY TailsType
  <2>2. t \in Neighbours(s)
    BY <2>1 DEF Neighbours
  <2> QED BY <2>2
<1> QED BY <1>1, <1>2, <1>3, <1>4

(* A backup finds the smallest of the termination cost and the Q-values.   *)
LEMMA BellmanValueType ==
  ASSUME NEW v \in [State -> Bounds], NEW s \in State, NEW b \in BoundNames
  PROVE  LET m == BellmanValue(v, s)[b]
         IN  /\ m \in Int
             /\ m <= TerminationCost[s]
             /\ \A a \in TransitionTails(s) : m <= QValue(v, b, s, a)
             /\ \/ m = TerminationCost[s]
                \/ \E a \in TransitionTails(s) : m = QValue(v, b, s, a)
<1> DEFINE Q == {QValue(v, b, s, a) : a \in TransitionTails(s)}
           S == {TerminationCost[s]} \union Q
<1>1. BellmanValue(v, s)[b] = Min(S)
  BY DEF BellmanValue, BoundNames
<1>2. TerminationCost[s] \in Int
  BY MDPAssumption
<1>3. \A x \in S : x \in Int
  BY <1>2, QValueType
<1>4. IsFiniteSet(S)
  <2>1. IsFiniteSet(Q)
    <3> DEFINE f == [a \in TransitionTails(s) |-> QValue(v, b, s, a)]
    <3>1. f \in Surjection(TransitionTails(s), Q)
      BY DEF Surjection
    <3> HIDE DEF f, Q
    <3> QED BY <3>1, TailsType, FS_Surjection
  <2> HIDE DEF Q
  <2>2. IsFiniteSet({TerminationCost[s]})
    BY FS_Singleton
  <2> QED BY <2>1, <2>2, FS_Union DEF S
<1>5. Min(S) \in S /\ \A x \in S : Min(S) <= x
  <2>1. S # {}
    OBVIOUS
  <2> HIDE DEF S
  <2> QED BY <1>3, <1>4, <2>1, MinInSet
<1> QED BY <1>1, <1>3, <1>5

LEMMA BellmanValueBounds ==
  ASSUME NEW v \in [State -> Bounds], NEW s \in State
  PROVE  BellmanValue(v, s) \in Bounds
<1>1. BellmanValue(v, s)["lower"] \in Int /\ BellmanValue(v, s)["upper"] \in Int
  BY BellmanValueType DEF BoundNames
<1> QED BY <1>1 DEF BellmanValue, Bounds

(* It is monotone in the values of the neighbours.                         *)
LEMMA BellmanValueMonotone ==
  ASSUME NEW v \in [State -> Bounds], NEW w \in [State -> Bounds],
         NEW b \in BoundNames, NEW c \in BoundNames, NEW s \in State,
         \A t \in Neighbours(s) : v[t][b] <= w[t][c] /\ w[t][c] <= Infinite
  PROVE  BellmanValue(v, s)[b] <= BellmanValue(w, s)[c]
<1>1. PICK x, y : x = BellmanValue(v, s)[b] /\ y = BellmanValue(w, s)[c]
  OBVIOUS
<1>2. /\ x \in Int /\ x <= TerminationCost[s]
      /\ \A a \in TransitionTails(s) : x <= QValue(v, b, s, a)
  BY <1>1, BellmanValueType
<1>3. /\ y \in Int
      /\ y = TerminationCost[s] \/ \E a \in TransitionTails(s) : y = QValue(w, c, s, a)
  BY <1>1, BellmanValueType
<1>4. CASE y = TerminationCost[s]
  BY <1>1, <1>2, <1>4
<1>5. CASE \E a \in TransitionTails(s) : y = QValue(w, c, s, a)
  <2>1. PICK a \in TransitionTails(s) : y = QValue(w, c, s, a)
    BY <1>5
  <2>2. \A t \in NonSource(s, a) : v[t][b] <= w[t][c] /\ w[t][c] <= Infinite
    BY DEF Neighbours
  <2>3. QValue(v, b, s, a) <= QValue(w, c, s, a)
    BY <2>2, QValueMonotone
  <2>4. QValue(v, b, s, a) \in Int /\ x <= QValue(v, b, s, a)
    BY <1>2, QValueType
  <2> QED BY <1>1, <1>2, <1>3, <2>1, <2>3, <2>4
<1> QED BY <1>3, <1>4, <1>5

(* It reads the values of the neighbours only.                             *)
LEMMA BellmanValueSame ==
  ASSUME NEW v, NEW w, NEW s \in State, \A t \in Neighbours(s) : v[t] = w[t]
  PROVE  BellmanValue(v, s) = BellmanValue(w, s)
<1>1. ASSUME NEW a \in TransitionTails(s), NEW b
      PROVE  QValue(v, b, s, a) = QValue(w, b, s, a)
  <2>1. \A t \in NonSource(s, a) : v[t][b] = w[t][b]
    BY DEF Neighbours
  <2> QED BY <2>1, QValueSame
<1>2. \A b : {QValue(v, b, s, a) : a \in TransitionTails(s)}
               = {QValue(w, b, s, a) : a \in TransitionTails(s)}
  BY <1>1
<1> QED BY <1>2 DEF BellmanValue

(* The optimal values solve its equations.                                 *)
LEMMA StarBellman ==
  ASSUME NEW s \in State \ Goal
  PROVE  BellmanValue(StarValue, s) = Point(OptimalValue[s])
<1>1. /\ OptimalValue[s] \in Int /\ TerminationCost[s] \in Int
      /\ "lower" \in BoundNames /\ "upper" \in BoundNames
      /\ StarValue \in [State -> Bounds]
  BY StarType, MDPAssumption DEF BoundNames
<1>2. ASSUME NEW a \in TransitionTails(s)
      PROVE  /\ QValue(StarValue, "upper", s, a) = QValue(StarValue, "lower", s, a)
             /\ QValue(StarValue, "lower", s, a) \in Int
  <2>1. \A t \in NonSource(s, a) :
          /\ StarValue[t]["lower"] <= StarValue[t]["upper"]
          /\ StarValue[t]["upper"] <= StarValue[t]["lower"]
          /\ StarValue[t]["lower"] <= Infinite /\ StarValue[t]["upper"] <= Infinite
    BY TailsType, StarType, StarEquation
  <2>2. /\ QValue(StarValue, "lower", s, a) <= QValue(StarValue, "upper", s, a)
        /\ QValue(StarValue, "upper", s, a) <= QValue(StarValue, "lower", s, a)
    BY <1>1, <2>1, QValueMonotone
  <2>3. /\ QValue(StarValue, "lower", s, a) \in Int
        /\ QValue(StarValue, "upper", s, a) \in Int
    BY <1>1, QValueType
  <2> QED BY <2>2, <2>3
<1>3. ASSUME NEW b \in BoundNames
      PROVE  BellmanValue(StarValue, s)[b] = OptimalValue[s]
  <2> DEFINE m == BellmanValue(StarValue, s)[b]
  <2>1. /\ m \in Int
        /\ m <= TerminationCost[s]
        /\ \A a \in TransitionTails(s) : m <= QValue(StarValue, "lower", s, a)
        /\ \/ m = TerminationCost[s]
           \/ \E a \in TransitionTails(s) : m = QValue(StarValue, "lower", s, a)
    <3>1. \A a \in TransitionTails(s) :
            QValue(StarValue, b, s, a) = QValue(StarValue, "lower", s, a)
      BY <1>2 DEF BoundNames
    <3> QED BY <1>1, <3>1, BellmanValueType
  <2> HIDE DEF m
  <2>2. TransitionTails(s) # {} =>
          /\ Best(StarValue, "lower", s) \in Int
          /\ \E a \in TransitionTails(s) :
               Best(StarValue, "lower", s) = QValue(StarValue, "lower", s, a)
          /\ \A a \in TransitionTails(s) :
               Best(StarValue, "lower", s) <= QValue(StarValue, "lower", s, a)
    BY <1>1, BestType
  <2>3. CASE Terminates(StarValue, s)
    <3>1. OptimalValue[s] = TerminationCost[s]
      BY <2>3, StarEquation
    <3>2. \A a \in TransitionTails(s) :
            TerminationCost[s] <= QValue(StarValue, "lower", s, a)
      BY <1>1, <1>2, <2>2, <2>3 DEF Terminates
    <3>3. m = TerminationCost[s]
      BY <1>1, <2>1, <3>2
    <3> QED BY <3>1, <3>3 DEF m
  <2>4. CASE ~Terminates(StarValue, s)
    <3>1. OptimalValue[s] = Best(StarValue, "lower", s)
      BY <2>4, StarEquation
    <3>2. TransitionTails(s) # {} /\ Best(StarValue, "lower", s) < TerminationCost[s]
      BY <1>1, <2>2, <2>4 DEF Terminates
    <3>3. m = Best(StarValue, "lower", s)
      BY <1>1, <1>2, <2>1, <2>2, <3>2
    <3> QED BY <3>1, <3>3 DEF m
  <2> QED BY <2>3, <2>4
<1>4. /\ BellmanValue(StarValue, s)["lower"] = OptimalValue[s]
      /\ BellmanValue(StarValue, s)["upper"] = OptimalValue[s]
  BY <1>1, <1>3
<1> QED BY <1>4 DEF BellmanValue, Point

(* No way leads back to a state that was left.                             *)
Layered ==
  \E layer \in [State -> Nat] :
    \A s \in State : \A t \in Neighbours(s) : layer[t] < layer[s]

(* A smallest layer.                                                       *)
LEMMA FirstLayer ==
  ASSUME NEW layer \in [State -> Nat], NEW S \in SUBSET State, S # {}
  PROVE  \E s \in S : \A t \in S : layer[s] <= layer[t]
<1>1. IsFiniteSet(S)
  BY MDPAssumption, FS_Subset
<1>2. \A s \in S : layer[s] \in Int
  OBVIOUS
<1>3. LET m == Min({layer[x] : x \in S})
      IN  /\ m \in Int /\ (\E x \in S : m = layer[x])
          /\ \A x \in S : m <= layer[x]
  BY <1>1, <1>2, MinOfImage
<1> QED BY <1>3
=============================================================================
