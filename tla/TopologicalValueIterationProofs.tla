------------------ MODULE TopologicalValueIterationProofs ------------------
(***************************************************************************)
(* Proofs about topological value iteration, for every MDP, every          *)
(* heuristic and any order of actions and successors, whether the search   *)
(* runs out of time or not.                                                *)
(***************************************************************************)
EXTENDS TVICorrectness, BellmanEquationsProofs

-----------------------------------------------------------------------------
(* The inductive invariant.                                                *)

StacksOK ==
  /\ dfs_stack \in Seq(DFSExplorationState)
  /\ tarjan_stack \in Seq(StackInfo)

(* A state is marked as open if and only if it is on Tarjan's stack, at    *)
(* the place it remembers.                                                 *)
Indexed ==
  /\ \A i \in DOMAIN tarjan_stack :
       /\ status[tarjan_stack[i].state] = "onstack"
       /\ stack_id[tarjan_stack[i].state] = i
  /\ \A s \in State : status[s] = "onstack" =>
       /\ stack_id[s] \in DOMAIN tarjan_stack
       /\ tarjan_stack[stack_id[s]].state = s

(* The frame explores a transition.                                        *)
Exploring(f) == f.q \in QValueInfo

(* The frame j is in the middle of one of the transitions of its state.    *)
FrameOK(f) ==
  /\ f.stackidx \in DOMAIN tarjan_stack
  /\ tarjan_stack[f.stackidx].state = f.state
  /\ f.aops \subseteq TransitionTails(f.state)
  /\ Exploring(f) => /\ f.q.action \in TransitionTails(f.state) \ f.aops
                     /\ f.successors \subseteq NonSource(f.state, f.q.action)
  /\ ~Exploring(f) => f.successors = {}
  /\ Pruned(f.state) => f.aops = {} /\ ~Exploring(f)

(* The frames below the top are waiting for the one above them.            *)
FramesOK ==
  /\ \A j \in DOMAIN dfs_stack : FrameOK(dfs_stack[j])
  /\ \A j, k \in DOMAIN dfs_stack :
       j < k => dfs_stack[j].stackidx < dfs_stack[k].stackidx
  /\ \A j \in DOMAIN dfs_stack : j < Len(dfs_stack) =>
       LET f == dfs_stack[j]
       IN  /\ Exploring(f)
           /\ f.successor = dfs_stack[j + 1].state
           /\ f.successor \in NonSource(f.state, f.q.action) \ f.successors

ControlOK ==
  /\ pc = "solve" => /\ dfs_stack = <<>> /\ tarjan_stack = <<>>
                     /\ \A s \in State : status[s] = "new"
  /\ pc \in {"transition", "successor", "sweep"} => dfs_stack # <<>>
  /\ pc \in {"transition", "sweep"} => ~Exploring(Top)
  /\ pc = "successor" => Exploring(Top)
  /\ pc = "sweep" => /\ Top.aops = {}
                     /\ IsRoot(Top)
                     /\ sweep.next \in Top.stackidx..(Len(tarjan_stack) + 1)

(* The part of Tarjan's stack that was put there by frame j and the        *)
(* frames that were above it and not roots.                                *)
Segment(j) ==
  {i \in DOMAIN tarjan_stack :
     /\ i >= dfs_stack[j].stackidx
     /\ \A k \in DOMAIN dfs_stack : k > j => i < dfs_stack[k].stackidx}

(* The neighbours that frame f will come to.                               *)
Ahead(f) == f.successors \union UNION {NonSource(f.state, a) : a \in f.aops}

(* Tarjan's algorithm: what leads out of the segment of a frame leads to   *)
(* finished components, or down to its lowlink, or is still to be seen.    *)
LowlinksOK ==
  \A j \in DOMAIN dfs_stack : \A i \in Segment(j) :
    LET f == dfs_stack[j]
        s == tarjan_stack[i].state
    IN  ~Pruned(s) => \A t \in Neighbours(s) :
          \/ status[t] = "closed"
          \/ status[t] = "onstack" /\ stack_id[t] >= f.lowlink
          \/ i = f.stackidx /\ t \in Ahead(f)

(* The successors whose values a transition q of s has added up, if those  *)
(* in rest are still to come.                                              *)
Added(s, q, rest) ==
  NonSource(s, q.action) \ (q.nconv_successors \union rest)

(* The contributions of the successors in part to a Q-value.              *)
Terms(v, b, s, a, part) ==
  SumFunction([t \in part |-> Transition[s][a][t] * v[t][b]])

(* A transition in the making.                                             *)
GatheredOK(s, q, rest) ==
  /\ q.action \in TransitionTails(s)
  /\ q.nconv_successors \subseteq NonSource(s, q.action) \ rest
  /\ \A t \in Added(s, q, rest) : status[t] = "closed"
  /\ \A b \in BoundNames : q.conv_part[b] =
       TotalWeight[s][q.action] * ActionCost[q.action]
       + Terms(value, b, s, q.action, Added(s, q, rest))
  /\ q.infinite = {b \in BoundNames :
                     \E t \in Added(s, q, rest) : value[t][b] = Infinite}

(* The successors that frame j has not added yet.                          *)
Rest(j) ==
  dfs_stack[j].successors
  \union IF j < Len(dfs_stack) THEN {dfs_stack[j].successor} ELSE {}

TransitionsOK ==
  \A j \in DOMAIN dfs_stack : Exploring(dfs_stack[j]) =>
     GatheredOK(dfs_stack[j].state, dfs_stack[j].q, Rest(j))

(* The transitions of the entry i that were explored.                      *)
Explored(i) ==
  {a \in TransitionTails(tarjan_stack[i].state) :
     \A j \in DOMAIN dfs_stack : dfs_stack[j].stackidx = i =>
        a \notin dfs_stack[j].aops /\ a # dfs_stack[j].q.action}

(* All successors of a in s are finished.                                  *)
Settled(s, a) == \A t \in NonSource(s, a) : status[t] = "closed"

(* What the entry knows about its state.                                   *)
EntryOK(entry, explored) ==
  LET s == entry.state
  IN  /\ Pruned(s) => entry.conv_part = Point(TerminationCost[s])
                      /\ entry.nconv_qs = <<>>
      /\ \A k \in DOMAIN entry.nconv_qs :
           LET q == entry.nconv_qs[k]
           IN  /\ GatheredOK(s, q, {})
               /\ q.norm = NonSourceWeight[s][q.action]
      /\ ~Pruned(s) => \A a \in explored :
           \/ \E k \in DOMAIN entry.nconv_qs : entry.nconv_qs[k].action = a
           \/ /\ Settled(s, a)
              /\ \A b \in BoundNames : entry.conv_part[b] <= QValue(value, b, s, a)
      /\ \A b \in BoundNames :
           /\ entry.conv_part[b] <= TerminationCost[s]
           /\ \/ entry.conv_part[b] = TerminationCost[s]
              \/ \E a \in TransitionTails(s) :
                   Settled(s, a) /\ entry.conv_part[b] = QValue(value, b, s, a)
      /\ IF entry.conv_part.lower = TerminationCost[s]
         THEN entry.best_converged = NoAction
         ELSE /\ entry.best_converged \in TransitionTails(s)
              /\ Settled(s, entry.best_converged)
              /\ entry.conv_part.lower =
                   QValue(value, "lower", s, entry.best_converged)

EntriesOK ==
  \A i \in DOMAIN tarjan_stack : EntryOK(tarjan_stack[i], Explored(i))

ExplorationOK ==
  pc # "timeout" =>
     FramesOK /\ ControlOK /\ LowlinksOK /\ TransitionsOK /\ EntriesOK

IInv ==
  /\ TypeOK
  /\ StacksOK
  /\ Indexed
  /\ ExplorationOK
  /\ ClosedComponents

-----------------------------------------------------------------------------
(* Stacks.                                                                 *)

LEMMA WithTopFacts ==
  ASSUME NEW X, NEW stack \in Seq(X), stack # <<>>, NEW f \in X
  PROVE  /\ WithTop(stack, f) \in Seq(X)
         /\ Len(WithTop(stack, f)) = Len(stack)
         /\ Len(stack) \in Nat \ {0} /\ stack[Len(stack)] \in X
         /\ \A i \in 1..Len(stack) :
              WithTop(stack, f)[i] = IF i = Len(stack) THEN f ELSE stack[i]
BY DEF WithTop

LEMMA PushFacts ==
  ASSUME NEW X, NEW stack \in Seq(X), NEW f \in X
  PROVE  /\ Append(stack, f) \in Seq(X)
         /\ Len(stack) \in Nat /\ Len(Append(stack, f)) = Len(stack) + 1
         /\ \A i \in 1..(Len(stack) + 1) :
              Append(stack, f)[i] = IF i = Len(stack) + 1 THEN f ELSE stack[i]
OBVIOUS

LEMMA PrefixFacts ==
  ASSUME NEW X, NEW stack \in Seq(X), NEW n \in 0..Len(stack)
  PROVE  /\ SubSeq(stack, 1, n) \in Seq(X) /\ Len(SubSeq(stack, 1, n)) = n
         /\ \A i \in 1..n : SubSeq(stack, 1, n)[i] = stack[i]
         /\ SubSeq(stack, 1, n) = <<>> <=> n = 0
OBVIOUS

-----------------------------------------------------------------------------
(* Q-values in parts.                                                      *)

LEMMA TotalWeightPos ==
  ASSUME NEW s \in State, NEW a \in TransitionTails(s)
  PROVE  TotalWeight[s][a] \in Nat \ {0}
<1>1. /\ a \in Applicable(s) /\ Successors(s, a) \subseteq State
      /\ Successors(s, a) # {} /\ Transition[s][a] \in [Successors(s, a) -> Nat \ {0}]
  BY MDPAssumption, TailsType
<1>2. IsFiniteSet(Successors(s, a))
  BY <1>1, MDPAssumption, FS_Subset
<1>3. SumFunctionOnSet(Transition[s][a], Successors(s, a)) \in Nat \ {0}
  BY <1>1, <1>2, SumIsPos
<1>4. TotalWeight[s][a] = SumFunction(Transition[s][a])
  BY <1>1 DEF TotalWeight
<1> QED BY <1>3, <1>4 DEF SumFunction, Successors

LEMMA TermsFacts ==
  ASSUME NEW v \in [State -> Bounds], NEW b \in BoundNames,
         NEW s \in State, NEW a \in TransitionTails(s),
         NEW part \in SUBSET NonSource(s, a)
  PROVE  /\ Terms(v, b, s, a, part) \in Int
         /\ Terms(v, b, s, a, part) =
              SumFunctionOnSet([t \in NonSource(s, a) |->
                                  Transition[s][a][t] * v[t][b]], part)
         /\ IsFiniteSet(part)
<1> DEFINE f == [t \in NonSource(s, a) |-> Transition[s][a][t] * v[t][b]]
           g == [t \in part |-> Transition[s][a][t] * v[t][b]]
<1>1. IsFiniteSet(part) /\ NonSource(s, a) \subseteq State
  BY TailsType, FS_Subset
<1>2. \A t \in NonSource(s, a) : f[t] \in Int
  <2> TAKE t \in NonSource(s, a)
  <2>1. Transition[s][a][t] \in Int /\ v[t][b] \in Int
    BY <1>1, WeightsType, BoundType
  <2> QED BY <2>1
<1>3. \A t \in part : g[t] \in Int /\ g[t] = f[t]
  BY <1>2
<1>4. Terms(v, b, s, a, part) = SumFunctionOnSet(g, part)
  BY DEF Terms, SumFunction
<1> HIDE DEF f, g
<1>5. SumFunctionOnSet(g, part) \in Int
      /\ SumFunctionOnSet(g, part) = SumFunctionOnSet(f, part)
  BY <1>1, <1>3, SumIsInt, SumSame
<1> QED BY <1>1, <1>4, <1>5 DEF f

(* Parts may be put together.                                              *)
LEMMA TermsUnion ==
  ASSUME NEW v \in [State -> Bounds], NEW b \in BoundNames,
         NEW s \in State, NEW a \in TransitionTails(s),
         NEW p \in SUBSET NonSource(s, a), NEW q \in SUBSET NonSource(s, a),
         p \cap q = {}
  PROVE  Terms(v, b, s, a, p \union q) = Terms(v, b, s, a, p) + Terms(v, b, s, a, q)
<1> DEFINE f == [t \in NonSource(s, a) |-> Transition[s][a][t] * v[t][b]]
<1>1. NonSource(s, a) \subseteq State
  BY TailsType
<1>2. \A t \in NonSource(s, a) : f[t] \in Int
  <2> TAKE t \in NonSource(s, a)
  <2>1. Transition[s][a][t] \in Int /\ v[t][b] \in Int
    BY <1>1, WeightsType, BoundType
  <2> QED BY <2>1
<1>3. /\ Terms(v, b, s, a, p) = SumFunctionOnSet(f, p) /\ IsFiniteSet(p)
      /\ Terms(v, b, s, a, q) = SumFunctionOnSet(f, q) /\ IsFiniteSet(q)
      /\ Terms(v, b, s, a, p \union q) = SumFunctionOnSet(f, p \union q)
  BY TermsFacts
<1> HIDE DEF f
<1>4. \A x \in p \union q : f[x] \in Int
  BY <1>2
<1> QED BY <1>3, <1>4, SumUnion

(* No successor contributes nothing, and one its weighted value.           *)
LEMMA TermsOne ==
  ASSUME NEW v \in [State -> Bounds], NEW b \in BoundNames,
         NEW s \in State, NEW a \in TransitionTails(s), NEW t \in NonSource(s, a)
  PROVE  /\ Terms(v, b, s, a, {}) = 0
         /\ Terms(v, b, s, a, {t}) = Transition[s][a][t] * v[t][b]
         /\ Transition[s][a][t] * v[t][b] \in Int
<1> DEFINE f == [u \in NonSource(s, a) |-> Transition[s][a][u] * v[u][b]]
<1>1. Terms(v, b, s, a, {}) = SumFunctionOnSet(f, {}) /\ IsFiniteSet({})
  BY TermsFacts
<1>2. Terms(v, b, s, a, {t}) = SumFunctionOnSet(f, {t}) /\ IsFiniteSet({t})
  BY TermsFacts
<1>3. f[t] \in Int /\ f[t] = Transition[s][a][t] * v[t][b]
  <2>1. Transition[s][a][t] \in Int /\ v[t][b] \in Int
    BY TailsType, WeightsType, BoundType
  <2> QED BY <2>1
<1> HIDE DEF f
<1>4. SumFunctionOnSet(f, {}) = 0
  BY <1>1, SumStep
<1>5. SumFunctionOnSet(f, {t}) = f[t] + SumFunctionOnSet(f, {})
  <2>1. SumFunctionOnSet(f, {t}) = f[t] + SumFunctionOnSet(f, {t} \ {t})
    BY <1>2, <1>3, SumRemove
  <2>2. {t} \ {t} = {}
    OBVIOUS
  <2> QED BY <2>1, <2>2
<1>6. SumFunctionOnSet(f, {t}) = f[t]
  BY <1>3, <1>4, <1>5
<1> QED BY <1>1, <1>2, <1>3, <1>4, <1>6

(* With no part missing, a transition has the Q-value of its action.       *)
LEMMA ComputeExact ==
  ASSUME value \in [State -> Bounds], NEW s \in State, NEW q \in QValueInfo,
         GatheredOK(s, q, {}), q.norm = NonSourceWeight[s][q.action]
  PROVE  /\ ComputeQValue(value, s, q) \in Bounds
         /\ \A b \in BoundNames :
              ComputeQValue(value, s, q)[b] = QValue(value, b, s, q.action)
<1> DEFINE a == q.action
           n == q.nconv_successors
           c == Added(s, q, {})
<1>1. /\ a \in TransitionTails(s) /\ n \subseteq NonSource(s, a)
      /\ c \subseteq NonSource(s, a) /\ n \cap c = {} /\ c \union n = NonSource(s, a)
  BY DEF GatheredOK, Added
<1>2. ASSUME NEW b \in BoundNames
      PROVE  ComputeQValue(value, s, q)[b] = QValue(value, b, s, a)
  <2>1. (b \in q.infinite \/ \E t \in n : value[t][b] = Infinite)
          <=> \E t \in NonSource(s, a) : value[t][b] = Infinite
    BY <1>1, <1>2 DEF GatheredOK
  <2>2. Weighted(value, b, s, a) = Terms(value, b, s, a, c \union n)
    BY <1>1 DEF Weighted, Terms, SumFunction
  <2>3. /\ Terms(value, b, s, a, c \union n) =
             Terms(value, b, s, a, c) + Terms(value, b, s, a, n)
        /\ Terms(value, b, s, a, c) \in Int /\ Terms(value, b, s, a, n) \in Int
    <3>1. /\ c \in SUBSET NonSource(s, a) /\ n \in SUBSET NonSource(s, a)
          /\ c \cap n = {} /\ a \in TransitionTails(s)
      BY <1>1
    <3> HIDE DEF a, n, c
    <3>2. Terms(value, b, s, a, c) \in Int /\ Terms(value, b, s, a, n) \in Int
      BY <3>1, TermsFacts
    <3>3. Terms(value, b, s, a, c \union n) =
            Terms(value, b, s, a, c) + Terms(value, b, s, a, n)
      <4>1. PICK x, y : x = c /\ y = n
        OBVIOUS
      <4>2. Terms(value, b, s, a, x \union y) =
              Terms(value, b, s, a, x) + Terms(value, b, s, a, y)
        <5>1. /\ x \in SUBSET NonSource(s, a) /\ y \in SUBSET NonSource(s, a)
              /\ x \cap y = {}
          BY <3>1, <4>1
        <5> QED BY <3>1, <5>1, TermsUnion
      <4> QED BY <4>1, <4>2
    <3> QED BY <3>2, <3>3
  <2>4. q.conv_part[b] = TotalWeight[s][a] * ActionCost[a] + Terms(value, b, s, a, c)
    BY <1>2 DEF GatheredOK
  <2>5. TotalWeight[s][a] * ActionCost[a] \in Int
    BY <1>1, WeightsType, TailsType, MDPAssumption
  <2>6. q.conv_part[b] + Terms(value, b, s, a, n)
          = TotalWeight[s][a] * ActionCost[a] + Weighted(value, b, s, a)
    <3>1. PICK x : x = TotalWeight[s][a] * ActionCost[a]
      OBVIOUS
    <3>2. x \in Int /\ q.conv_part[b] = x + Terms(value, b, s, a, c)
      BY <2>4, <2>5, <3>1
    <3>3. /\ Weighted(value, b, s, a) =
               Terms(value, b, s, a, c) + Terms(value, b, s, a, n)
          /\ Terms(value, b, s, a, c) \in Int /\ Terms(value, b, s, a, n) \in Int
      BY <2>2, <2>3
    <3> HIDE DEF a, n, c
    <3>4. q.conv_part[b] + Terms(value, b, s, a, n) = x + Weighted(value, b, s, a)
      BY ONLY <3>2, <3>3
    <3> QED BY <3>1, <3>4
  <2>7. ComputeQValue(value, s, q)[b] =
          IF b \in q.infinite \/ \E t \in n : value[t][b] = Infinite THEN Infinite
          ELSE Saturated((q.conv_part[b] + Terms(value, b, s, a, n)) \div q.norm)
    BY <1>2 DEF ComputeQValue, Terms, BoundNames
  <2> HIDE DEF a, n, c
  <2> QED BY <2>1, <2>6, <2>7, QValueUnfold DEF Quotient, a
<1>3. \A b \in BoundNames : QValue(value, b, s, a) \in Int
  BY <1>1, QValueType
<1>4. ComputeQValue(value, s, q) =
        [lower |-> ComputeQValue(value, s, q)["lower"],
         upper |-> ComputeQValue(value, s, q)["upper"]]
  BY DEF ComputeQValue
<1> QED BY <1>2, <1>3, <1>4 DEF Bounds, BoundNames

-----------------------------------------------------------------------------
(* What is the same after a step, given the frames it leaves.              *)

LEMMA TopFacts ==
  ASSUME StacksOK, dfs_stack # <<>>
  PROVE  /\ Len(dfs_stack) \in Nat \ {0}
         /\ DOMAIN dfs_stack = 1..Len(dfs_stack)
         /\ Len(dfs_stack) \in DOMAIN dfs_stack
         /\ Top = dfs_stack[Len(dfs_stack)] /\ Top \in DFSExplorationState
         /\ DOMAIN tarjan_stack = 1..Len(tarjan_stack) /\ Len(tarjan_stack) \in Nat
BY DEF StacksOK, Top

LEMMA EntryFacts ==
  ASSUME StacksOK, NEW i \in DOMAIN tarjan_stack
  PROVE  tarjan_stack[i] \in StackInfo /\ tarjan_stack[i].state \in State
<1>1. tarjan_stack[i] \in StackInfo
  BY DEF StacksOK
<1> QED BY <1>1 DEF StackInfo

LEMMA FrameType ==
  ASSUME StacksOK, NEW j \in DOMAIN dfs_stack
  PROVE  dfs_stack[j] \in DFSExplorationState /\ dfs_stack[j].state \in State
<1>1. dfs_stack[j] \in DFSExplorationState
  BY DEF StacksOK
<1> QED BY <1>1 DEF DFSExplorationState

LEMMA QFacts ==
  ASSUME NEW f \in DFSExplorationState
  PROVE  /\ Exploring(f) => f.q.action \in Action /\ f.q.action # NoAction
         /\ ~Exploring(f) => f.q = NoTransition /\ f.q.action = NoAction
         /\ f.state \in State /\ f.stackidx \in Int /\ f.lowlink \in Int
BY HeuristicAssumption DEF Exploring, DFSExplorationState, QValueInfo, NoTransition

(* The step replaces the top frame by f.                                   *)
TopBecomes(f) ==
  /\ dfs_stack # <<>> /\ f \in DFSExplorationState
  /\ f.state = Top.state /\ f.stackidx = Top.stackidx /\ f.lowlink <= Top.lowlink
  /\ dfs_stack' = WithTop(dfs_stack, f)
  /\ config' = config

LEMMA TopStack ==
  ASSUME StacksOK, NEW f, TopBecomes(f)
  PROVE  /\ dfs_stack' \in Seq(DFSExplorationState)
         /\ dfs_stack' # <<>> /\ Len(dfs_stack') = Len(dfs_stack)
         /\ DOMAIN dfs_stack' = DOMAIN dfs_stack
         /\ \A j \in DOMAIN dfs_stack : j # Len(dfs_stack) => dfs_stack'[j] = dfs_stack[j]
         /\ dfs_stack'[Len(dfs_stack)] = f /\ Top' = f
<1>1. /\ dfs_stack \in Seq(DFSExplorationState) /\ dfs_stack # <<>>
      /\ f \in DFSExplorationState /\ dfs_stack' = WithTop(dfs_stack, f)
  BY DEF StacksOK, TopBecomes
<1>2. /\ dfs_stack' \in Seq(DFSExplorationState)
      /\ Len(dfs_stack') = Len(dfs_stack) /\ Len(dfs_stack) \in Nat \ {0}
      /\ \A i \in 1..Len(dfs_stack) :
           dfs_stack'[i] = IF i = Len(dfs_stack) THEN f ELSE dfs_stack[i]
  BY <1>1 DEF WithTop
<1>3. DOMAIN dfs_stack = 1..Len(dfs_stack) /\ DOMAIN dfs_stack' = 1..Len(dfs_stack')
  BY <1>1, <1>2
<1>4. dfs_stack' # <<>>
  BY <1>1, <1>2
<1>5. /\ \A j \in DOMAIN dfs_stack : j # Len(dfs_stack) => dfs_stack'[j] = dfs_stack[j]
      /\ dfs_stack'[Len(dfs_stack)] = f
  <2>1. Len(dfs_stack) \in 1..Len(dfs_stack)
    BY <1>2
  <2> QED BY <1>2, <1>3, <2>1, Zenon
<1>6. Top' = f
  BY <1>1, <1>2, <1>5 DEF Top
<1> QED BY <1>1, <1>2, <1>3, <1>4, <1>5, <1>6

(* The entries of Tarjan's stack stay where they are.                      *)
SameEntries ==
  /\ tarjan_stack' \in Seq(StackInfo) /\ Len(tarjan_stack') = Len(tarjan_stack)
  /\ \A i \in DOMAIN tarjan_stack : tarjan_stack'[i].state = tarjan_stack[i].state
  /\ UNCHANGED <<status, stack_id>>

LEMMA SameEntriesFacts ==
  ASSUME StacksOK, SameEntries
  PROVE  /\ DOMAIN tarjan_stack' = DOMAIN tarjan_stack
         /\ Indexed => Indexed'
         /\ config' = config /\ ClosedComponents => ClosedComponents'
<1>1. DOMAIN tarjan_stack' = DOMAIN tarjan_stack
  BY DEF StacksOK, SameEntries
<1>2. Indexed => Indexed'
  BY <1>1 DEF SameEntries, Indexed
<1>3. config' = config /\ ClosedComponents => ClosedComponents'
  BY DEF SameEntries, ClosedComponents, Pruned
<1> QED BY <1>1, <1>2, <1>3

(* The frames, when the top changes.                                       *)
LEMMA TopFrames ==
  ASSUME StacksOK, FramesOK, SameEntries, NEW f, TopBecomes(f), FrameOK(f)'
  PROVE  FramesOK'
<1>1. /\ dfs_stack' # <<>> /\ Len(dfs_stack') = Len(dfs_stack)
      /\ DOMAIN dfs_stack' = DOMAIN dfs_stack
      /\ \A j \in DOMAIN dfs_stack : j # Len(dfs_stack) => dfs_stack'[j] = dfs_stack[j]
      /\ dfs_stack'[Len(dfs_stack)] = f /\ dfs_stack # <<>>
  BY TopStack DEF TopBecomes
<1>2. /\ f.state = Top.state /\ f.stackidx = Top.stackidx /\ config' = config
      /\ Top = dfs_stack[Len(dfs_stack)] /\ DOMAIN dfs_stack = 1..Len(dfs_stack)
      /\ Len(dfs_stack) \in Nat \ {0}
  BY <1>1, TopFacts DEF TopBecomes
<1>3. \A j \in DOMAIN dfs_stack : /\ dfs_stack'[j].state = dfs_stack[j].state
                                  /\ dfs_stack'[j].stackidx = dfs_stack[j].stackidx
  BY <1>1, <1>2
<1>4. ASSUME NEW j \in DOMAIN dfs_stack PROVE FrameOK(dfs_stack[j])'
  <2>1. CASE j = Len(dfs_stack)
    BY <1>1, <2>1
  <2>2. CASE j # Len(dfs_stack)
    <3>1. PICK g : g = dfs_stack[j] /\ g = dfs_stack'[j]
      BY <1>1, <2>2
    <3>2. FrameOK(g)
      BY <3>1, <1>4 DEF FramesOK
    <3>3. FrameOK(g)'
      BY <1>2, <3>2, SameEntriesFacts DEF FrameOK, SameEntries, Pruned, Exploring
    <3> QED BY <3>1, <3>3
  <2> QED BY <2>1, <2>2
<1>5. \A j, k \in DOMAIN dfs_stack :
        j < k => dfs_stack'[j].stackidx < dfs_stack'[k].stackidx
  BY <1>3 DEF FramesOK
<1>6. ASSUME NEW j \in DOMAIN dfs_stack, j < Len(dfs_stack)
      PROVE  LET g == dfs_stack'[j]
             IN  /\ Exploring(g)
                 /\ g.successor = dfs_stack'[j + 1].state
                 /\ g.successor \in NonSource(g.state, g.q.action) \ g.successors
  <2>1. dfs_stack'[j] = dfs_stack[j] /\ dfs_stack'[j + 1].state = dfs_stack[j + 1].state
    BY <1>1, <1>2, <1>3, <1>6
  <2> QED BY <1>6, <2>1 DEF FramesOK
<1> QED BY <1>1, <1>4, <1>5, <1>6 DEF FramesOK, Exploring

(* Tarjan's algorithm, when the top changes.                               *)
LEMMA TopLowlinks ==
  ASSUME StacksOK, LowlinksOK, SameEntries, NEW f, TopBecomes(f),
         \A t \in Ahead(Top) : \/ status[t] = "closed"
                               \/ status[t] = "onstack" /\ stack_id[t] >= f.lowlink
                               \/ t \in Ahead(f),
         stack_id \in [State -> Int]
  PROVE  LowlinksOK'
<1>1. /\ Len(dfs_stack') = Len(dfs_stack) /\ DOMAIN dfs_stack' = DOMAIN dfs_stack
      /\ \A j \in DOMAIN dfs_stack : j # Len(dfs_stack) => dfs_stack'[j] = dfs_stack[j]
      /\ dfs_stack'[Len(dfs_stack)] = f /\ dfs_stack # <<>>
  BY TopStack DEF TopBecomes
<1>2. /\ f.state = Top.state /\ f.stackidx = Top.stackidx /\ config' = config
      /\ f.lowlink <= Top.lowlink /\ f.lowlink \in Int /\ Top.lowlink \in Int
      /\ Top = dfs_stack[Len(dfs_stack)]
      /\ DOMAIN tarjan_stack' = DOMAIN tarjan_stack
  BY <1>1, TopFacts, QFacts, SameEntriesFacts DEF TopBecomes
<1>3. \A j \in DOMAIN dfs_stack : dfs_stack'[j].stackidx = dfs_stack[j].stackidx
  BY <1>1, <1>2
<1>4. \A j \in DOMAIN dfs_stack : Segment(j)' = Segment(j)
  BY <1>1, <1>2, <1>3 DEF Segment
<1> SUFFICES ASSUME NEW j \in DOMAIN dfs_stack, NEW i \in Segment(j),
                    ~Pruned(tarjan_stack[i].state),
                    NEW t \in Neighbours(tarjan_stack[i].state)
             PROVE  \/ status[t] = "closed"
                    \/ status[t] = "onstack" /\ stack_id[t] >= dfs_stack'[j].lowlink
                    \/ i = dfs_stack'[j].stackidx /\ t \in Ahead(dfs_stack'[j])
  <2>1. \A i \in DOMAIN tarjan_stack : tarjan_stack'[i].state = tarjan_stack[i].state
    BY DEF SameEntries
  <2>2. \A j : Segment(j) \subseteq DOMAIN tarjan_stack
    BY DEF Segment
  <2> QED BY <1>1, <1>2, <1>4, <2>1, <2>2 DEF LowlinksOK, SameEntries, Pruned, Ahead
<1>5. \/ status[t] = "closed"
      \/ status[t] = "onstack" /\ stack_id[t] >= dfs_stack[j].lowlink
      \/ i = dfs_stack[j].stackidx /\ t \in Ahead(dfs_stack[j])
  BY DEF LowlinksOK
<1>6. CASE j # Len(dfs_stack)
  BY <1>1, <1>5, <1>6
<1>7. CASE j = Len(dfs_stack)
  <2>1. dfs_stack'[j] = f /\ dfs_stack[j] = Top
    BY <1>1, <1>2, <1>7
  <2>2. status[t] = "onstack" /\ stack_id[t] >= Top.lowlink => stack_id[t] >= f.lowlink
    <3>1. i \in DOMAIN tarjan_stack
      BY DEF Segment
    <3>2. t \in State
      <4>1. tarjan_stack[i].state \in State
        BY <3>1, EntryFacts
      <4> QED BY <4>1, NeighboursType
    <3>3. stack_id[t] \in Int
      BY <3>2
    <3> QED BY <1>2, <3>3
  <2> QED BY <1>2, <1>5, <2>1, <2>2
<1> QED BY <1>6, <1>7

-----------------------------------------------------------------------------
(* What was collected stays valid, as finished components do not change.   *)

Frozen ==
  /\ config' = config
  /\ \A t \in State : status[t] = "closed" =>
       status'[t] = "closed" /\ value'[t] = value[t]

LEMMA GatheredKept ==
  ASSUME NEW s \in State, NEW q, NEW rest, GatheredOK(s, q, rest), Frozen
  PROVE  GatheredOK(s, q, rest)'
<1> DEFINE c == Added(s, q, rest)
<1>1. c' = c /\ q.action \in TransitionTails(s)
  BY DEF Added, GatheredOK
<1>2. NonSource(s, q.action) \subseteq State
  BY <1>1, TailsType
<1>3. \A t \in c : t \in State /\ status[t] = "closed"
  BY <1>2 DEF GatheredOK, Added
<1>4. \A t \in c : status'[t] = "closed" /\ value'[t] = value[t]
  BY <1>3 DEF Frozen
<1>5. \A b : Terms(value', b, s, q.action, c) = Terms(value, b, s, q.action, c)
  <2> TAKE b
  <2>1. [t \in c |-> Transition[s][q.action][t] * value'[t][b]]
          = [t \in c |-> Transition[s][q.action][t] * value[t][b]]
    <3> HIDE DEF c
    <3> QED BY <1>4
  <2> HIDE DEF c
  <2> QED BY <2>1 DEF Terms
<1>6. \A b \in BoundNames : (\E t \in c : value'[t][b] = Infinite)
                              <=> \E t \in c : value[t][b] = Infinite
  BY <1>4
<1> QED BY <1>1, <1>4, <1>5, <1>6 DEF GatheredOK, Added

LEMMA SettledKept ==
  ASSUME NEW s \in State, NEW a \in TransitionTails(s), Settled(s, a), Frozen
  PROVE  /\ Settled(s, a)'
         /\ \A b \in BoundNames : QValue(value', b, s, a) = QValue(value, b, s, a)
<1>1. \A t \in NonSource(s, a) : status'[t] = "closed" /\ value'[t] = value[t]
  BY TailsType DEF Settled, Frozen
<1>2. Settled(s, a)'
  BY <1>1 DEF Settled
<1>3. \A b \in BoundNames : QValue(value', b, s, a) = QValue(value, b, s, a)
  BY <1>1 DEF QValue
<1> QED BY <1>2, <1>3

LEMMA EntryKept ==
  ASSUME NEW entry \in StackInfo, NEW new \in StackInfo, NEW acts, NEW fewer,
         EntryOK(entry, acts), Frozen,
         fewer \subseteq acts, acts \subseteq TransitionTails(entry.state),
         new.state = entry.state, new.conv_part = entry.conv_part,
         new.nconv_qs = entry.nconv_qs, new.best_converged = entry.best_converged
  PROVE  EntryOK(new, fewer)'
<1> DEFINE s == entry.state
<1>1. s \in State /\ (Pruned(s)' <=> Pruned(s))
  BY DEF StackInfo, Pruned, Frozen
<1>2. \A k \in DOMAIN entry.nconv_qs :
        LET q == entry.nconv_qs[k]
        IN  GatheredOK(s, q, {})' /\ q.norm = NonSourceWeight[s][q.action]
  <2> TAKE k \in DOMAIN entry.nconv_qs
  <2>1. PICK q : q = entry.nconv_qs[k]
    OBVIOUS
  <2>2. GatheredOK(s, q, {}) /\ q.norm = NonSourceWeight[s][q.action]
    BY <2>1 DEF EntryOK
  <2>3. GatheredOK(s, q, {})'
    BY <1>1, <2>2, GatheredKept
  <2> QED BY <2>1, <2>2, <2>3
<1>3. \A a \in TransitionTails(s) : Settled(s, a) =>
        /\ Settled(s, a)'
        /\ \A b \in BoundNames : QValue(value', b, s, a) = QValue(value, b, s, a)
  BY <1>1, SettledKept
<1>4. "lower" \in BoundNames
  BY DEF BoundNames
<1>5. ~Pruned(s) => \A a \in fewer :
        \/ \E k \in DOMAIN entry.nconv_qs : entry.nconv_qs[k].action = a
        \/ /\ Settled(s, a)'
           /\ \A b \in BoundNames : entry.conv_part[b] <= QValue(value', b, s, a)
  BY <1>3 DEF EntryOK
<1>6. \A b \in BoundNames :
        /\ entry.conv_part[b] <= TerminationCost[s]
        /\ \/ entry.conv_part[b] = TerminationCost[s]
           \/ \E a \in TransitionTails(s) :
                Settled(s, a)' /\ entry.conv_part[b] = QValue(value', b, s, a)
  BY <1>3 DEF EntryOK
<1>7. IF entry.conv_part.lower = TerminationCost[s]
      THEN entry.best_converged = NoAction
      ELSE /\ entry.best_converged \in TransitionTails(s)
           /\ Settled(s, entry.best_converged)'
           /\ entry.conv_part.lower = QValue(value', "lower", s, entry.best_converged)
  BY <1>3, <1>4 DEF EntryOK
<1>8. Pruned(s) => entry.conv_part = Point(TerminationCost[s])
                   /\ entry.nconv_qs = <<>>
  BY DEF EntryOK
<1> HIDE DEF s
<1>9. new.state = s
  BY DEF s
<1> QED BY <1>1, <1>2, <1>5, <1>6, <1>7, <1>8, <1>9 DEF EntryOK

(* The transitions under way, when the top changes.                        *)
LEMMA TopTransitions ==
  ASSUME StacksOK, TransitionsOK, NEW f, TopBecomes(f), Frozen,
         Exploring(f) => GatheredOK(f.state, f.q, f.successors)'
  PROVE  TransitionsOK'
<1>1. /\ Len(dfs_stack') = Len(dfs_stack) /\ DOMAIN dfs_stack' = DOMAIN dfs_stack
      /\ \A j \in DOMAIN dfs_stack : j # Len(dfs_stack) => dfs_stack'[j] = dfs_stack[j]
      /\ dfs_stack'[Len(dfs_stack)] = f
      /\ Len(dfs_stack) \in Nat \ {0} /\ DOMAIN dfs_stack = 1..Len(dfs_stack)
  BY TopStack, TopFacts DEF TopBecomes
<1> SUFFICES ASSUME NEW j \in DOMAIN dfs_stack, Exploring(dfs_stack'[j])
             PROVE  GatheredOK(dfs_stack[j].state, dfs_stack[j].q, Rest(j))'
  BY <1>1 DEF TransitionsOK, Exploring
<1>2. CASE j = Len(dfs_stack)
  <2>1. Rest(j)' = f.successors /\ dfs_stack'[j] = f
    BY <1>1, <1>2 DEF Rest
  <2> QED BY <2>1
<1>3. CASE j # Len(dfs_stack)
  <2>1. PICK g, r : g = dfs_stack[j] /\ g = dfs_stack'[j] /\ r = Rest(j)
    BY <1>1, <1>3
  <2>2. r = Rest(j)'
    BY <1>1, <1>3, <2>1 DEF Rest
  <2>3. g \in DFSExplorationState
    BY <2>1, FrameType
  <2>4. GatheredOK(g.state, g.q, r) /\ g.state \in State
    BY <2>1, FrameType DEF TransitionsOK
  <2>5. GatheredOK(g.state, g.q, r)'
    BY <2>4, GatheredKept
  <2> QED BY <2>1, <2>2, <2>5
<1> QED BY <1>2, <1>3

-----------------------------------------------------------------------------
(* One transition.                                                         *)

LEMMA Parts ==
  ASSUME IInv, pc # "timeout"
  PROVE  /\ TypeOK /\ StacksOK /\ Indexed /\ ClosedComponents
         /\ FramesOK /\ ControlOK /\ LowlinksOK /\ TransitionsOK /\ EntriesOK
BY DEF IInv, ExplorationOK

(* The top frame, while the exploration goes on.                           *)
LEMMA TopOK ==
  ASSUME IInv, dfs_stack # <<>>, pc # "timeout"
  PROVE  /\ FrameOK(Top) /\ Top \in DFSExplorationState
         /\ Len(dfs_stack) \in DOMAIN dfs_stack /\ Top = dfs_stack[Len(dfs_stack)]
         /\ Top.stackidx \in DOMAIN tarjan_stack /\ Top.state \in State
         /\ tarjan_stack[Top.stackidx].state = Top.state
         /\ Top.lowlink <= Top.stackidx
         /\ status[Top.state] = "onstack" /\ stack_id[Top.state] = Top.stackidx
<1>1. /\ Len(dfs_stack) \in DOMAIN dfs_stack /\ Top = dfs_stack[Len(dfs_stack)]
      /\ Top \in DFSExplorationState
  BY Parts, TopFacts
<1>2. FrameOK(Top)
  BY <1>1, Parts DEF FramesOK
<1>3. /\ Top.stackidx \in DOMAIN tarjan_stack
      /\ tarjan_stack[Top.stackidx].state = Top.state
  BY <1>2 DEF FrameOK
<1>4. Top.lowlink <= Top.stackidx
  BY <1>1, Parts DEF TypeOK
<1>5. status[Top.state] = "onstack" /\ stack_id[Top.state] = Top.stackidx
  BY <1>3, Parts DEF Indexed
<1>6. Top.state \in State
  BY <1>1 DEF DFSExplorationState
<1> QED BY <1>1, <1>2, <1>3, <1>4, <1>5, <1>6

(* The types of the stacks, when the top changes.                          *)
LEMMA TopTypes ==
  ASSUME StacksOK, TypeOK, SameEntries, NEW f, TopBecomes(f)
  PROVE  /\ StacksOK'
         /\ \A i \in DOMAIN dfs_stack' :
              /\ dfs_stack'[i] \in DFSExplorationState
              /\ dfs_stack'[i].lowlink <= dfs_stack'[i].stackidx
              /\ dfs_stack'[i].stackidx <= Len(tarjan_stack')
         /\ \A i \in DOMAIN tarjan_stack' : tarjan_stack'[i] \in StackInfo
<1>1. /\ dfs_stack' \in Seq(DFSExplorationState)
      /\ DOMAIN dfs_stack' = DOMAIN dfs_stack
      /\ \A j \in DOMAIN dfs_stack : j # Len(dfs_stack) => dfs_stack'[j] = dfs_stack[j]
      /\ dfs_stack'[Len(dfs_stack)] = f
  BY TopStack
<1>2. /\ f \in DFSExplorationState /\ f.stackidx = Top.stackidx
      /\ f.lowlink <= Top.lowlink /\ f.lowlink \in Int /\ Top.lowlink \in Int
      /\ Top.stackidx \in Int /\ Top = dfs_stack[Len(dfs_stack)]
      /\ Len(dfs_stack) \in DOMAIN dfs_stack
  BY TopFacts, QFacts DEF TopBecomes
<1>3. \A j \in DOMAIN dfs_stack : /\ dfs_stack[j] \in DFSExplorationState
                                  /\ dfs_stack[j].lowlink <= dfs_stack[j].stackidx
                                  /\ dfs_stack[j].stackidx <= Len(tarjan_stack)
  BY DEF TypeOK
<1>4. f.lowlink <= f.stackidx /\ f.stackidx <= Len(tarjan_stack)
  BY <1>2, <1>3
<1>5. tarjan_stack' \in Seq(StackInfo) /\ Len(tarjan_stack') = Len(tarjan_stack)
  BY DEF SameEntries
<1> QED BY <1>1, <1>2, <1>3, <1>4, <1>5 DEF StacksOK

(* When nothing else changes but the control point.                        *)
LEMMA TopQuiet ==
  ASSUME IInv, pc # "timeout", NEW f, TopBecomes(f), FrameOK(f)', pc' \in PCs,
         UNCHANGED <<initial_state, status, stack_id, value, tarjan_stack, sweep,
                     decision>>,
         ControlOK',
         \A t \in Ahead(Top) : \/ status[t] = "closed"
                               \/ status[t] = "onstack" /\ stack_id[t] >= f.lowlink
                               \/ t \in Ahead(f),
         Exploring(f) => GatheredOK(f.state, f.q, f.successors)',
         Top.aops \union {Top.q.action} \subseteq
           f.aops \union {f.q.action, NoAction}
  PROVE  IInv'
<1>1. /\ TypeOK /\ StacksOK /\ Indexed /\ ClosedComponents
      /\ FramesOK /\ LowlinksOK /\ TransitionsOK /\ EntriesOK
  BY Parts
<1>2. SameEntries /\ Frozen
  BY <1>1 DEF SameEntries, Frozen, StacksOK, TopBecomes
<1>3. StacksOK' /\ FramesOK' /\ LowlinksOK' /\ TransitionsOK' /\ Indexed'
  BY <1>1, <1>2, TopTypes, TopFrames, TopLowlinks, TopTransitions, SameEntriesFacts
  DEF TypeOK
<1>4. TypeOK' /\ ClosedComponents'
  BY <1>1, <1>2, TopTypes, SameEntriesFacts DEF TypeOK, TopBecomes
<1>5. \A i \in DOMAIN tarjan_stack : Explored(i)' \subseteq Explored(i)
  <2>1. /\ DOMAIN dfs_stack' = DOMAIN dfs_stack
        /\ \A j \in DOMAIN dfs_stack :
             j # Len(dfs_stack) => dfs_stack'[j] = dfs_stack[j]
        /\ dfs_stack'[Len(dfs_stack)] = f /\ Top = dfs_stack[Len(dfs_stack)]
        /\ f.stackidx = Top.stackidx
    BY <1>1, TopStack, TopFacts DEF TopBecomes
  <2>2. \A i \in DOMAIN tarjan_stack :
          NoAction \notin TransitionTails(tarjan_stack[i].state)
    BY <1>1, EntryFacts, TailsType, HeuristicAssumption
  <2> QED BY <2>1, <2>2 DEF Explored
<1>6. EntriesOK'
  <2> SUFFICES ASSUME NEW i \in DOMAIN tarjan_stack
               PROVE  EntryOK(tarjan_stack[i], Explored(i))'
    BY DEF EntriesOK
  <2>1. PICK e, x, y : e = tarjan_stack[i] /\ x = Explored(i) /\ y = Explored(i)'
    OBVIOUS
  <2>2. EntryOK(e, x) /\ y \subseteq x /\ x \subseteq TransitionTails(e.state)
    BY <1>1, <1>5, <2>1 DEF EntriesOK, Explored
  <2>3. e \in StackInfo
    BY <1>1, <2>1, EntryFacts
  <2>4. EntryOK(e, y)'
    BY <1>2, <2>2, <2>3, EntryKept
  <2> QED BY <2>1, <2>4
<1> QED BY <1>3, <1>4, <1>6 DEF IInv, ExplorationOK

LEMMA BeginStep == ASSUME IInv, BeginTransition PROVE IInv'
<1>1. /\ pc = "transition" /\ pc' = "successor" /\ pc # "timeout"
      /\ UNCHANGED <<config, initial_state, status, stack_id, value, tarjan_stack,
                     sweep, decision>>
  BY DEF BeginTransition
<1>2. /\ dfs_stack # <<>> /\ ~Exploring(Top) /\ StacksOK
      /\ FrameOK(Top) /\ Top \in DFSExplorationState /\ Top.state \in State
  BY <1>1, Parts, TopOK DEF ControlOK
<1>3. PICK s, acts : s = Top.state /\ acts = Top.aops
  OBVIOUS
<1>4. PICK a \in acts :
        LET cost == TotalWeight[s][a] * ActionCost[a]
        IN  dfs_stack' = WithTop(dfs_stack,
              [Top EXCEPT !.aops = @ \ {a}, !.successors = NonSource(s, a),
                          !.q = [action |-> a, conv_part |-> Point(cost),
                                 infinite |-> {}, nconv_successors |-> {},
                                 norm |-> TotalWeight[s][a]]])
  BY <1>3 DEF BeginTransition
<1>5. PICK cost : cost = TotalWeight[s][a] * ActionCost[a]
  OBVIOUS
<1>6. PICK q : q = [action |-> a, conv_part |-> Point(cost), infinite |-> {},
                    nconv_successors |-> {}, norm |-> TotalWeight[s][a]]
  OBVIOUS
<1>7. PICK f : f = [Top EXCEPT !.aops = @ \ {a}, !.successors = NonSource(s, a), !.q = q]
  OBVIOUS
<1>8. dfs_stack' = WithTop(dfs_stack, f)
  BY <1>4, <1>5, <1>6, <1>7
<1>9. /\ s \in State /\ a \in TransitionTails(s) /\ a \in Action
      /\ NonSource(s, a) \subseteq State
  BY <1>2, <1>3, TailsType DEF FrameOK
<1>10. q \in QValueInfo
  <2>1. TotalWeight[s][a] \in Nat \ {0}
    BY <1>9, WeightsType, TotalWeightPos
  <2>2. cost \in Int
    BY <1>5, <1>9, <2>1, MDPAssumption
  <2> QED BY <1>6, <1>9, <2>1, <2>2 DEF QValueInfo, Bounds, Point
<1>11. /\ f \in DFSExplorationState /\ f.state = s /\ f.stackidx = Top.stackidx
       /\ f.lowlink = Top.lowlink /\ f.q = q /\ f.aops = acts \ {a}
       /\ f.successors = NonSource(s, a)
  BY <1>2, <1>3, <1>7, <1>9, <1>10 DEF DFSExplorationState
<1>12. TopBecomes(f)
  <2>1. Top.lowlink \in Int
    BY <1>2, QFacts
  <2> QED BY <1>1, <1>2, <1>3, <1>8, <1>11, <2>1 DEF TopBecomes
<1>13. FrameOK(f)'
  BY <1>1, <1>2, <1>3, <1>6, <1>9, <1>10, <1>11 DEF FrameOK, Exploring, Pruned
<1>14. ControlOK'
  BY <1>1, <1>2, <1>10, <1>11, <1>12, TopStack DEF ControlOK, Exploring
<1>15. \A t \in Ahead(Top) : t \in Ahead(f)
  <2>1. Top.successors = {}
    BY <1>2 DEF FrameOK
  <2> QED BY <1>3, <1>11, <2>1 DEF Ahead
<1>16. GatheredOK(f.state, f.q, f.successors)'
  <2>1. /\ q.action = a /\ q.conv_part = Point(cost) /\ q.infinite = {}
        /\ q.nconv_successors = {}
    BY <1>6
  <2>2. Added(s, q, NonSource(s, a)) = {}
    BY <2>1 DEF Added
  <2>3. \A b \in BoundNames : Terms(value, b, s, a, {}) = 0
    <3>1. NonSource(s, a) # {}
      BY <1>9 DEF TransitionTails
    <3>2. value \in [State -> Bounds]
      BY <1>1, Parts DEF TypeOK
    <3> QED BY <1>9, <3>1, <3>2, TermsOne
  <2>4. \A b \in BoundNames : q.conv_part[b] = cost /\ cost \in Int
    BY <1>10, <2>1 DEF QValueInfo, Point, BoundNames, Bounds
  <2>5. \A b \in BoundNames : q.conv_part[b] =
          TotalWeight[s][a] * ActionCost[a] + Terms(value', b, s, a, {})
    BY <1>1, <1>5, <2>3, <2>4
  <2> QED BY <1>9, <1>11, <2>1, <2>2, <2>5 DEF GatheredOK, Added
<1>17. Top.aops \union {Top.q.action} \subseteq f.aops \union {f.q.action, NoAction}
  BY <1>2, <1>3, <1>6, <1>11, QFacts
<1> QED BY <1>1, <1>11, <1>12, <1>13, <1>14, <1>15, <1>16, <1>17, TopQuiet DEF PCs

(* A successor whose component is finished is added by value.  The same    *)
(* holds when the component is finished on the way back.                   *)
LEMMA AddedConverged ==
  ASSUME StacksOK, value \in [State -> Bounds],
         NEW f \in DFSExplorationState, Exploring(f), NEW t, NEW rest,
         GatheredOK(f.state, f.q, rest \union {t}), t \notin rest,
         t \in NonSource(f.state, f.q.action),
         config' = config, value' = value, status'[t] = "closed",
         \A u \in State : status[u] = "closed" => status'[u] = "closed",
         NEW x, x = AddConverged(f, t)
  PROVE  /\ x \in QValueInfo /\ x.action = f.q.action
         /\ GatheredOK(f.state, x, rest)'
<1> DEFINE s == f.state
           q == f.q
           a == q.action
           c == Added(s, q, rest \union {t})
           w == Transition[s][a][t]
<1>1. /\ s \in State /\ q \in QValueInfo /\ a \in TransitionTails(s)
      /\ NonSource(s, a) \subseteq State /\ t \in State
      /\ q.nconv_successors \subseteq NonSource(s, a) \ (rest \union {t})
  BY TailsType DEF DFSExplorationState, Exploring, GatheredOK
<1>2. /\ x.action = a /\ x.nconv_successors = q.nconv_successors
      /\ x.norm = q.norm
      /\ x.conv_part = [lower |-> q.conv_part.lower + w * value[t].lower,
                        upper |-> q.conv_part.upper + w * value[t].upper]
      /\ x.infinite = q.infinite \union
           {b \in {"lower", "upper"} : value[t][b] = Infinite}
  BY <1>1 DEF AddConverged, QValueInfo
<1>3. c \subseteq NonSource(s, a) /\ t \notin c /\ Added(s, x, rest) = c \union {t}
  BY <1>1, <1>2 DEF Added
<1>4. w \in Int /\ \A b \in BoundNames : value[t][b] \in Int /\ w * value[t][b] \in Int
  BY <1>1, WeightsType, BoundType
<1>5. /\ value[t].lower \in Int /\ value[t].upper \in Int
      /\ w * value[t].lower \in Int /\ w * value[t].upper \in Int
  BY <1>4 DEF BoundNames
<1>6. x \in QValueInfo
  <2>1. q.conv_part.lower \in Int /\ q.conv_part.upper \in Int
    BY <1>1 DEF QValueInfo, Bounds
  <2>2. x.conv_part \in Bounds
    <3>1. /\ q.conv_part.lower + w * value[t].lower \in Int
          /\ q.conv_part.upper + w * value[t].upper \in Int
      BY <1>5, <2>1
    <3> QED BY <1>2, <3>1 DEF Bounds
  <2>3. x.infinite \in SUBSET {"lower", "upper"}
    BY <1>1, <1>2 DEF QValueInfo
  <2>4. PICK p, z : x = [q EXCEPT !.conv_part = p, !.infinite = z]
    BY DEF AddConverged
  <2>5. x.conv_part = p /\ x.infinite = z
    BY <1>1, <2>4 DEF QValueInfo
  <2> HIDE DEF q, a
  <2> QED BY <1>1, <2>2, <2>3, <2>4, <2>5 DEF QValueInfo
<1>7. ASSUME NEW b \in BoundNames
      PROVE  x.conv_part[b] = TotalWeight[s][a] * ActionCost[a]
                              + Terms(value, b, s, a, c \union {t})
  <2>1. x.conv_part[b] = q.conv_part[b] + w * value[t][b]
    BY <1>2, <1>7 DEF BoundNames
  <2>2. q.conv_part[b] = TotalWeight[s][a] * ActionCost[a] + Terms(value, b, s, a, c)
    BY <1>7 DEF GatheredOK
  <2>3. Terms(value, b, s, a, c \union {t}) = Terms(value, b, s, a, c) + w * value[t][b]
    <3>1. PICK y, z : y = c /\ z = {t}
      OBVIOUS
    <3>2. /\ y \in SUBSET NonSource(s, a) /\ z \in SUBSET NonSource(s, a)
          /\ y \cap z = {}
      BY <1>3, <3>1
    <3>3. Terms(value, b, s, a, y \union z)
            = Terms(value, b, s, a, y) + Terms(value, b, s, a, z)
      BY <1>1, <1>7, <3>2, TermsUnion
    <3>4. Terms(value, b, s, a, {t}) = w * value[t][b]
      BY <1>1, <1>7, TermsOne
    <3> QED BY <3>1, <3>3, <3>4
  <2>4. /\ Terms(value, b, s, a, c) \in Int /\ w * value[t][b] \in Int
        /\ TotalWeight[s][a] * ActionCost[a] \in Int
    <3>1. TotalWeight[s][a] * ActionCost[a] \in Int
      BY <1>1, WeightsType, TailsType, MDPAssumption
    <3> QED BY <1>1, <1>3, <1>4, <1>7, <3>1, TermsFacts
  <2>5. PICK m, n, r, u : /\ m = TotalWeight[s][a] * ActionCost[a]
                          /\ n = Terms(value, b, s, a, c) /\ r = w * value[t][b]
                          /\ u = Terms(value, b, s, a, c \union {t})
    OBVIOUS
  <2>6. /\ m \in Int /\ n \in Int /\ r \in Int /\ u = n + r
        /\ x.conv_part[b] = (m + n) + r
    BY <2>1, <2>2, <2>3, <2>4, <2>5
  <2>7. x.conv_part[b] = m + u
    BY ONLY <2>6
  <2> QED BY <2>5, <2>7
<1>8. \A u \in c \union {t} : status'[u] = "closed"
  <2>1. \A u \in c : u \in State /\ status[u] = "closed"
    BY <1>1, <1>3 DEF GatheredOK
  <2> QED BY <2>1
<1>9. x.infinite = {b \in BoundNames : \E u \in c \union {t} : value[u][b] = Infinite}
  <2>1. q.infinite = {b \in BoundNames : \E u \in c : value[u][b] = Infinite}
    BY DEF GatheredOK
  <2> HIDE DEF c, q
  <2> QED BY <1>2, <2>1 DEF BoundNames
<1>10. x.nconv_successors \subseteq NonSource(s, a) \ rest
  BY <1>1, <1>2
<1>11. GatheredOK(s, x, rest)'
  <2> HIDE DEF c, q, a, w
  <2>1. \A y \in c \union {t} : status'[y] = "closed"
    BY <1>8
  <2>2. x.action \in TransitionTails(s)
        /\ x.nconv_successors \subseteq NonSource(s, x.action) \ rest
    BY <1>1, <1>2, <1>10
  <2>3. \A y \in Added(s, x, rest) : status'[y] = "closed"
    BY <1>3, <2>1
  <2>4. \A b \in BoundNames : x.conv_part[b] =
          TotalWeight[s][x.action] * ActionCost[x.action]
          + Terms(value', b, s, x.action, Added(s, x, rest))
    BY <1>2, <1>3, <1>7
  <2>5. x.infinite = {b \in BoundNames :
                        \E u \in Added(s, x, rest) : value'[u][b] = Infinite}
    BY <1>3, <1>9
  <2> QED BY ONLY <2>2, <2>3, <2>4, <2>5 DEF GatheredOK
<1> QED BY <1>2, <1>6, <1>11

(* One that is still open is remembered.                                   *)
LEMMA AddedOpen ==
  ASSUME NEW f \in DFSExplorationState, Exploring(f), NEW t, NEW rest,
         GatheredOK(f.state, f.q, rest \union {t}), t \notin rest,
         t \in NonSource(f.state, f.q.action), UNCHANGED <<config, value, status>>
  PROVE  /\ AddOpen(f, t) \in QValueInfo
         /\ AddOpen(f, t).action = f.q.action
         /\ GatheredOK(f.state, AddOpen(f, t), rest)'
<1> DEFINE s == f.state
           q == f.q
           a == q.action
           x == AddOpen(f, t)
<1>1. /\ s \in State /\ q \in QValueInfo /\ a \in TransitionTails(s)
      /\ NonSource(s, a) \subseteq State /\ t \in State
      /\ q.nconv_successors \subseteq NonSource(s, a) \ (rest \union {t})
  BY TailsType DEF DFSExplorationState, Exploring, GatheredOK
<1>2. /\ x.action = a /\ x.nconv_successors = q.nconv_successors \union {t}
      /\ x.norm = q.norm /\ x.conv_part = q.conv_part /\ x.infinite = q.infinite
      /\ x \in QValueInfo
  <2>1. t \in State /\ q.nconv_successors \in SUBSET State
    BY <1>1 DEF QValueInfo
  <2> QED BY <1>1, <2>1 DEF AddOpen, QValueInfo
<1>3. Added(s, x, rest) = Added(s, q, rest \union {t})
  BY <1>1, <1>2 DEF Added
<1>4. GatheredOK(s, x, rest)
  BY <1>1, <1>2, <1>3 DEF GatheredOK
<1>5. Frozen
  BY DEF Frozen
<1>6. GatheredOK(s, x, rest)'
  <2> HIDE DEF x
  <2> QED BY <1>1, <1>4, <1>5, GatheredKept
<1> QED BY <1>2, <1>6

(* The smaller one of two numbers.                                         *)
LEMMA MinOfTwo ==
  ASSUME NEW x \in Int, NEW y \in Int
  PROVE  Min({x, y}) \in {x, y} /\ Min({x, y}) <= x /\ Min({x, y}) <= y
<1>1. IsFiniteSet({x, y})
  <2>1. IsFiniteSet({} \union {x})
    BY FS_EmptySet, FS_AddElement
  <2>2. IsFiniteSet(({} \union {x}) \union {y})
    BY <2>1, FS_AddElement
  <2>3. ({} \union {x}) \union {y} = {x, y}
    OBVIOUS
  <2> QED BY <2>2, <2>3
<1>2. PICK S : S = {x, y}
  OBVIOUS
<1>3. Min(S) \in S /\ \A z \in S : Min(S) <= z
  BY <1>1, <1>2, MinInSet
<1> QED BY <1>2, <1>3

(* The top frame while its successors are explored.                        *)
LEMMA SuccessorTop ==
  ASSUME IInv, pc = "successor"
  PROVE  /\ dfs_stack # <<>> /\ Exploring(Top) /\ Top.q \in QValueInfo
         /\ Top \in DFSExplorationState /\ FrameOK(Top) /\ Top.state \in State
         /\ ~Pruned(Top.state) /\ Top.q.action \in TransitionTails(Top.state)
         /\ GatheredOK(Top.state, Top.q, Top.successors)
         /\ Top.successors \subseteq NonSource(Top.state, Top.q.action)
         /\ Top.successors \subseteq State
<1>1. /\ dfs_stack # <<>> /\ Exploring(Top) /\ FrameOK(Top)
      /\ Top \in DFSExplorationState /\ Top.state \in State
      /\ Len(dfs_stack) \in DOMAIN dfs_stack /\ Top = dfs_stack[Len(dfs_stack)]
  BY Parts, TopOK DEF ControlOK
<1>2. Rest(Len(dfs_stack)) = Top.successors
  <2>1. ~(Len(dfs_stack) < Len(dfs_stack))
    BY Parts, <1>1, TopFacts
  <2> QED BY <1>1, <2>1 DEF Rest
<1>3. GatheredOK(Top.state, Top.q, Top.successors)
  BY <1>1, <1>2, Parts DEF TransitionsOK
<1> QED BY <1>1, <1>3 DEF FrameOK, Exploring, DFSExplorationState

LEMMA KnownStep == ASSUME IInv, KnownSuccessor PROVE IInv'
<1>1. /\ pc = "successor" /\ pc' = pc /\ pc # "timeout"
      /\ UNCHANGED <<config, initial_state, status, stack_id, value, tarjan_stack,
                     sweep, decision>>
  BY DEF KnownSuccessor
<1>2. /\ dfs_stack # <<>> /\ Exploring(Top) /\ Top.q \in QValueInfo
      /\ Top \in DFSExplorationState /\ FrameOK(Top) /\ Top.state \in State
      /\ ~Pruned(Top.state) /\ Top.q.action \in TransitionTails(Top.state)
      /\ GatheredOK(Top.state, Top.q, Top.successors)
      /\ Top.successors \subseteq NonSource(Top.state, Top.q.action)
      /\ Top.successors \subseteq State
  BY <1>1, SuccessorTop
<1>3. PICK top : top = Top
  OBVIOUS
<1>4. PICK t \in top.successors :
        LET g == [top EXCEPT !.successors = @ \ {t}, !.successor = t]
        IN  \/ /\ status[t] = "closed"
               /\ dfs_stack' = WithTop(dfs_stack, [g EXCEPT !.q = AddConverged(g, t)])
            \/ /\ status[t] = "onstack"
               /\ dfs_stack' = WithTop(dfs_stack,
                    [g EXCEPT !.q = AddOpen(g, t),
                              !.lowlink = LowerLink(g, stack_id[t])])
  BY <1>3 DEF KnownSuccessor
<1>5. PICK g : g = [top EXCEPT !.successors = @ \ {t}, !.successor = t]
  OBVIOUS
<1>6. /\ g \in DFSExplorationState /\ g.state = top.state /\ g.q = top.q
      /\ g.stackidx = top.stackidx /\ g.lowlink = top.lowlink /\ g.aops = top.aops
      /\ g.successors = top.successors \ {t}
      /\ t \in State /\ t \in NonSource(top.state, top.q.action)
      /\ g.lowlink \in Int
  <2>1. /\ top \in DFSExplorationState /\ t \in State
        /\ t \in NonSource(top.state, top.q.action)
    BY <1>2, <1>3
  <2>2. top.successors \in SUBSET State
    BY <2>1 DEF DFSExplorationState
  <2>3. PICK rest : rest = top.successors \ {t}
    OBVIOUS
  <2>4. /\ rest \in SUBSET State
        /\ g = [top EXCEPT !.successors = rest, !.successor = t]
    BY <1>5, <2>2, <2>3
  <2>5. /\ g \in DFSExplorationState /\ g.state = top.state /\ g.q = top.q
        /\ g.stackidx = top.stackidx /\ g.lowlink = top.lowlink
        /\ g.aops = top.aops /\ g.successors = rest
    BY <2>1, <2>4 DEF DFSExplorationState
  <2>6. g.lowlink \in Int
    BY <2>5, QFacts
  <2> QED BY <2>1, <2>3, <2>5, <2>6
<1>7. /\ Exploring(g) /\ (top.successors \ {t}) \union {t} = top.successors
      /\ GatheredOK(g.state, g.q, g.successors \union {t})
      /\ t \notin g.successors /\ t \in NonSource(g.state, g.q.action)
  BY <1>2, <1>3, <1>6 DEF Exploring
<1>8. /\ value \in [State -> Bounds] /\ stack_id \in [State -> 0..Cardinality(State)]
      /\ StacksOK /\ Indexed
  BY <1>1, Parts DEF TypeOK
<1>9. PICK q, link :
        /\ dfs_stack' = WithTop(dfs_stack, [g EXCEPT !.q = q, !.lowlink = link])
        /\ q \in QValueInfo /\ q.action = g.q.action
        /\ GatheredOK(g.state, q, g.successors)'
        /\ link \in 1..Cardinality(State) /\ link <= g.lowlink
        /\ \/ status[t] = "closed"
           \/ status[t] = "onstack" /\ stack_id[t] >= link
  <2>1. CASE /\ status[t] = "closed"
             /\ dfs_stack' = WithTop(dfs_stack, [g EXCEPT !.q = AddConverged(g, t)])
    <3>1. PICK q : q = AddConverged(g, t)
      OBVIOUS
    <3>2. /\ q \in QValueInfo /\ q.action = g.q.action
          /\ GatheredOK(g.state, q, g.successors)'
      <4>1. PICK rest : rest = g.successors
        OBVIOUS
      <4> QED BY <1>1, <1>6, <1>7, <1>8, <2>1, <3>1, <4>1, AddedConverged
    <3>3. [g EXCEPT !.q = q] = [g EXCEPT !.q = q, !.lowlink = g.lowlink]
      BY <1>6 DEF DFSExplorationState
    <3>4. g.lowlink \in 1..Cardinality(State) /\ g.lowlink <= g.lowlink
      BY <1>6 DEF DFSExplorationState
    <3>5. PICK link : link = g.lowlink
      OBVIOUS
    <3>6. /\ dfs_stack' = WithTop(dfs_stack, [g EXCEPT !.q = q, !.lowlink = link])
          /\ link \in 1..Cardinality(State) /\ link <= g.lowlink
          /\ status[t] = "closed"
      BY <2>1, <3>1, <3>3, <3>4, <3>5
    <3> QED BY <3>2, <3>6
  <2>2. CASE /\ status[t] = "onstack"
             /\ dfs_stack' = WithTop(dfs_stack,
                  [g EXCEPT !.q = AddOpen(g, t),
                            !.lowlink = LowerLink(g, stack_id[t])])
    <3>1. PICK q, link : q = AddOpen(g, t) /\ link = LowerLink(g, stack_id[t])
      OBVIOUS
    <3>2. /\ q \in QValueInfo /\ q.action = g.q.action
          /\ GatheredOK(g.state, q, g.successors)'
      BY <1>1, <1>6, <1>7, <3>1, AddedOpen
    <3>3. stack_id[t] \in 1..Cardinality(State)
      <4>1. stack_id[t] \in DOMAIN tarjan_stack
        BY <1>6, <1>8, <2>2 DEF Indexed
      <4>2. stack_id[t] \in 0..Cardinality(State) /\ stack_id[t] >= 1
        BY <1>6, <1>8, <4>1, TopFacts, <1>2
      <4>3. Cardinality(State) \in Nat
        BY MDPAssumption, FS_CardinalityType
      <4> QED BY <4>2, <4>3
    <3>4. g.lowlink \in 1..Cardinality(State)
      BY <1>6 DEF DFSExplorationState
    <3>5. /\ link \in {g.lowlink, stack_id[t]}
          /\ link <= g.lowlink /\ link <= stack_id[t]
      <4>1. PICK x, y : x = g.lowlink /\ y = stack_id[t]
        OBVIOUS
      <4>2. x \in Int /\ y \in Int
        BY <1>6, <3>3, <4>1
      <4>3. Min({x, y}) \in {x, y} /\ Min({x, y}) <= x /\ Min({x, y}) <= y
        BY <4>2, MinOfTwo
      <4>4. link = Min({x, y})
        BY <3>1, <4>1 DEF LowerLink
      <4> QED BY <4>1, <4>3, <4>4
    <3> QED BY <2>2, <3>1, <3>2, <3>3, <3>4, <3>5
  <2> QED BY <1>4, <1>5, <2>1, <2>2
<1>10. PICK f : f = [g EXCEPT !.q = q, !.lowlink = link]
  OBVIOUS
<1>11. /\ f \in DFSExplorationState /\ f.state = top.state /\ f.q = q
       /\ f.stackidx = top.stackidx /\ f.lowlink = link /\ f.aops = top.aops
       /\ f.successors = top.successors \ {t}
  BY <1>6, <1>9, <1>10 DEF DFSExplorationState
<1>12. TopBecomes(f)
  BY <1>1, <1>2, <1>3, <1>6, <1>9, <1>10, <1>11 DEF TopBecomes
<1>13. FrameOK(f)'
  BY <1>1, <1>2, <1>3, <1>6, <1>9, <1>11 DEF FrameOK, Exploring, Pruned
<1>14. ControlOK'
  BY <1>1, <1>9, <1>11, <1>12, <1>8, TopStack DEF ControlOK, Exploring
<1>15. \A u \in Ahead(Top) : u \in Ahead(f) \/ u = t
  BY <1>3, <1>11 DEF Ahead
<1>16. GatheredOK(f.state, f.q, f.successors)'
  BY <1>6, <1>9, <1>11
<1>17. Top.aops \union {Top.q.action} \subseteq f.aops \union {f.q.action, NoAction}
  BY <1>3, <1>6, <1>9, <1>11
<1>18. pc' \in PCs
  BY <1>1 DEF PCs
<1>19. \A u \in Ahead(Top) : \/ status[u] = "closed"
                             \/ status[u] = "onstack" /\ stack_id[u] >= f.lowlink
                             \/ u \in Ahead(f)
  BY <1>9, <1>11, <1>15
<1> QED BY <1>1, <1>12, <1>13, <1>14, <1>16, <1>17, <1>18, <1>19, TopQuiet


(* An entry may be taken apart.                                            *)
LEMMA EntryParts ==
  ASSUME NEW e, NEW acts, NEW s, NEW c, NEW qs, NEW d,
         e.state = s, e.conv_part = c, e.nconv_qs = qs, e.best_converged = d,
         ~Pruned(s),
         \A k \in DOMAIN qs : /\ GatheredOK(s, qs[k], {})
                              /\ qs[k].norm = NonSourceWeight[s][qs[k].action],
         \A a \in acts :
           \/ \E k \in DOMAIN qs : qs[k].action = a
           \/ /\ Settled(s, a)
              /\ \A b \in BoundNames : c[b] <= QValue(value, b, s, a),
         \A b \in BoundNames :
           /\ c[b] <= TerminationCost[s]
           /\ \/ c[b] = TerminationCost[s]
              \/ \E a \in TransitionTails(s) :
                   Settled(s, a) /\ c[b] = QValue(value, b, s, a),
         IF c.lower = TerminationCost[s]
         THEN d = NoAction
         ELSE /\ d \in TransitionTails(s) /\ Settled(s, d)
              /\ c.lower = QValue(value, "lower", s, d)
  PROVE  EntryOK(e, acts)
<1>1. \A b \in BoundNames :
        /\ e.conv_part[b] <= TerminationCost[e.state]
        /\ \/ e.conv_part[b] = TerminationCost[e.state]
           \/ \E a \in TransitionTails(e.state) :
                Settled(e.state, a) /\ e.conv_part[b] = QValue(value, b, e.state, a)
  OBVIOUS
<1>2. \A a \in acts :
        \/ \E k \in DOMAIN e.nconv_qs : e.nconv_qs[k].action = a
        \/ /\ Settled(e.state, a)
           /\ \A b \in BoundNames : e.conv_part[b] <= QValue(value, b, e.state, a)
  OBVIOUS
<1>3. \A k \in DOMAIN e.nconv_qs :
        /\ GatheredOK(e.state, e.nconv_qs[k], {})
        /\ e.nconv_qs[k].norm = NonSourceWeight[e.state][e.nconv_qs[k].action]
  OBVIOUS
<1>4. ~Pruned(e.state)
  OBVIOUS
<1>5. IF e.conv_part.lower = TerminationCost[e.state]
      THEN e.best_converged = NoAction
      ELSE /\ e.best_converged \in TransitionTails(e.state)
           /\ Settled(e.state, e.best_converged)
           /\ e.conv_part.lower = QValue(value, "lower", e.state, e.best_converged)
  OBVIOUS
<1> QED BY ONLY <1>1, <1>2, <1>3, <1>4, <1>5 DEF EntryOK

(* An entry that is given a transition whose successors are all known.     *)
EntryWith(e, q, x) ==
  IF q.nconv_successors # {}
  THEN [e EXCEPT !.nconv_qs = Append(@, q)]
  ELSE [e EXCEPT !.conv_part = Minimum(@, x),
                 !.best_converged = IF x.lower < e.conv_part.lower
                                    THEN q.action ELSE @]

LEMMA EntryGained ==
  ASSUME value \in [State -> Bounds], NEW e \in StackInfo, NEW acts,
         acts \subseteq TransitionTails(e.state), EntryOK(e, acts), ~Pruned(e.state),
         NEW q \in QValueInfo, GatheredOK(e.state, q, {}),
         q.norm = NonSourceWeight[e.state][q.action],
         NEW x, x = ComputeQValue(value, e.state, q), NEW new,
         new = EntryWith(e, q, x)
  PROVE  /\ new \in StackInfo /\ new.state = e.state
         /\ EntryOK(new, acts \union {q.action})
<1> DEFINE s == e.state
<1>1. /\ s \in State /\ q.action \in TransitionTails(s) /\ q.action \in Action
      /\ e.nconv_qs \in Seq(QValueInfo)
      /\ e.conv_part \in Bounds /\ TerminationCost[s] \in Int
  BY MDPAssumption DEF StackInfo, GatheredOK, QValueInfo
<1>2. CASE q.nconv_successors # {}
  <2>1. new = [e EXCEPT !.nconv_qs = Append(@, q)]
    BY <1>2 DEF EntryWith
  <2>2. PICK qs : qs = Append(e.nconv_qs, q)
    OBVIOUS
  <2>3. /\ qs \in Seq(QValueInfo) /\ Len(e.nconv_qs) \in Nat
        /\ DOMAIN e.nconv_qs = 1..Len(e.nconv_qs)
        /\ DOMAIN qs = 1..(Len(e.nconv_qs) + 1)
        /\ \A k \in 1..(Len(e.nconv_qs) + 1) :
             qs[k] = IF k = Len(e.nconv_qs) + 1 THEN q ELSE e.nconv_qs[k]
    BY <1>1, <2>2
  <2>4. /\ new \in StackInfo /\ new.state = s /\ new.nconv_qs = qs
        /\ new.conv_part = e.conv_part /\ new.best_converged = e.best_converged
    BY <2>1, <2>2, <2>3 DEF StackInfo
  <2>5. \A k \in DOMAIN qs : /\ GatheredOK(s, qs[k], {})
                             /\ qs[k].norm = NonSourceWeight[s][qs[k].action]
    <3> TAKE k \in DOMAIN qs
    <3>1. PICK p : p = qs[k]
      OBVIOUS
    <3>2. CASE p = q
      BY <3>1, <3>2
    <3>3. CASE p # q
      <4>1. k \in DOMAIN e.nconv_qs /\ p = e.nconv_qs[k]
        BY <2>3, <3>1, <3>3
      <4>2. GatheredOK(s, p, {}) /\ p.norm = NonSourceWeight[s][p.action]
        BY <4>1 DEF EntryOK
      <4> QED BY <3>1, <4>2
    <3> QED BY <3>2, <3>3
  <2>6. ASSUME NEW a \in acts \union {q.action}
        PROVE  \/ \E k \in DOMAIN qs : qs[k].action = a
               \/ /\ Settled(s, a)
                  /\ \A b \in BoundNames : e.conv_part[b] <= QValue(value, b, s, a)
    <3>1. CASE a = q.action
      <4>1. Len(e.nconv_qs) + 1 \in DOMAIN qs /\ qs[Len(e.nconv_qs) + 1] = q
        BY <2>3
      <4> QED BY <3>1, <4>1
    <3>2. CASE a # q.action
      <4>1. \/ \E k \in DOMAIN e.nconv_qs : e.nconv_qs[k].action = a
            \/ /\ Settled(s, a)
               /\ \A b \in BoundNames : e.conv_part[b] <= QValue(value, b, s, a)
        BY <3>2, <2>6 DEF EntryOK
      <4>2. \A k \in DOMAIN e.nconv_qs : k \in DOMAIN qs /\ qs[k] = e.nconv_qs[k]
        BY <2>3
      <4> QED BY <4>1, <4>2
    <3> QED BY <3>1, <3>2
  <2>7. EntryOK(new, acts \union {q.action})
    <3>1. /\ \A b \in BoundNames :
               /\ e.conv_part[b] <= TerminationCost[s]
               /\ \/ e.conv_part[b] = TerminationCost[s]
                  \/ \E a \in TransitionTails(s) :
                       Settled(s, a) /\ e.conv_part[b] = QValue(value, b, s, a)
          /\ IF e.conv_part.lower = TerminationCost[s]
             THEN e.best_converged = NoAction
             ELSE /\ e.best_converged \in TransitionTails(s)
                  /\ Settled(s, e.best_converged)
                  /\ e.conv_part.lower =
                       QValue(value, "lower", s, e.best_converged)
      BY DEF EntryOK
    <3>2. ~Pruned(s)
      OBVIOUS
    <3>3. PICK z, c, d, acs : /\ z = s /\ c = e.conv_part /\ d = e.best_converged
                              /\ acs = acts \union {q.action}
      OBVIOUS
    <3> HIDE DEF s
    <3>4. /\ new.state = z /\ new.conv_part = c /\ new.nconv_qs = qs
          /\ new.best_converged = d /\ ~Pruned(z)
      BY <2>4, <3>2, <3>3
    <3>5. /\ \A k \in DOMAIN qs : /\ GatheredOK(z, qs[k], {})
                                  /\ qs[k].norm = NonSourceWeight[z][qs[k].action]
          /\ \A o \in acs :
               \/ \E k \in DOMAIN qs : qs[k].action = o
               \/ /\ Settled(z, o)
                  /\ \A b \in BoundNames : c[b] <= QValue(value, b, z, o)
      BY <2>5, <2>6, <3>3
    <3>6. /\ \A b \in BoundNames :
               /\ c[b] <= TerminationCost[z]
               /\ \/ c[b] = TerminationCost[z]
                  \/ \E o \in TransitionTails(z) :
                       Settled(z, o) /\ c[b] = QValue(value, b, z, o)
          /\ IF c.lower = TerminationCost[z]
             THEN d = NoAction
             ELSE /\ d \in TransitionTails(z) /\ Settled(z, d)
                  /\ c.lower = QValue(value, "lower", z, d)
      BY <3>1, <3>3
    <3>7. EntryOK(new, acs)
      BY ONLY <3>4, <3>5, <3>6, EntryParts
    <3> QED BY <3>3, <3>7
  <2> QED BY <2>4, <2>7
<1>3. CASE q.nconv_successors = {}
  <2>1. PICK a : a = q.action
    OBVIOUS
  <2>2. /\ x \in Bounds /\ Settled(s, a)
        /\ \A b \in BoundNames : x[b] = QValue(value, b, s, a)
    <3>1. Added(s, q, {}) = NonSource(s, a)
      BY <1>3, <2>1 DEF Added
    <3> QED BY <1>1, <2>1, <3>1, ComputeExact DEF GatheredOK, Settled
  <2>3. PICK c, d : /\ c = Minimum(e.conv_part, x)
                    /\ d = IF x.lower < e.conv_part.lower THEN a ELSE e.best_converged
    OBVIOUS
  <2>4. \A b \in BoundNames :
          /\ c[b] \in {e.conv_part[b], x[b]} /\ c[b] <= e.conv_part[b] /\ c[b] <= x[b]
    <3>1. /\ e.conv_part.lower \in Int /\ e.conv_part.upper \in Int
          /\ x.lower \in Int /\ x.upper \in Int
      BY <1>1, <2>2 DEF Bounds
    <3>2. c.lower = Min({e.conv_part.lower, x.lower})
          /\ c.upper = Min({e.conv_part.upper, x.upper})
      BY <2>3 DEF Minimum
    <3>3. /\ c.lower \in {e.conv_part.lower, x.lower}
          /\ c.lower <= e.conv_part.lower /\ c.lower <= x.lower
      BY <3>1, <3>2, MinOfTwo, Zenon
    <3>4. /\ c.upper \in {e.conv_part.upper, x.upper}
          /\ c.upper <= e.conv_part.upper /\ c.upper <= x.upper
      BY <3>1, <3>2, MinOfTwo, Zenon
    <3> QED BY <3>3, <3>4 DEF BoundNames
  <2>5. c \in Bounds
    <3>1. c.lower \in Int /\ c.upper \in Int
      BY <1>1, <2>2, <2>4 DEF Bounds, BoundNames
    <3> QED BY <2>3, <3>1 DEF Minimum, Bounds
  <2>6. /\ new \in StackInfo /\ new.state = s /\ new.nconv_qs = e.nconv_qs
        /\ new.conv_part = c /\ new.best_converged = d
    <3>1. new = [e EXCEPT !.conv_part = c, !.best_converged = d]
      BY <1>3, <2>1, <2>3 DEF EntryWith
    <3>2. d \in Action \union {NoAction}
      BY <1>1, <2>1, <2>3 DEF StackInfo
    <3> QED BY <2>5, <3>1, <3>2 DEF StackInfo
  <2>7. /\ \A b \in BoundNames : c[b] \in Int /\ e.conv_part[b] \in Int /\ x[b] \in Int
        /\ \A b \in BoundNames, o \in TransitionTails(s) : QValue(value, b, s, o) \in Int
    BY <1>1, <2>2, <2>5, BoundType, QValueType
  <2>8. ASSUME NEW o \in acts \union {a}
        PROVE  \/ \E k \in DOMAIN e.nconv_qs : e.nconv_qs[k].action = o
               \/ /\ Settled(s, o)
                  /\ \A b \in BoundNames : c[b] <= QValue(value, b, s, o)
    <3>1. CASE o = a
      BY <2>2, <2>4, <3>1
    <3>2. CASE o # a
      <4>1. \/ \E k \in DOMAIN e.nconv_qs : e.nconv_qs[k].action = o
            \/ /\ Settled(s, o)
               /\ \A b \in BoundNames : e.conv_part[b] <= QValue(value, b, s, o)
        BY <3>2, <2>8 DEF EntryOK
      <4>2. o \in TransitionTails(s)
        BY <2>8, <3>2
      <4>3. \A b \in BoundNames : e.conv_part[b] <= QValue(value, b, s, o)
                                    => c[b] <= QValue(value, b, s, o)
        BY <2>4, <2>7, <4>2
      <4> QED BY <4>1, <4>3
    <3> QED BY <3>1, <3>2
  <2>9. \A b \in BoundNames :
          /\ c[b] <= TerminationCost[s]
          /\ \/ c[b] = TerminationCost[s]
             \/ \E o \in TransitionTails(s) :
                  Settled(s, o) /\ c[b] = QValue(value, b, s, o)
    <3> TAKE b \in BoundNames
    <3>1. /\ e.conv_part[b] <= TerminationCost[s]
          /\ \/ e.conv_part[b] = TerminationCost[s]
             \/ \E o \in TransitionTails(s) :
                  Settled(s, o) /\ e.conv_part[b] = QValue(value, b, s, o)
      BY DEF EntryOK
    <3>2. c[b] <= TerminationCost[s]
      BY <1>1, <2>4, <2>7, <3>1
    <3>3. CASE c[b] = x[b]
      BY <1>1, <2>1, <2>2, <3>2, <3>3
    <3>4. CASE c[b] = e.conv_part[b]
      BY <3>1, <3>2, <3>4
    <3> QED BY <2>4, <3>3, <3>4
  <2>10. IF c.lower = TerminationCost[s]
         THEN d = NoAction
         ELSE /\ d \in TransitionTails(s) /\ Settled(s, d)
              /\ c.lower = QValue(value, "lower", s, d)
    <3>1. /\ e.conv_part.lower <= TerminationCost[s]
          /\ IF e.conv_part.lower = TerminationCost[s]
             THEN e.best_converged = NoAction
             ELSE /\ e.best_converged \in TransitionTails(s)
                  /\ Settled(s, e.best_converged)
                  /\ e.conv_part.lower =
                       QValue(value, "lower", s, e.best_converged)
      BY DEF EntryOK, BoundNames
    <3>2. /\ c.lower \in {e.conv_part.lower, x.lower} /\ c.lower <= x.lower
          /\ c.lower <= e.conv_part.lower /\ x.lower = QValue(value, "lower", s, a)
          /\ c.lower \in Int /\ e.conv_part.lower \in Int /\ x.lower \in Int
      BY <2>2, <2>4, <2>7 DEF BoundNames
    <3>3. CASE x.lower < e.conv_part.lower
      <4>1. c.lower = x.lower /\ d = a /\ c.lower # TerminationCost[s]
        BY <1>1, <2>3, <3>1, <3>2, <3>3
      <4> QED BY <1>1, <2>1, <2>2, <3>2, <4>1
    <3>4. CASE ~(x.lower < e.conv_part.lower)
      <4>1. c.lower = e.conv_part.lower /\ d = e.best_converged
        BY <2>3, <3>2, <3>4
      <4> QED BY <3>1, <4>1
    <3> QED BY <3>3, <3>4
  <2>11. \A k \in DOMAIN e.nconv_qs :
           LET p == e.nconv_qs[k]
           IN  GatheredOK(s, p, {}) /\ p.norm = NonSourceWeight[s][p.action]
    BY DEF EntryOK
  <2>12. ~Pruned(s)
    OBVIOUS
  <2>13. EntryOK(new, acts \union {a})
    <3> HIDE DEF s
    <3>1. PICK z, qs, acs : z = s /\ qs = e.nconv_qs /\ acs = acts \union {a}
      OBVIOUS
    <3>2. /\ new.state = z /\ new.conv_part = c /\ new.nconv_qs = qs
          /\ new.best_converged = d /\ ~Pruned(z)
      BY <2>6, <2>12, <3>1
    <3>3. /\ \A k \in DOMAIN qs : /\ GatheredOK(z, qs[k], {})
                                  /\ qs[k].norm = NonSourceWeight[z][qs[k].action]
          /\ \A o \in acs :
               \/ \E k \in DOMAIN qs : qs[k].action = o
               \/ /\ Settled(z, o)
                  /\ \A b \in BoundNames : c[b] <= QValue(value, b, z, o)
      BY <2>8, <2>11, <3>1
    <3>4. /\ \A b \in BoundNames :
               /\ c[b] <= TerminationCost[z]
               /\ \/ c[b] = TerminationCost[z]
                  \/ \E o \in TransitionTails(z) :
                       Settled(z, o) /\ c[b] = QValue(value, b, z, o)
          /\ IF c.lower = TerminationCost[z]
             THEN d = NoAction
             ELSE /\ d \in TransitionTails(z) /\ Settled(z, d)
                  /\ c.lower = QValue(value, "lower", z, d)
      BY <2>9, <2>10, <3>1
    <3>5. EntryOK(new, acs)
      BY ONLY <3>2, <3>3, <3>4, EntryParts
    <3> QED BY <3>1, <3>5
  <2> QED BY <2>1, <2>6, <2>13
<1> QED BY <1>2, <1>3

LEMMA EndStep == ASSUME IInv, EndTransition PROVE IInv'
<1>1. /\ pc = "successor" /\ pc' = "transition" /\ pc # "timeout"
      /\ UNCHANGED <<config, initial_state, status, stack_id, value, sweep, decision>>
      /\ Top.successors = {}
  BY DEF EndTransition
<1>2. /\ dfs_stack # <<>> /\ Exploring(Top) /\ Top.q \in QValueInfo
      /\ Top \in DFSExplorationState /\ FrameOK(Top) /\ Top.state \in State
      /\ ~Pruned(Top.state) /\ Top.q.action \in TransitionTails(Top.state)
      /\ GatheredOK(Top.state, Top.q, Top.successors)
  BY <1>1, SuccessorTop
<1>3. /\ TypeOK /\ StacksOK /\ Indexed /\ ClosedComponents
      /\ FramesOK /\ LowlinksOK /\ TransitionsOK /\ EntriesOK
  BY <1>1, Parts
<1>4. /\ Top.stackidx \in DOMAIN tarjan_stack /\ Top.lowlink <= Top.stackidx
      /\ tarjan_stack[Top.stackidx].state = Top.state
      /\ Top = dfs_stack[Len(dfs_stack)] /\ Len(dfs_stack) \in DOMAIN dfs_stack
  BY <1>1, <1>2, TopOK
<1>5. PICK top, i, s, e, acts :
        /\ top = Top /\ i = Top.stackidx /\ s = Top.state /\ e = tarjan_stack[i]
        /\ acts = Explored(i)
  OBVIOUS
<1>6. PICK q, x : /\ q = [top.q EXCEPT !.norm = NonSourceWeight[s][top.q.action]]
                  /\ x = ComputeQValue(value, s, q)
  OBVIOUS
<1>7. PICK new : new = EntryWith(e, q, x)
  OBVIOUS
<1>8. PICK f : f = [top EXCEPT !.q = NoTransition]
  OBVIOUS
<1>9. /\ tarjan_stack' = [tarjan_stack EXCEPT ![i] = new]
      /\ dfs_stack' = WithTop(dfs_stack, f)
  BY <1>5, <1>6, <1>7, <1>8 DEF EndTransition, Finalized, EntryWith
<1>10. /\ q \in QValueInfo /\ q.action = top.q.action
       /\ q.norm = NonSourceWeight[s][q.action] /\ GatheredOK(s, q, {})
  <2>1. NonSourceWeight[s][top.q.action] \in Nat \ {0}
    BY <1>2, <1>5, WeightsType
  <2>2. top.q \in QValueInfo /\ GatheredOK(s, top.q, {})
    BY <1>1, <1>2, <1>5
  <2>3. /\ q \in QValueInfo /\ q.action = top.q.action
        /\ q.norm = NonSourceWeight[s][q.action]
        /\ q.nconv_successors = top.q.nconv_successors
        /\ q.conv_part = top.q.conv_part /\ q.infinite = top.q.infinite
    BY <1>6, <2>1, <2>2 DEF QValueInfo
  <2>4. Added(s, q, {}) = Added(s, top.q, {})
    BY <2>3 DEF Added
  <2>5. GatheredOK(s, q, {})
    BY ONLY <2>2, <2>3, <2>4 DEF GatheredOK
  <2> QED BY <2>3, <2>5
<1>11. /\ new \in StackInfo /\ new.state = e.state
       /\ EntryOK(new, acts \union {q.action})
  <2>1. /\ e \in StackInfo /\ acts \subseteq TransitionTails(e.state)
        /\ EntryOK(e, acts) /\ ~Pruned(e.state) /\ e.state = s
    BY <1>2, <1>3, <1>4, <1>5, EntryFacts DEF EntriesOK, Explored
  <2>2. value \in [State -> Bounds]
    BY <1>3 DEF TypeOK
  <2>3. /\ GatheredOK(e.state, q, {}) /\ q.norm = NonSourceWeight[e.state][q.action]
        /\ x = ComputeQValue(value, e.state, q) /\ q \in QValueInfo
    BY <1>6, <1>10, <2>1
  <2> QED BY ONLY <1>7, <2>1, <2>2, <2>3, EntryGained
<1>12. /\ f \in DFSExplorationState /\ f.state = top.state /\ f.stackidx = top.stackidx
       /\ f.lowlink = top.lowlink /\ f.aops = top.aops /\ f.q = NoTransition
       /\ f.successors = top.successors
  BY <1>2, <1>5, <1>8 DEF DFSExplorationState
<1>13. ~Exploring(f)
  BY <1>12, HeuristicAssumption DEF Exploring, QValueInfo, NoTransition
<1>14. TopBecomes(f)
  <2>1. Top.lowlink \in Int
    BY <1>2, QFacts
  <2> QED BY <1>1, <1>2, <1>5, <1>9, <1>12, <2>1 DEF TopBecomes
<1>15. /\ SameEntries /\ DOMAIN tarjan_stack' = DOMAIN tarjan_stack
       /\ tarjan_stack'[i] = new
       /\ \A k \in DOMAIN tarjan_stack : k # i => tarjan_stack'[k] = tarjan_stack[k]
  <2>1. tarjan_stack \in Seq(StackInfo) /\ i \in DOMAIN tarjan_stack
    BY <1>3, <1>4, <1>5 DEF StacksOK
  <2>2. /\ tarjan_stack' \in Seq(StackInfo) /\ Len(tarjan_stack') = Len(tarjan_stack)
        /\ DOMAIN tarjan_stack' = DOMAIN tarjan_stack
        /\ tarjan_stack'[i] = new
        /\ \A k \in DOMAIN tarjan_stack : k # i => tarjan_stack'[k] = tarjan_stack[k]
    BY <1>9, <1>11, <2>1
  <2> QED BY <1>1, <1>5, <1>11, <2>2 DEF SameEntries
<1>16. FrameOK(f)'
  <2>1. /\ f.stackidx \in DOMAIN tarjan_stack' /\ tarjan_stack'[f.stackidx].state = f.state
        /\ f.aops \subseteq TransitionTails(f.state) /\ f.successors = {}
        /\ Pruned(f.state)' => Pruned(Top.state)
    BY <1>1, <1>2, <1>4, <1>5, <1>11, <1>12, <1>15 DEF FrameOK, Pruned
  <2> QED BY <1>2, <1>13, <2>1 DEF FrameOK, Exploring
<1>17. \A t \in Ahead(Top) : t \in Ahead(f)
  BY <1>5, <1>12 DEF Ahead
<1>18. Frozen
  BY <1>1 DEF Frozen
<1>19. StacksOK' /\ FramesOK' /\ LowlinksOK' /\ TransitionsOK' /\ Indexed'
  <2>1. stack_id \in [State -> Int]
    BY <1>3 DEF TypeOK
  <2> QED BY <1>3, <1>13, <1>14, <1>15, <1>16, <1>17, <1>18, <2>1, TopTypes, TopFrames,
             TopLowlinks, TopTransitions, SameEntriesFacts
<1>20. TypeOK' /\ ClosedComponents'
  BY <1>1, <1>3, <1>14, <1>15, TopTypes, SameEntriesFacts DEF TypeOK, PCs
<1>21. ControlOK'
  BY <1>1, <1>3, <1>13, <1>14, TopStack DEF ControlOK, Exploring
<1>22. \A k \in DOMAIN tarjan_stack :
         Explored(k)' \subseteq IF k = i THEN Explored(k) \union {q.action} ELSE Explored(k)
  <2>1. /\ DOMAIN dfs_stack' = DOMAIN dfs_stack
        /\ \A j \in DOMAIN dfs_stack :
             j # Len(dfs_stack) => dfs_stack'[j] = dfs_stack[j]
        /\ dfs_stack'[Len(dfs_stack)] = f
    BY <1>3, <1>14, TopStack
  <2>2. \A k \in DOMAIN tarjan_stack : tarjan_stack'[k].state = tarjan_stack[k].state
    BY <1>15 DEF SameEntries
  <2> QED BY <1>4, <1>5, <1>10, <1>12, <2>1, <2>2 DEF Explored
<1>23. EntriesOK'
  <2> SUFFICES ASSUME NEW k \in DOMAIN tarjan_stack
               PROVE  EntryOK(tarjan_stack[k], Explored(k))'
    BY <1>15 DEF EntriesOK
  <2>1. PICK old, now, x1, x2 : /\ old = tarjan_stack[k] /\ now = tarjan_stack'[k]
                                /\ x1 = Explored(k) /\ x2 = Explored(k)'
    OBVIOUS
  <2>2. CASE k = i
    <3>1. PICK all : all = acts \union {q.action}
      OBVIOUS
    <3>2. /\ now = new /\ x2 \subseteq all /\ EntryOK(new, all)
          /\ all \subseteq TransitionTails(new.state)
      <4>1. now = new /\ x2 \subseteq all
        BY <1>5, <1>15, <1>22, <2>1, <2>2, <3>1
      <4>2. EntryOK(new, all)
        BY <1>11, <3>1
      <4>3. new.state = s /\ q.action \in TransitionTails(s)
        BY <1>2, <1>4, <1>5, <1>10, <1>11
      <4>4. acts \subseteq TransitionTails(s)
        BY <1>4, <1>5 DEF Explored
      <4> QED BY <3>1, <4>1, <4>2, <4>3, <4>4
    <3>3. EntryOK(new, x2)'
      BY <1>11, <1>18, <3>2, EntryKept
    <3> QED BY <2>1, <3>2, <3>3
  <2>3. CASE k # i
    <3>1. /\ now = old /\ x2 \subseteq x1 /\ EntryOK(old, x1)
          /\ x1 \subseteq TransitionTails(old.state) /\ old \in StackInfo
      BY <1>3, <1>15, <1>22, <2>1, <2>3, EntryFacts DEF EntriesOK, Explored
    <3>2. EntryOK(old, x2)'
      BY <1>18, <3>1, EntryKept
    <3> QED BY <2>1, <3>1, <3>2
  <2> QED BY <2>2, <2>3
<1> QED BY <1>19, <1>20, <1>21, <1>23 DEF IInv, ExplorationOK

-----------------------------------------------------------------------------
(* The steps of value iteration.                                           *)

(* A step that leaves the stacks and what the entries know.                *)
LEMMA StacksKept ==
  ASSUME IInv, pc # "timeout",
         UNCHANGED <<config, initial_state, dfs_stack, decision>>,
         SameEntries, Frozen, value' \in [State -> Bounds],
         \A i \in DOMAIN tarjan_stack :
           /\ tarjan_stack'[i].conv_part = tarjan_stack[i].conv_part
           /\ tarjan_stack'[i].nconv_qs = tarjan_stack[i].nconv_qs
           /\ tarjan_stack'[i].best_converged = tarjan_stack[i].best_converged,
         sweep' \in [next : Nat, converged : BOOLEAN], pc' \in PCs,
         pc' # "timeout" => ControlOK'
  PROVE  IInv'
<1>1. /\ TypeOK /\ StacksOK /\ Indexed /\ ClosedComponents
      /\ FramesOK /\ LowlinksOK /\ TransitionsOK /\ EntriesOK
  BY Parts
<1>2. /\ DOMAIN tarjan_stack' = DOMAIN tarjan_stack
      /\ Len(tarjan_stack') = Len(tarjan_stack) /\ Indexed' /\ ClosedComponents'
      /\ \A i \in DOMAIN tarjan_stack : tarjan_stack'[i].state = tarjan_stack[i].state
      /\ UNCHANGED <<status, stack_id>>
  BY <1>1, SameEntriesFacts DEF SameEntries
<1>3. StacksOK'
  BY <1>1 DEF StacksOK, SameEntries
<1>4. TypeOK'
  <2>1. \A i \in DOMAIN tarjan_stack' : tarjan_stack'[i] \in StackInfo
    BY <1>3 DEF StacksOK
  <2> QED BY <1>1, <1>2, <2>1 DEF TypeOK
<1>5. FramesOK'
  <2>1. ASSUME NEW j \in DOMAIN dfs_stack PROVE FrameOK(dfs_stack[j])'
    <3>1. PICK g : g = dfs_stack[j]
      OBVIOUS
    <3>2. FrameOK(g)
      BY <1>1, <3>1 DEF FramesOK
    <3>3. FrameOK(g)'
      BY <1>2, <3>2 DEF FrameOK, Pruned, Exploring
    <3> QED BY <3>1, <3>3
  <2>2. /\ \A j, k \in DOMAIN dfs_stack :
             j < k => dfs_stack[j].stackidx < dfs_stack[k].stackidx
        /\ \A j \in DOMAIN dfs_stack : j < Len(dfs_stack) =>
             LET f == dfs_stack[j]
             IN  /\ Exploring(f)
                 /\ f.successor = dfs_stack[j + 1].state
                 /\ f.successor \in NonSource(f.state, f.q.action) \ f.successors
    BY <1>1 DEF FramesOK
  <2> QED BY <2>1, <2>2 DEF FramesOK, Exploring
<1>6. LowlinksOK'
  <2>1. \A j \in DOMAIN dfs_stack :
          Segment(j)' = Segment(j) /\ Segment(j) \subseteq DOMAIN tarjan_stack
    BY <1>2 DEF Segment
  <2>2. \A j \in DOMAIN dfs_stack : Ahead(dfs_stack[j])' = Ahead(dfs_stack[j])
    BY DEF Ahead
  <2> QED BY <1>1, <1>2, <2>1, <2>2 DEF LowlinksOK, Pruned
<1>7. TransitionsOK'
  <2> SUFFICES ASSUME NEW j \in DOMAIN dfs_stack, Exploring(dfs_stack[j])
               PROVE  GatheredOK(dfs_stack[j].state, dfs_stack[j].q, Rest(j))'
    BY DEF TransitionsOK, Exploring
  <2>1. PICK g, r : g = dfs_stack[j] /\ r = Rest(j)
    OBVIOUS
  <2>2. GatheredOK(g.state, g.q, r) /\ g.state \in State
    BY <1>1, <2>1, FrameType DEF TransitionsOK
  <2>3. GatheredOK(g.state, g.q, r)'
    BY <2>2, GatheredKept
  <2>4. r = Rest(j)'
    BY <2>1 DEF Rest
  <2> QED BY <2>1, <2>3, <2>4
<1>8. \A i \in DOMAIN tarjan_stack : Explored(i)' = Explored(i)
  BY <1>2 DEF Explored
<1>9. EntriesOK'
  <2> SUFFICES ASSUME NEW i \in DOMAIN tarjan_stack
               PROVE  EntryOK(tarjan_stack[i], Explored(i))'
    BY <1>2 DEF EntriesOK
  <2>1. PICK old, new, acts : /\ old = tarjan_stack[i] /\ new = tarjan_stack'[i]
                              /\ acts = Explored(i)
    OBVIOUS
  <2>2. /\ old \in StackInfo /\ new \in StackInfo /\ EntryOK(old, acts)
        /\ acts \subseteq TransitionTails(old.state)
        /\ new.state = old.state /\ new.conv_part = old.conv_part
        /\ new.nconv_qs = old.nconv_qs /\ new.best_converged = old.best_converged
    BY <1>1, <1>2, <1>4, <2>1, EntryFacts DEF EntriesOK, Explored, TypeOK
  <2>3. EntryOK(new, acts)'
    BY <2>2, EntryKept
  <2> QED BY <1>8, <2>1, <2>3
<1> QED BY <1>2, <1>3, <1>4, <1>5, <1>6, <1>7, <1>9 DEF IInv, ExplorationOK

(* When only the control point and the sweep change.                       *)
LEMMA AllKept ==
  ASSUME IInv, pc # "timeout",
         UNCHANGED <<config, initial_state, status, stack_id, value, dfs_stack,
                     tarjan_stack, decision>>,
         sweep' \in [next : Nat, converged : BOOLEAN], pc' \in PCs,
         pc' # "timeout" => ControlOK'
  PROVE  IInv'
<1>1. SameEntries /\ Frozen /\ value' \in [State -> Bounds]
  BY DEF IInv, StacksOK, SameEntries, Frozen, TypeOK
<1> QED BY <1>1, StacksKept

LEMMA FoundStep == ASSUME IInv, SccFound PROVE IInv'
<1>1. /\ pc = "transition" /\ pc' = "sweep" /\ pc # "timeout"
      /\ Top.aops = {} /\ IsRoot(Top)
      /\ sweep' = [next |-> Top.stackidx, converged |-> TRUE]
      /\ UNCHANGED <<config, initial_state, status, stack_id, value, dfs_stack,
                     tarjan_stack, decision>>
  BY DEF SccFound
<1>2. dfs_stack # <<>> /\ ~Exploring(Top) /\ StacksOK
  BY <1>1, Parts DEF ControlOK
<1>3. Top.stackidx \in 1..Len(tarjan_stack) /\ Len(tarjan_stack) \in Nat
  BY <1>1, <1>2, TopOK, TopFacts
<1>4. ControlOK'
  <2>1. Top.stackidx \in Top.stackidx..(Len(tarjan_stack) + 1)
    BY <1>3
  <2>2. Top' = Top
    BY <1>1 DEF Top
  <2> QED BY <1>1, <1>2, <2>1, <2>2 DEF ControlOK, Exploring, IsRoot
<1>5. sweep' \in [next : Nat, converged : BOOLEAN] /\ pc' \in PCs
  BY <1>1, <1>3 DEF PCs
<1> QED BY <1>1, <1>4, <1>5, AllKept

LEMMA AgainStep == ASSUME IInv, SweepAgain PROVE IInv'
<1>1. /\ pc = "sweep" /\ pc' = "sweep" /\ pc # "timeout"
      /\ sweep' = [next |-> Top.stackidx, converged |-> TRUE]
      /\ UNCHANGED <<config, initial_state, status, stack_id, value, dfs_stack,
                     tarjan_stack, decision>>
  BY DEF SweepAgain
<1>2. /\ dfs_stack # <<>> /\ ~Exploring(Top) /\ StacksOK
      /\ Top.aops = {} /\ IsRoot(Top)
  BY <1>1, Parts DEF ControlOK
<1>3. Top.stackidx \in 1..Len(tarjan_stack) /\ Len(tarjan_stack) \in Nat
  BY <1>1, <1>2, TopOK, TopFacts
<1>4. ControlOK'
  <2>1. Top.stackidx \in Top.stackidx..(Len(tarjan_stack) + 1)
    BY <1>3
  <2>2. Top' = Top
    BY <1>1 DEF Top
  <2> QED BY <1>1, <1>2, <2>1, <2>2 DEF ControlOK, Exploring, IsRoot
<1>5. sweep' \in [next : Nat, converged : BOOLEAN] /\ pc' \in PCs
  BY <1>1, <1>3 DEF PCs
<1> QED BY <1>1, <1>4, <1>5, AllKept

LEMMA TimeoutStep == ASSUME IInv, Timeout PROVE IInv'
<1>1. /\ pc # "timeout" /\ pc' = "timeout"
      /\ UNCHANGED <<config, initial_state, status, stack_id, value, dfs_stack,
                     tarjan_stack, sweep, decision>>
  BY DEF Timeout
<1>2. sweep' \in [next : Nat, converged : BOOLEAN] /\ pc' \in PCs
  BY <1>1 DEF PCs, IInv, TypeOK
<1> QED BY <1>1, <1>2, AllKept

LEMMA Stutter == ASSUME IInv, UNCHANGED vars PROVE IInv'
<1>1. UNCHANGED <<config, initial_state, pc, status, stack_id, value, dfs_stack,
                  tarjan_stack, sweep, decision>>
  BY DEF vars
<1>2. CASE pc # "timeout"
  <2>1. sweep' \in [next : Nat, converged : BOOLEAN] /\ pc' \in PCs
    BY <1>1 DEF IInv, TypeOK
  <2>2. ControlOK'
    <3>1. ControlOK /\ Top' = Top
      BY <1>1, <1>2, Parts DEF Top
    <3> QED BY <1>1, <3>1 DEF ControlOK, Exploring, IsRoot
  <2> QED BY <1>1, <1>2, <2>1, <2>2, AllKept
<1>3. CASE pc = "timeout"
  <2>1. TypeOK' /\ StacksOK' /\ Indexed' /\ ClosedComponents'
    <3>1. TypeOK /\ StacksOK /\ Indexed /\ ClosedComponents
      BY DEF IInv
    <3> QED BY <1>1, <3>1 DEF TypeOK, StacksOK, Indexed, ClosedComponents, Pruned
  <2> QED BY <1>1, <1>3, <2>1 DEF IInv, ExplorationOK
<1> QED BY <1>2, <1>3

(* What is read for an entry, and its minimum.                             *)
LEMMA UpdatedFacts ==
  ASSUME value \in [State -> Bounds], NEW e \in StackInfo, NEW acts, EntryOK(e, acts)
  PROVE  /\ \A k \in DOMAIN e.nconv_qs :
              /\ QValues(value, e)[k] \in Bounds
              /\ e.nconv_qs[k].action \in TransitionTails(e.state)
              /\ \A b \in BoundNames : QValues(value, e)[k][b] =
                   QValue(value, b, e.state, e.nconv_qs[k].action)
         /\ Updated(value, e) \in Bounds
         /\ \A b \in BoundNames :
              /\ Updated(value, e)[b] <= e.conv_part[b]
              /\ \A k \in DOMAIN e.nconv_qs :
                   Updated(value, e)[b] <= QValues(value, e)[k][b]
              /\ \/ Updated(value, e)[b] = e.conv_part[b]
                 \/ \E k \in DOMAIN e.nconv_qs :
                      Updated(value, e)[b] = QValues(value, e)[k][b]
<1>1. PICK qs, s, n : qs = e.nconv_qs /\ s = e.state /\ n = Len(qs)
  OBVIOUS
<1>2. /\ qs \in Seq(QValueInfo) /\ s \in State /\ e.conv_part \in Bounds
      /\ n \in Nat /\ DOMAIN qs = 1..n
  BY <1>1 DEF StackInfo
<1>3. PICK x : x = QValues(value, e)
  OBVIOUS
<1>4. DOMAIN x = 1..n
  BY <1>1, <1>2, <1>3 DEF QValues
<1>5. ASSUME NEW k \in 1..n
      PROVE  /\ x[k] \in Bounds /\ qs[k].action \in TransitionTails(s)
             /\ \A b \in BoundNames : x[k][b] = QValue(value, b, s, qs[k].action)
  <2>1. PICK q : q = qs[k]
    OBVIOUS
  <2>2. q \in QValueInfo
    BY <1>2, <2>1
  <2>3. GatheredOK(s, q, {}) /\ q.norm = NonSourceWeight[s][q.action]
    BY <1>1, <1>2, <2>1 DEF EntryOK
  <2>4. x[k] = ComputeQValue(value, s, q)
    BY <1>1, <1>2, <1>3, <2>1 DEF QValues
  <2>5. q.action \in TransitionTails(s)
    BY <2>3 DEF GatheredOK
  <2> QED BY <1>2, <2>1, <2>2, <2>3, <2>4, <2>5, ComputeExact
<1>6. ASSUME NEW b \in BoundNames
      PROVE  LET m == Min({e.conv_part[b]} \union {x[k][b] : k \in 1..n})
             IN  /\ m \in Int /\ m <= e.conv_part[b]
                 /\ \A k \in 1..n : m <= x[k][b]
                 /\ m = e.conv_part[b] \/ \E k \in 1..n : m = x[k][b]
  <2>1. PICK f : f = [k \in 0..n |-> IF k = 0 THEN e.conv_part[b] ELSE x[k][b]]
    OBVIOUS
  <2>2. /\ IsFiniteSet(0..n) /\ 0..n # {} /\ 0..n = {0} \union 1..n
        /\ 0 \notin 1..n
    <3>1. n \in Int /\ 0 \in Int /\ n \in Nat
      BY <1>2
    <3>2. IsFiniteSet(0..n)
      BY ONLY <3>1, FS_Interval
    <3> QED BY ONLY <3>1, <3>2
  <2>3. f[0] = e.conv_part[b] /\ \A k \in 1..n : f[k] = x[k][b]
    BY <1>2, <2>1, <2>2
  <2>4. e.conv_part[b] \in Int /\ \A k \in 1..n : x[k][b] \in Int
    BY <1>2, <1>5, BoundType
  <2>5. \A k \in 0..n : f[k] \in Int
    BY <2>2, <2>3, <2>4
  <2>6. {f[k] : k \in 0..n} = {e.conv_part[b]} \union {x[k][b] : k \in 1..n}
    BY <2>2, <2>3
  <2>7. PICK S : S = 0..n
    OBVIOUS
  <2>8. LET m == Min({f[k] : k \in S})
        IN  m \in Int /\ (\E k \in S : m = f[k]) /\ \A k \in S : m <= f[k]
    BY <2>2, <2>5, <2>7, MinOfImage
  <2>9. PICK m : m = Min({f[k] : k \in S})
    OBVIOUS
  <2>10. m \in Int /\ (\E k \in 0..n : m = f[k]) /\ \A k \in 0..n : m <= f[k]
    BY <2>7, <2>8, <2>9
  <2>11. m = Min({e.conv_part[b]} \union {x[k][b] : k \in 1..n})
    BY <2>6, <2>7, <2>9
  <2>12. /\ m <= e.conv_part[b] /\ \A k \in 1..n : m <= x[k][b]
         /\ m = e.conv_part[b] \/ \E k \in 1..n : m = x[k][b]
    BY <2>2, <2>3, <2>10
  <2> QED BY <2>10, <2>11, <2>12
<1>7. \A b \in BoundNames :
        Updated(value, e)[b] = Min({e.conv_part[b]} \union {x[k][b] : k \in 1..n})
  <2>1. Updated(value, e) =
          [lower |-> Min({e.conv_part.lower} \union {x[k].lower : k \in 1..n}),
           upper |-> Min({e.conv_part.upper} \union {x[k].upper : k \in 1..n})]
    BY <1>3, <1>4, Zenon DEF Updated
  <2>2. /\ Updated(value, e)["lower"] =
             Min({e.conv_part["lower"]} \union {x[k]["lower"] : k \in 1..n})
        /\ Updated(value, e)["upper"] =
             Min({e.conv_part["upper"]} \union {x[k]["upper"] : k \in 1..n})
    BY ONLY <2>1
  <2> TAKE b \in BoundNames
  <2>3. b = "lower" \/ b = "upper"
    BY DEF BoundNames
  <2>4. CASE b = "lower"
    BY ONLY <2>2, <2>4, Zenon
  <2>5. CASE b = "upper"
    BY ONLY <2>2, <2>5, Zenon
  <2> QED BY <2>3, <2>4, <2>5
<1>8. /\ Updated(value, e) = [lower |-> Updated(value, e)["lower"],
                              upper |-> Updated(value, e)["upper"]]
      /\ Updated(value, e)["lower"] \in Int /\ Updated(value, e)["upper"] \in Int
  <2>1. Updated(value, e) = [lower |-> Updated(value, e)["lower"],
                             upper |-> Updated(value, e)["upper"]]
    BY DEF Updated
  <2>2. \A b \in BoundNames : Updated(value, e)[b] \in Int
    BY <1>6, <1>7
  <2> QED BY <2>1, <2>2 DEF BoundNames
<1>9. Updated(value, e) \in Bounds
  BY <1>8 DEF Bounds
<1>10. ASSUME NEW b \in BoundNames
       PROVE  /\ Updated(value, e)[b] <= e.conv_part[b]
              /\ \A k \in 1..n : Updated(value, e)[b] <= x[k][b]
              /\ \/ Updated(value, e)[b] = e.conv_part[b]
                 \/ \E k \in 1..n : Updated(value, e)[b] = x[k][b]
  BY <1>6, <1>7, <1>10
<1>11. DOMAIN e.nconv_qs = 1..n
  BY <1>1, <1>2
<1>12. \A k \in DOMAIN e.nconv_qs :
         /\ QValues(value, e)[k] \in Bounds
         /\ e.nconv_qs[k].action \in TransitionTails(e.state)
         /\ \A b \in BoundNames : QValues(value, e)[k][b] =
              QValue(value, b, e.state, e.nconv_qs[k].action)
  BY <1>1, <1>3, <1>5, <1>11
<1>13. \A b \in BoundNames :
         /\ Updated(value, e)[b] <= e.conv_part[b]
         /\ \A k \in DOMAIN e.nconv_qs :
              Updated(value, e)[b] <= QValues(value, e)[k][b]
         /\ \/ Updated(value, e)[b] = e.conv_part[b]
            \/ \E k \in DOMAIN e.nconv_qs :
                 Updated(value, e)[b] = QValues(value, e)[k][b]
  BY <1>3, <1>10, <1>11
<1> QED BY <1>9, <1>12, <1>13

(* The action that is stored with the value of an entry.                   *)
LEMMA BestActionFacts ==
  ASSUME value \in [State -> Bounds], NEW e \in StackInfo, NEW acts, EntryOK(e, acts)
  PROVE  /\ BestAction(value, e) \in Action \union {NoAction}
         /\ Updated(value, e).lower < e.conv_part.lower =>
              /\ BestAction(value, e) \in TransitionTails(e.state)
              /\ Updated(value, e).lower =
                   QValue(value, "lower", e.state, BestAction(value, e))
         /\ ~(Updated(value, e).lower < e.conv_part.lower) =>
              BestAction(value, e) = e.best_converged
<1>1. CASE ~(Updated(value, e).lower < e.conv_part.lower)
  BY <1>1 DEF BestAction, StackInfo
<1>2. CASE Updated(value, e).lower < e.conv_part.lower
  <2>1. PICK K : K = Attaining(value, e)
    OBVIOUS
  <2>2. e.conv_part.lower \in Int
    BY DEF StackInfo, Bounds
  <2>3. /\ Updated(value, e).lower # e.conv_part.lower
        /\ "lower" \in BoundNames
    BY <1>2, <2>2 DEF BoundNames
  <2>4. K # {}
    <3>1. \E k \in DOMAIN e.nconv_qs :
            Updated(value, e)["lower"] = QValues(value, e)[k]["lower"]
      BY <2>3, UpdatedFacts
    <3> QED BY <2>1, <3>1 DEF Attaining
  <2>5. IsFiniteSet(K) /\ \A k \in K : k \in Int
    <3>1. PICK n : n = Len(e.nconv_qs)
      OBVIOUS
    <3>2. n \in Nat /\ DOMAIN e.nconv_qs = 1..n
      BY <3>1 DEF StackInfo
    <3>3. n \in Int /\ 1 \in Int
      BY <3>2
    <3>4. IsFiniteSet(1..n)
      BY ONLY <3>3, FS_Interval
    <3>5. K \subseteq 1..n
      BY <2>1, <3>2 DEF Attaining
    <3>6. IsFiniteSet(K)
      BY <3>4, <3>5, FS_Subset
    <3> QED BY <3>5, <3>6
  <2>6. Min(K) \in K
    BY <2>4, <2>5, MinInSet
  <2>7. PICK k : k = Min(K)
    OBVIOUS
  <2>8. /\ k \in DOMAIN e.nconv_qs
        /\ QValues(value, e)[k].lower = Updated(value, e).lower
    BY <2>1, <2>6, <2>7 DEF Attaining
  <2>9. BestAction(value, e) = e.nconv_qs[k].action
    BY <1>2, <2>1, <2>7 DEF BestAction
  <2>10. /\ e.nconv_qs[k].action \in TransitionTails(e.state)
         /\ QValues(value, e)[k]["lower"] =
              QValue(value, "lower", e.state, e.nconv_qs[k].action)
    BY <2>3, <2>8, UpdatedFacts
  <2>11. e.nconv_qs[k].action \in Action
    BY <2>10, TailsType DEF StackInfo
  <2> QED BY <1>2, <2>8, <2>9, <2>10, <2>11
<1> QED BY <1>1, <1>2

LEMMA UpdateStep == ASSUME IInv, UpdateValue PROVE IInv'
<1>1. /\ pc = "sweep" /\ pc' = "sweep" /\ pc # "timeout"
      /\ sweep.next <= Len(tarjan_stack)
      /\ UNCHANGED <<config, initial_state, status, stack_id, dfs_stack, decision>>
  BY DEF UpdateValue
<1>2. /\ dfs_stack # <<>> /\ ~Exploring(Top) /\ StacksOK /\ TypeOK /\ EntriesOK
      /\ Indexed /\ Top.aops = {} /\ IsRoot(Top)
      /\ sweep.next \in Top.stackidx..(Len(tarjan_stack) + 1)
  BY <1>1, Parts DEF ControlOK
<1>3. Top.stackidx \in 1..Len(tarjan_stack) /\ Len(tarjan_stack) \in Nat
  BY <1>1, <1>2, TopOK, TopFacts
<1>4. PICK i, e, s : i = sweep.next /\ e = tarjan_stack[i] /\ s = e.state
  OBVIOUS
<1>5. /\ i \in Nat /\ i \in DOMAIN tarjan_stack /\ i + 1 \in Top.stackidx..(Len(tarjan_stack) + 1)
      /\ DOMAIN tarjan_stack = 1..Len(tarjan_stack)
  BY <1>1, <1>2, <1>3, <1>4, TopFacts
<1>6. /\ e \in StackInfo /\ s \in State /\ status[s] = "onstack"
      /\ value \in [State -> Bounds]
  BY <1>2, <1>4, <1>5, EntryFacts DEF Indexed, TypeOK
<1>7. /\ Updated(value, e) \in Bounds
      /\ BestAction(value, e) \in Action \union {NoAction}
  <2>1. EntryOK(e, Explored(i))
    BY <1>2, <1>4, <1>5 DEF EntriesOK
  <2> QED BY <1>6, <2>1, UpdatedFacts, BestActionFacts
<1>8. PICK x, best : x = Updated(value, e) /\ best = BestAction(value, e)
  OBVIOUS
<1>9. /\ value' = [value EXCEPT ![s] = x]
      /\ tarjan_stack' = [tarjan_stack EXCEPT ![i].best_action = best]
      /\ sweep' = [next |-> i + 1, converged |->
           SweepConverged(UpdateConverged(value[s], value'[s]))]
  BY <1>4, <1>8 DEF UpdateValue
<1>10. value' \in [State -> Bounds] /\ Frozen
  <2>1. value' \in [State -> Bounds]
    BY <1>6, <1>7, <1>8, <1>9
  <2>2. Frozen
    BY <1>1, <1>6, <1>9 DEF Frozen
  <2> QED BY <2>1, <2>2
<1>11. PICK new : new = [e EXCEPT !.best_action = best]
  OBVIOUS
<1>12. /\ new \in StackInfo /\ new.state = e.state /\ new.conv_part = e.conv_part
       /\ new.nconv_qs = e.nconv_qs /\ new.best_converged = e.best_converged
  BY <1>6, <1>7, <1>8, <1>11 DEF StackInfo
<1>13. /\ tarjan_stack' \in Seq(StackInfo) /\ Len(tarjan_stack') = Len(tarjan_stack)
       /\ \A k \in DOMAIN tarjan_stack :
            tarjan_stack'[k] = IF k = i THEN new ELSE tarjan_stack[k]
  <2>1. tarjan_stack' = [tarjan_stack EXCEPT ![i] = new]
    BY <1>4, <1>9, <1>11
  <2>2. tarjan_stack \in Seq(StackInfo)
    BY <1>2 DEF StacksOK
  <2> QED BY <1>5, <1>12, <2>1, <2>2
<1>14. SameEntries
  BY <1>1, <1>4, <1>12, <1>13 DEF SameEntries
<1>15. \A k \in DOMAIN tarjan_stack :
         /\ tarjan_stack'[k].conv_part = tarjan_stack[k].conv_part
         /\ tarjan_stack'[k].nconv_qs = tarjan_stack[k].nconv_qs
         /\ tarjan_stack'[k].best_converged = tarjan_stack[k].best_converged
  BY <1>4, <1>12, <1>13
<1>16. sweep' \in [next : Nat, converged : BOOLEAN] /\ pc' \in PCs
  <2>1. sweep.converged \in BOOLEAN
    BY <1>2 DEF TypeOK
  <2>2. SweepConverged(UpdateConverged(value[s], value'[s])) \in BOOLEAN
    BY <2>1 DEF SweepConverged, UpdateConverged, ApproxEqual
  <2>3. i + 1 \in Nat
    BY <1>5
  <2> QED BY <1>1, <1>9, <2>2, <2>3 DEF PCs
<1>17. ControlOK'
  <2>1. Top' = Top
    BY <1>1 DEF Top
  <2>2. sweep'.next \in Top.stackidx..(Len(tarjan_stack') + 1)
    BY <1>5, <1>9, <1>13
  <2> QED BY <1>1, <1>2, <2>1, <2>2 DEF ControlOK, Exploring, IsRoot
<1> QED BY <1>1, <1>10, <1>14, <1>15, <1>16, <1>17, StacksKept

-----------------------------------------------------------------------------
(* The steps back.                                                         *)

(* The stack after the top frame is left.                                  *)
LEMMA ReturnFacts ==
  ASSUME StacksOK, dfs_stack # <<>>, NEW f, Return(f),
         Len(dfs_stack) > 1 => f \in DFSExplorationState
  PROVE  /\ dfs_stack' \in Seq(DFSExplorationState)
         /\ Len(dfs_stack) \in Nat \ {0} /\ Len(dfs_stack') = Len(dfs_stack) - 1
         /\ DOMAIN dfs_stack' = 1..(Len(dfs_stack) - 1)
         /\ DOMAIN dfs_stack = 1..Len(dfs_stack)
         /\ \A j \in 1..(Len(dfs_stack) - 1) :
              dfs_stack'[j] = IF j # Len(dfs_stack) - 1 THEN dfs_stack[j]
                              ELSE IF pc' = "timeout" THEN Below ELSE f
         /\ Len(dfs_stack) > 1 => Below \in DFSExplorationState
         /\ pc' \in {"done", "successor", "timeout"}
         /\ pc' = "done" <=> Len(dfs_stack) = 1
<1>1. PICK n, rest : n = Len(dfs_stack) /\ rest = SubSeq(dfs_stack, 1, n - 1)
  OBVIOUS
<1>2. /\ dfs_stack \in Seq(DFSExplorationState) /\ n \in Nat \ {0}
      /\ n - 1 \in 0..n
  BY <1>1 DEF StacksOK
<1>3. /\ rest \in Seq(DFSExplorationState) /\ Len(rest) = n - 1
      /\ \A i \in 1..(n - 1) : rest[i] = dfs_stack[i]
      /\ rest = <<>> <=> n - 1 = 0
  BY <1>1, <1>2, PrefixFacts
<1>4. n > 1 => Below \in DFSExplorationState /\ Below = dfs_stack[n - 1]
  BY <1>1, <1>2 DEF Below
<1>5. CASE rest = <<>> /\ dfs_stack' = rest /\ pc' = "done"
  BY <1>1, <1>2, <1>3, <1>5
<1>6. CASE rest # <<>> /\ dfs_stack' = WithTop(rest, f) /\ pc' = "successor"
  <2>1. n > 1 /\ f \in DFSExplorationState
    BY <1>1, <1>2, <1>3, <1>6
  <2>2. /\ dfs_stack' \in Seq(DFSExplorationState) /\ Len(dfs_stack') = n - 1
        /\ \A i \in 1..(n - 1) : dfs_stack'[i] = IF i = n - 1 THEN f ELSE rest[i]
    <3>1. /\ WithTop(rest, f) \in Seq(DFSExplorationState)
          /\ Len(WithTop(rest, f)) = Len(rest)
          /\ \A i \in 1..Len(rest) :
               WithTop(rest, f)[i] = IF i = Len(rest) THEN f ELSE rest[i]
      BY <1>3, <1>6, <2>1 DEF WithTop
    <3> QED BY <1>3, <1>6, <3>1
  <2> QED BY <1>1, <1>2, <1>3, <1>4, <1>6, <2>1, <2>2
<1>7. CASE rest # <<>> /\ dfs_stack' = rest /\ pc' = "timeout"
  <2>1. n > 1
    BY <1>2, <1>3, <1>7
  <2> QED BY <1>1, <1>2, <1>3, <1>4, <1>7, <2>1
<1> QED BY <1>1, <1>5, <1>6, <1>7 DEF Return

(* The frame below, while the top frame is explored.                       *)
LEMMA BelowOK ==
  ASSUME IInv, pc # "timeout", dfs_stack # <<>>, Len(dfs_stack) > 1
  PROVE  /\ Below \in DFSExplorationState /\ Exploring(Below) /\ FrameOK(Below)
         /\ Below = dfs_stack[Len(dfs_stack) - 1]
         /\ Len(dfs_stack) - 1 \in DOMAIN dfs_stack
         /\ Below.lowlink <= Below.stackidx
         /\ Below.stackidx < Top.stackidx /\ Below.successor = Top.state
         /\ Top.state \in NonSource(Below.state, Below.q.action)
         /\ Top.state \notin Below.successors
         /\ GatheredOK(Below.state, Below.q, Below.successors \union {Top.state})
<1>1. PICK n : n = Len(dfs_stack)
  OBVIOUS
<1>2. /\ n \in Nat \ {0} /\ DOMAIN dfs_stack = 1..n /\ Top = dfs_stack[n]
      /\ n - 1 \in DOMAIN dfs_stack /\ n \in DOMAIN dfs_stack /\ n - 1 < n
      /\ (n - 1) + 1 = n
  <2>1. /\ n \in Nat \ {0} /\ DOMAIN dfs_stack = 1..n /\ Top = dfs_stack[n] /\ n > 1
    BY <1>1, Parts, TopFacts
  <2> QED BY <2>1
<1>3. Below = dfs_stack[n - 1]
  BY <1>1 DEF Below
<1>4. Below \in DFSExplorationState
  BY <1>2, <1>3, Parts, FrameType
<1>5. /\ FrameOK(Below) /\ Below.stackidx < Top.stackidx
      /\ Exploring(Below) /\ Below.successor = Top.state
      /\ Below.successor \in NonSource(Below.state, Below.q.action) \ Below.successors
  <2>1. FrameOK(dfs_stack[n - 1])
    BY <1>2, Parts DEF FramesOK
  <2>2. dfs_stack[n - 1].stackidx < dfs_stack[n].stackidx
    BY <1>2, Parts DEF FramesOK
  <2>3. LET g == dfs_stack[n - 1]
        IN  /\ Exploring(g) /\ g.successor = dfs_stack[(n - 1) + 1].state
            /\ g.successor \in NonSource(g.state, g.q.action) \ g.successors
    BY <1>1, <1>2, Parts DEF FramesOK
  <2> QED BY <1>2, <1>3, <2>1, <2>2, <2>3
<1>6. Below.lowlink <= Below.stackidx
  BY <1>2, <1>3, Parts DEF TypeOK
<1>7. GatheredOK(Below.state, Below.q, Below.successors \union {Top.state})
  <2>1. Rest(n - 1) = Below.successors \union {Top.state}
    BY <1>1, <1>2, <1>3, <1>5 DEF Rest
  <2>2. GatheredOK(Below.state, Below.q, Rest(n - 1))
    BY <1>2, <1>3, <1>5, Parts DEF TransitionsOK
  <2> QED BY <2>1, <2>2
<1> QED BY <1>1, <1>2, <1>3, <1>4, <1>5, <1>6, <1>7

(* The step leaves the top frame, tells the frame below, now f, and keeps  *)
(* the first m entries of Tarjan's stack.                                  *)
Leaves(f, m) ==
  /\ dfs_stack # <<>> /\ Return(f) /\ Top.aops = {} /\ ~Exploring(Top)
  /\ Len(dfs_stack) > 1 =>
       /\ f \in DFSExplorationState /\ f.state = Below.state
       /\ f.stackidx = Below.stackidx /\ f.lowlink <= Below.lowlink
       /\ f.aops = Below.aops /\ f.successors = Below.successors
       /\ f.successor = Below.successor /\ f.q.action = Below.q.action
       /\ Exploring(f)
  /\ m \in (Top.stackidx - 1)..Len(tarjan_stack)
  /\ tarjan_stack' \in Seq(StackInfo) /\ Len(tarjan_stack') = m
  /\ \A i \in 1..m : tarjan_stack'[i] = tarjan_stack[i]
  /\ UNCHANGED <<config, initial_state, stack_id, value, sweep>>

(* The stack of frames after such a step.                                  *)
LEMMA LeftFrames ==
  ASSUME IInv, pc # "timeout", NEW f, NEW m, Leaves(f, m)
  PROVE  /\ StacksOK'
         /\ \A i \in DOMAIN dfs_stack' :
              /\ i \in DOMAIN dfs_stack /\ i < Len(dfs_stack)
              /\ dfs_stack'[i] \in DFSExplorationState
              /\ dfs_stack'[i].lowlink <= dfs_stack'[i].stackidx
              /\ dfs_stack'[i].stackidx = dfs_stack[i].stackidx
              /\ dfs_stack'[i].state = dfs_stack[i].state
              /\ dfs_stack'[i].aops = dfs_stack[i].aops
              /\ dfs_stack'[i].successors = dfs_stack[i].successors
              /\ dfs_stack'[i].successor = dfs_stack[i].successor
              /\ dfs_stack'[i].q.action = dfs_stack[i].q.action
              /\ Exploring(dfs_stack'[i]) /\ Exploring(dfs_stack[i])
              /\ dfs_stack'[i].lowlink <= dfs_stack[i].lowlink
              /\ dfs_stack'[i].stackidx \in DOMAIN tarjan_stack'
         /\ DOMAIN tarjan_stack' = 1..m /\ DOMAIN tarjan_stack' \subseteq DOMAIN tarjan_stack
<1>1. /\ StacksOK /\ TypeOK /\ FramesOK /\ dfs_stack # <<>> /\ Return(f)
      /\ Len(dfs_stack) > 1 => f \in DFSExplorationState
  BY Parts DEF Leaves
<1>2. PICK n : n = Len(dfs_stack)
  OBVIOUS
<1>3. /\ dfs_stack' \in Seq(DFSExplorationState)
      /\ n \in Nat \ {0} /\ DOMAIN dfs_stack' = 1..(n - 1)
      /\ DOMAIN dfs_stack = 1..n
      /\ \A j \in 1..(n - 1) :
           dfs_stack'[j] = IF j # n - 1 THEN dfs_stack[j]
                           ELSE IF pc' = "timeout" THEN Below ELSE f
  BY <1>1, <1>2, ReturnFacts
<1>4. /\ m \in (Top.stackidx - 1)..Len(tarjan_stack)
      /\ tarjan_stack' \in Seq(StackInfo) /\ Len(tarjan_stack') = m
      /\ Top.stackidx \in 1..Len(tarjan_stack) /\ Len(tarjan_stack) \in Nat
      /\ DOMAIN tarjan_stack = 1..Len(tarjan_stack)
      /\ Top = dfs_stack[n]
  BY <1>1, <1>2, TopOK, TopFacts DEF Leaves
<1>5. /\ DOMAIN tarjan_stack' = 1..m /\ 1..m \subseteq DOMAIN tarjan_stack
      /\ m \in Int /\ Top.stackidx \in Int
  BY <1>4
<1>6. StacksOK'
  BY <1>3, <1>4 DEF StacksOK
<1>7. ASSUME NEW j \in 1..(n - 1)
      PROVE  /\ j \in DOMAIN dfs_stack /\ j < n
             /\ dfs_stack[j].stackidx \in DOMAIN tarjan_stack'
             /\ Exploring(dfs_stack[j]) /\ dfs_stack[j] \in DFSExplorationState
             /\ dfs_stack[j].lowlink <= dfs_stack[j].stackidx
             /\ dfs_stack[j].lowlink \in Int /\ dfs_stack[j].stackidx \in Int
  <2>1. j \in DOMAIN dfs_stack /\ j < n /\ n \in DOMAIN dfs_stack
    BY <1>3, <1>7
  <2>2. dfs_stack[j].stackidx < Top.stackidx
    BY <1>1, <1>4, <2>1 DEF FramesOK
  <2>3. /\ Exploring(dfs_stack[j]) /\ FrameOK(dfs_stack[j])
        /\ dfs_stack[j].lowlink <= dfs_stack[j].stackidx
    BY <1>1, <1>2, <2>1 DEF FramesOK, TypeOK
  <2>4. dfs_stack[j].stackidx \in 1..Len(tarjan_stack)
    BY <1>4, <2>3 DEF FrameOK
  <2>5. dfs_stack[j].stackidx \in 1..m
    BY <1>4, <2>2, <2>4
  <2>6. /\ dfs_stack[j] \in DFSExplorationState
        /\ dfs_stack[j].lowlink \in Int /\ dfs_stack[j].stackidx \in Int
    BY <1>1, <2>1, FrameType, QFacts
  <2> QED BY <1>5, <2>1, <2>3, <2>5, <2>6
<1>8. ASSUME NEW j \in 1..(n - 1)
      PROVE  /\ dfs_stack'[j].stackidx = dfs_stack[j].stackidx
             /\ dfs_stack'[j].state = dfs_stack[j].state
             /\ dfs_stack'[j].aops = dfs_stack[j].aops
             /\ dfs_stack'[j].successors = dfs_stack[j].successors
             /\ dfs_stack'[j].successor = dfs_stack[j].successor
             /\ dfs_stack'[j].q.action = dfs_stack[j].q.action
             /\ Exploring(dfs_stack'[j]) /\ dfs_stack'[j] \in DFSExplorationState
             /\ dfs_stack'[j].lowlink <= dfs_stack[j].lowlink
  <2>1. CASE dfs_stack'[j] = dfs_stack[j]
    BY <1>7, <2>1
  <2>2. CASE dfs_stack'[j] # dfs_stack[j]
    <3>1. n > 1 /\ Below = dfs_stack[n - 1]
      BY <1>2, <1>3, <1>8 DEF Below
    <3>2. j = n - 1 /\ dfs_stack'[j] = f
      BY <1>3, <2>2, <3>1
    <3>3. dfs_stack[j] = Below
      BY <3>1, <3>2
    <3> QED BY <1>2, <3>1, <3>2, <3>3 DEF Leaves
  <2> QED BY <2>1, <2>2
<1>9. ASSUME NEW j \in 1..(n - 1)
      PROVE  dfs_stack'[j].lowlink <= dfs_stack'[j].stackidx
  <2>1. PICK x, y, z : /\ x = dfs_stack'[j].lowlink /\ y = dfs_stack[j].lowlink
                       /\ z = dfs_stack[j].stackidx
    OBVIOUS
  <2>2. x \in Int /\ y \in Int /\ z \in Int
    BY <1>7, <1>8, <2>1, QFacts
  <2>3. x <= y /\ y <= z
    BY <1>7, <1>8, <2>1
  <2> QED BY <1>8, <2>1, <2>2, <2>3
<1> QED BY <1>2, <1>3, <1>5, <1>6, <1>7, <1>8, <1>9

LEMMA LeaveStep ==
  ASSUME IInv, pc # "timeout", NEW f, NEW m, Leaves(f, m), Frozen,
         Indexed', ClosedComponents',
         status' \in [State -> {"new", "closed", "onstack"}],
         decision' \in [State -> Action \union {NoAction}],
         \A t \in State : status[t] = "onstack" => status'[t] \in {"onstack", "closed"},
         Len(dfs_stack) > 1 => GatheredOK(f.state, f.q, f.successors)',
         Len(dfs_stack) > 1 =>
           \A i \in 1..m : i >= Top.stackidx /\ ~Pruned(tarjan_stack[i].state) =>
             \A t \in Neighbours(tarjan_stack[i].state) :
               status[t] = "closed" \/ (status[t] = "onstack" /\ stack_id[t] >= f.lowlink)
  PROVE  IInv'
<1>1. /\ TypeOK /\ StacksOK /\ Indexed /\ ClosedComponents
      /\ FramesOK /\ LowlinksOK /\ TransitionsOK /\ EntriesOK
  BY Parts
<1>2. PICK n : n = Len(dfs_stack)
  OBVIOUS
<1>3. /\ n \in Nat \ {0} /\ DOMAIN dfs_stack' = 1..(n - 1) /\ DOMAIN dfs_stack = 1..n
      /\ Len(dfs_stack') = n - 1
      /\ \A j \in 1..(n - 1) :
           dfs_stack'[j] = IF j # n - 1 THEN dfs_stack[j]
                           ELSE IF pc' = "timeout" THEN Below ELSE f
      /\ pc' \in {"done", "successor", "timeout"} /\ (pc' = "done" <=> n = 1)
      /\ dfs_stack # <<>>
  BY <1>1, <1>2, ReturnFacts DEF Leaves
<1>4. /\ StacksOK'
      /\ \A i \in 1..(n - 1) :
           /\ i \in DOMAIN dfs_stack /\ i < n
           /\ dfs_stack'[i] \in DFSExplorationState
           /\ dfs_stack'[i].lowlink <= dfs_stack'[i].stackidx
           /\ dfs_stack'[i].stackidx = dfs_stack[i].stackidx
           /\ dfs_stack'[i].state = dfs_stack[i].state
           /\ dfs_stack'[i].aops = dfs_stack[i].aops
           /\ dfs_stack'[i].successors = dfs_stack[i].successors
           /\ dfs_stack'[i].successor = dfs_stack[i].successor
           /\ dfs_stack'[i].q.action = dfs_stack[i].q.action
           /\ Exploring(dfs_stack'[i]) /\ Exploring(dfs_stack[i])
           /\ dfs_stack'[i].lowlink <= dfs_stack[i].lowlink
           /\ dfs_stack'[i].stackidx \in DOMAIN tarjan_stack'
      /\ DOMAIN tarjan_stack' = 1..m /\ DOMAIN tarjan_stack' \subseteq DOMAIN tarjan_stack
  BY <1>2, <1>3, LeftFrames
<1>5. /\ \A i \in 1..m : tarjan_stack'[i] = tarjan_stack[i]
      /\ UNCHANGED <<config, initial_state, stack_id, value, sweep>>
      /\ tarjan_stack' \in Seq(StackInfo) /\ Len(tarjan_stack') = m
      /\ m \in (Top.stackidx - 1)..Len(tarjan_stack)
      /\ Top.aops = {} /\ ~Exploring(Top)
  BY DEF Leaves
<1>6. TypeOK'
  <2>1. \A i \in DOMAIN dfs_stack' : dfs_stack'[i].stackidx <= Len(tarjan_stack')
    BY <1>3, <1>4, <1>5
  <2>2. \A i \in DOMAIN tarjan_stack' : tarjan_stack'[i] \in StackInfo
    BY <1>5
  <2> QED BY <1>1, <1>3, <1>4, <1>5, <2>1, <2>2 DEF TypeOK, PCs
<1>7. CASE pc' = "timeout"
  BY <1>4, <1>6, <1>7 DEF IInv, ExplorationOK
<1>8. CASE pc' # "timeout"
  <2>1. n > 1 => /\ Below = dfs_stack[n - 1] /\ dfs_stack'[n - 1] = f
                 /\ n - 1 \in 1..(n - 1)
    BY <1>2, <1>3, <1>8 DEF Below
  <2>2. FramesOK'
    <3>1. ASSUME NEW j \in 1..(n - 1) PROVE FrameOK(dfs_stack[j])'
      <4>1. PICK g, h : g = dfs_stack[j] /\ h = dfs_stack'[j]
        OBVIOUS
      <4>2. FrameOK(g)
        BY <1>1, <1>4, <4>1 DEF FramesOK
      <4>3. /\ h.stackidx = g.stackidx /\ h.state = g.state /\ h.aops = g.aops
            /\ h.successors = g.successors /\ h.q.action = g.q.action
            /\ Exploring(h) /\ Exploring(g) /\ h.stackidx \in 1..m
        BY <1>4, <4>1
      <4>4. FrameOK(h)'
        BY <1>4, <1>5, <4>2, <4>3 DEF FrameOK, Pruned, Exploring
      <4> QED BY <4>1, <4>4
    <3>2. ASSUME NEW j \in 1..(n - 1), NEW k \in 1..(n - 1), j < k
          PROVE  dfs_stack'[j].stackidx < dfs_stack'[k].stackidx
      <4>1. dfs_stack[j].stackidx < dfs_stack[k].stackidx
        BY <1>1, <1>4, <3>2 DEF FramesOK
      <4> QED BY <1>4, <4>1
    <3>3. ASSUME NEW j \in 1..(n - 1), j < n - 1
          PROVE  LET g == dfs_stack'[j]
                 IN  /\ Exploring(g) /\ g.successor = dfs_stack'[j + 1].state
                     /\ g.successor \in NonSource(g.state, g.q.action) \ g.successors
      <4>1. j + 1 \in 1..(n - 1) /\ j < n
        BY <1>3, <3>3
      <4>2. LET g == dfs_stack[j]
            IN  /\ Exploring(g) /\ g.successor = dfs_stack[j + 1].state
                /\ g.successor \in NonSource(g.state, g.q.action) \ g.successors
        BY <1>1, <1>2, <1>4, <4>1 DEF FramesOK
      <4> QED BY <1>4, <4>1, <4>2
    <3> QED BY <1>3, <3>1, <3>2, <3>3 DEF FramesOK, Exploring
  <2>3. ControlOK'
    <3>1. n > 1 => Exploring(Top')
      BY <1>3, <1>4, <2>1 DEF Top
    <3>2. pc' # "done" => dfs_stack' # <<>>
      <4>1. n # 1 => 1 \in DOMAIN dfs_stack'
        BY <1>3
      <4> QED BY <1>3, <4>1
    <3>3. pc' # "done" => n > 1
      BY <1>3
    <3> QED BY <1>3, <1>8, <3>1, <3>2, <3>3 DEF ControlOK, Exploring
  <2>4. LowlinksOK'
    <3> SUFFICES ASSUME NEW j \in DOMAIN dfs_stack', NEW i \in Segment(j)',
                        ~Pruned(tarjan_stack[i].state),
                        NEW t \in Neighbours(tarjan_stack[i].state)
                 PROVE  \/ status'[t] = "closed"
                        \/ status'[t] = "onstack" /\ stack_id[t] >= dfs_stack'[j].lowlink
                        \/ i = dfs_stack'[j].stackidx /\ t \in Ahead(dfs_stack'[j])
      <4>1. \A j : Segment(j)' \subseteq 1..m
        BY <1>4 DEF Segment
      <4>2. \A j : \A i \in Segment(j)' : tarjan_stack'[i] = tarjan_stack[i]
        BY <1>5, <4>1
      <4>3. \A s : Pruned(s)' <=> Pruned(s)
        BY <1>5 DEF Pruned
      <4>4. stack_id' = stack_id
        BY <1>5
      <4> QED BY <4>2, <4>3, <4>4 DEF LowlinksOK, Ahead
    <3>0. j \in 1..(n - 1)
      BY <1>3
    <3>1. /\ i \in DOMAIN tarjan_stack /\ i \in 1..m /\ i >= dfs_stack[j].stackidx
          /\ \A k \in 1..(n - 1) : k > j => i < dfs_stack[k].stackidx
      BY <1>3, <1>4, <3>0 DEF Segment
    <3>2. tarjan_stack[i].state \in State /\ t \in State
      <4>1. tarjan_stack[i].state \in State
        BY <1>1, <3>1, EntryFacts
      <4> QED BY <4>1, NeighboursType
    <3>3. /\ stack_id[t] \in Int /\ dfs_stack'[j].lowlink \in Int
          /\ dfs_stack[j].lowlink \in Int /\ dfs_stack[j] \in DFSExplorationState
      BY <1>1, <1>4, <3>0, <3>2, FrameType, QFacts DEF TypeOK
    <3>4. status[t] = "closed" => status'[t] = "closed"
      BY <3>2 DEF Frozen
    <3>5. status[t] = "onstack" => status'[t] \in {"onstack", "closed"}
      BY <3>2
    <3>6. Top = dfs_stack[n] /\ n \in DOMAIN dfs_stack
      BY <1>2, <1>3 DEF Top
    <3>7. CASE j < n - 1 \/ i < Top.stackidx
      <4>1. i \in Segment(j)
        <5>1. ASSUME NEW k \in DOMAIN dfs_stack, k > j PROVE i < dfs_stack[k].stackidx
          <6>1. CASE k \in 1..(n - 1)
            BY <3>1, <5>1, <6>1
          <6>2. CASE k \notin 1..(n - 1)
            <7>1. k = n
              BY <1>3, <5>1, <6>2
            <7>2. CASE i < Top.stackidx
              BY <3>6, <7>1, <7>2
            <7>3. CASE j < n - 1
              <8>1. n - 1 \in 1..(n - 1) /\ n - 1 > j /\ n - 1 \in DOMAIN dfs_stack
                BY <1>3, <3>0, <7>3
              <8>2. i < dfs_stack[n - 1].stackidx
                BY <3>1, <8>1
              <8>3. n - 1 < n
                BY <1>3
              <8>4. dfs_stack[n - 1].stackidx < dfs_stack[n].stackidx
                BY <1>1, <3>6, <8>1, <8>3 DEF FramesOK
              <8>5. /\ dfs_stack[n - 1].stackidx \in Int /\ dfs_stack[n].stackidx \in Int
                    /\ i \in Int
                BY <1>1, <3>1, <3>6, <8>1, FrameType, QFacts
              <8>6. i < dfs_stack[n].stackidx
                BY ONLY <8>2, <8>4, <8>5
              <8> QED BY <7>1, <8>6
            <7> QED BY <3>7, <7>2, <7>3
          <6> QED BY <6>1, <6>2
        <5> QED BY <3>1, <5>1 DEF Segment
      <4>2. \/ status[t] = "closed"
            \/ status[t] = "onstack" /\ stack_id[t] >= dfs_stack[j].lowlink
            \/ i = dfs_stack[j].stackidx /\ t \in Ahead(dfs_stack[j])
        BY <1>1, <1>4, <3>0, <4>1 DEF LowlinksOK
      <4>3. Ahead(dfs_stack'[j]) = Ahead(dfs_stack[j])
        BY <1>4, <3>0 DEF Ahead
      <4>4. dfs_stack'[j].lowlink <= dfs_stack[j].lowlink
        BY <1>4, <3>0
      <4>5. stack_id[t] >= dfs_stack[j].lowlink => stack_id[t] >= dfs_stack'[j].lowlink
        BY <3>3, <4>4
      <4> QED BY <1>4, <3>0, <3>4, <3>5, <4>2, <4>3, <4>5
    <3>8. CASE j = n - 1 /\ i >= Top.stackidx
      <4>1. n > 1 /\ dfs_stack'[j] = f
        BY <1>3, <2>1, <3>0, <3>8
      <4>2. status[t] = "closed" \/ (status[t] = "onstack" /\ stack_id[t] >= f.lowlink)
        BY <1>2, <3>1, <3>8, <4>1
      <4> QED BY <3>4, <3>5, <4>1, <4>2
    <3>9. i \in Int /\ Top.stackidx \in Int
      BY <1>1, <3>1, <3>6, FrameType, QFacts
    <3> QED BY <1>3, <3>0, <3>7, <3>8, <3>9
  <2>5. TransitionsOK'
    <3> SUFFICES ASSUME NEW j \in 1..(n - 1)
                 PROVE  GatheredOK(dfs_stack[j].state, dfs_stack[j].q, Rest(j))'
      BY <1>3 DEF TransitionsOK
    <3>1. CASE j = n - 1
      <4>1. dfs_stack'[j] = f /\ n > 1
        BY <1>3, <2>1, <3>1
      <4>2. Rest(j)' = f.successors
        BY <1>3, <3>1, <4>1 DEF Rest
      <4>3. GatheredOK(f.state, f.q, f.successors)'
        BY <1>2, <4>1
      <4> QED BY <4>1, <4>2, <4>3
    <3>2. CASE j # n - 1
      <4>1. PICK g, r : g = dfs_stack[j] /\ g = dfs_stack'[j] /\ r = Rest(j)
        BY <1>3, <3>2
      <4>2. r = Rest(j)'
        BY <1>2, <1>3, <3>2, <4>1 DEF Rest
      <4>3. GatheredOK(g.state, g.q, r) /\ g.state \in State
        BY <1>1, <1>4, <4>1, FrameType DEF TransitionsOK
      <4>4. GatheredOK(g.state, g.q, r)'
        BY <4>3, GatheredKept
      <4> QED BY <4>1, <4>2, <4>4
    <3> QED BY <3>1, <3>2
  <2>6. \A i \in 1..m : Explored(i)' \subseteq Explored(i)
    <3> TAKE i \in 1..m
    <3>1. tarjan_stack'[i].state = tarjan_stack[i].state /\ tarjan_stack[i].state \in State
      BY <1>1, <1>4, <1>5, EntryFacts
    <3>2. Top \in DFSExplorationState /\ Top = dfs_stack[n] /\ n \in DOMAIN dfs_stack
      BY <1>1, <1>2, <1>3, TopFacts
    <3>3. Top.aops = {} /\ Top.q.action = NoAction
      BY <1>5, <3>2, QFacts
    <3>4. NoAction \notin TransitionTails(tarjan_stack[i].state)
      BY <3>1, TailsType, HeuristicAssumption
    <3> SUFFICES ASSUME NEW a \in Explored(i)' PROVE a \in Explored(i)
      OBVIOUS
    <3>5. a \in TransitionTails(tarjan_stack[i].state)
      BY <3>1 DEF Explored
    <3>6. ASSUME NEW j \in DOMAIN dfs_stack, dfs_stack[j].stackidx = i
          PROVE  a \notin dfs_stack[j].aops /\ a # dfs_stack[j].q.action
      <4>1. CASE j \in 1..(n - 1)
        <5>1. j \in DOMAIN dfs_stack' /\ dfs_stack'[j].stackidx = i
          BY <1>3, <1>4, <3>6, <4>1
        <5>2. a \notin dfs_stack'[j].aops /\ a # dfs_stack'[j].q.action
          BY <5>1 DEF Explored
        <5> QED BY <1>4, <4>1, <5>2
      <4>2. CASE j \notin 1..(n - 1)
        <5>1. j = n
          BY <1>3, <4>2
        <5> QED BY <3>2, <3>3, <3>4, <3>5, <5>1
      <4> QED BY <4>1, <4>2
    <3> QED BY <3>5, <3>6 DEF Explored
  <2>7. EntriesOK'
    <3> SUFFICES ASSUME NEW i \in 1..m PROVE EntryOK(tarjan_stack[i], Explored(i))'
      BY <1>4 DEF EntriesOK
    <3>1. PICK e, x, y : /\ e = tarjan_stack[i] /\ e = tarjan_stack'[i]
                         /\ x = Explored(i) /\ y = Explored(i)'
      BY <1>5
    <3>2. /\ e \in StackInfo /\ EntryOK(e, x) /\ y \subseteq x
          /\ x \subseteq TransitionTails(e.state)
      <4>1. i \in DOMAIN tarjan_stack
        BY <1>4
      <4>2. e \in StackInfo /\ EntryOK(e, x)
        BY <1>1, <3>1, <4>1, EntryFacts DEF EntriesOK
      <4>3. y \subseteq x
        BY <2>6, <3>1
      <4>4. x \subseteq TransitionTails(e.state)
        BY <3>1 DEF Explored
      <4> QED BY <4>2, <4>3, <4>4
    <3>3. EntryOK(e, y)'
      BY <3>2, EntryKept
    <3> QED BY <3>1, <3>3
  <2> QED BY <1>4, <1>6, <2>2, <2>3, <2>4, <2>5, <2>7 DEF IInv, ExplorationOK
<1> QED BY <1>7, <1>8

(* The segment of the top frame when its transitions are all explored.     *)
LEMMA TopSegment ==
  ASSUME IInv, pc # "timeout", dfs_stack # <<>>, Top.aops = {}, ~Exploring(Top),
         NEW i \in DOMAIN tarjan_stack, i >= Top.stackidx,
         ~Pruned(tarjan_stack[i].state), NEW t \in Neighbours(tarjan_stack[i].state)
  PROVE  \/ status[t] = "closed"
         \/ status[t] = "onstack" /\ stack_id[t] >= Top.lowlink
<1>1. PICK n : n = Len(dfs_stack)
  OBVIOUS
<1>2. /\ n \in DOMAIN dfs_stack /\ Top = dfs_stack[n] /\ FrameOK(Top)
      /\ DOMAIN dfs_stack = 1..n /\ n \in Nat
  BY <1>1, TopOK, TopFacts, Parts
<1>3. \A k \in DOMAIN dfs_stack : ~(k > n)
  BY <1>2
<1>4. i \in Segment(n)
  BY <1>2, <1>3 DEF Segment
<1>5. \/ status[t] = "closed"
      \/ status[t] = "onstack" /\ stack_id[t] >= dfs_stack[n].lowlink
      \/ i = dfs_stack[n].stackidx /\ t \in Ahead(dfs_stack[n])
  BY <1>2, <1>4, Parts DEF LowlinksOK
<1>6. Ahead(Top) = {}
  BY <1>2 DEF Ahead, FrameOK
<1> QED BY <1>2, <1>5, <1>6

LEMMA BacktrackStep == ASSUME IInv, Backtrack PROVE IInv'
<1>1. /\ pc = "transition" /\ pc # "timeout" /\ Top.aops = {}
      /\ UNCHANGED <<config, initial_state, status, stack_id, value, tarjan_stack,
                     sweep, decision>>
  BY DEF Backtrack
<1>2. /\ TypeOK /\ StacksOK /\ Indexed /\ ClosedComponents
      /\ dfs_stack # <<>> /\ ~Exploring(Top)
  BY <1>1, Parts DEF ControlOK
<1>3. /\ Top \in DFSExplorationState /\ Top.stackidx \in 1..Len(tarjan_stack)
      /\ Len(tarjan_stack) \in Nat /\ Top.state \in State
  BY <1>1, <1>2, TopOK, TopFacts
<1>4. PICK g, t : g = Below /\ t = Top.state
  OBVIOUS
<1>5. PICK q, link : q = AddOpen(g, t) /\ link = LowerLink(g, Top.lowlink)
  OBVIOUS
<1>6. PICK f : f = [g EXCEPT !.lowlink = link, !.q = q]
  OBVIOUS
<1>7. Return(f)
  BY <1>4, <1>5, <1>6 DEF Backtrack
<1>8. ASSUME Len(dfs_stack) > 1
      PROVE  /\ f \in DFSExplorationState /\ f.state = g.state
             /\ f.stackidx = g.stackidx /\ f.lowlink = link
             /\ f.aops = g.aops /\ f.successors = g.successors
             /\ f.successor = g.successor /\ f.q = q /\ q.action = g.q.action
             /\ Exploring(f) /\ link <= g.lowlink /\ link <= Top.lowlink
             /\ GatheredOK(f.state, f.q, f.successors)'
             /\ link \in Int
  <2>1. /\ g \in DFSExplorationState /\ Exploring(g)
        /\ t \in NonSource(g.state, g.q.action) /\ t \notin g.successors
        /\ GatheredOK(g.state, g.q, g.successors \union {t})
    BY <1>1, <1>2, <1>4, <1>8, BelowOK
  <2>2. q \in QValueInfo /\ q.action = g.q.action /\ GatheredOK(g.state, q, g.successors)'
    <3>1. PICK rest : rest = g.successors
      OBVIOUS
    <3> QED BY <1>1, <1>5, <2>1, <3>1, AddedOpen
  <2>3. /\ link \in {g.lowlink, Top.lowlink} /\ link <= g.lowlink
        /\ link <= Top.lowlink
    <3>1. PICK x, y : x = g.lowlink /\ y = Top.lowlink
      OBVIOUS
    <3>2. x \in Int /\ y \in Int
      BY <1>3, <2>1, <3>1, QFacts
    <3>3. Min({x, y}) \in {x, y} /\ Min({x, y}) <= x /\ Min({x, y}) <= y
      BY <3>2, MinOfTwo
    <3>4. link = Min({x, y})
      BY <1>5, <3>1 DEF LowerLink
    <3> QED BY <3>1, <3>3, <3>4
  <2>4. link \in 1..Cardinality(State) /\ link \in Int
    <3>1. g.lowlink \in 1..Cardinality(State) /\ Top.lowlink \in 1..Cardinality(State)
      BY <1>3, <2>1 DEF DFSExplorationState
    <3>2. g.lowlink \in Int /\ Top.lowlink \in Int
      BY <1>3, <2>1, QFacts
    <3> QED BY <2>3, <3>1, <3>2
  <2>5. /\ f \in DFSExplorationState /\ f.state = g.state
        /\ f.stackidx = g.stackidx /\ f.lowlink = link
        /\ f.aops = g.aops /\ f.successors = g.successors
        /\ f.successor = g.successor /\ f.q = q
    BY <1>6, <2>1, <2>2, <2>4 DEF DFSExplorationState
  <2> QED BY <2>2, <2>3, <2>4, <2>5 DEF Exploring
<1>9. PICK m : m = Len(tarjan_stack)
  OBVIOUS
<1>10. Leaves(f, m)
  <2>1. m \in (Top.stackidx - 1)..Len(tarjan_stack)
    BY <1>3, <1>9
  <2>2. Len(dfs_stack) > 1 =>
          /\ f \in DFSExplorationState /\ f.state = Below.state
          /\ f.stackidx = Below.stackidx /\ f.lowlink <= Below.lowlink
          /\ f.aops = Below.aops /\ f.successors = Below.successors
          /\ f.successor = Below.successor /\ f.q.action = Below.q.action
          /\ Exploring(f)
    BY <1>4, <1>8
  <2>3. /\ tarjan_stack' \in Seq(StackInfo) /\ Len(tarjan_stack') = m
        /\ \A i \in 1..m : tarjan_stack'[i] = tarjan_stack[i]
    BY <1>1, <1>2, <1>9 DEF StacksOK
  <2> QED BY <1>1, <1>2, <1>7, <2>1, <2>2, <2>3 DEF Leaves
<1>11. Frozen /\ Indexed' /\ ClosedComponents'
  BY <1>1, <1>2 DEF Frozen, Indexed, ClosedComponents, Pruned
<1>12. /\ status' \in [State -> {"new", "closed", "onstack"}]
       /\ decision' \in [State -> Action \union {NoAction}]
       /\ \A u \in State : status[u] = "onstack" => status'[u] \in {"onstack", "closed"}
  BY <1>1, <1>2 DEF TypeOK
<1>13. ASSUME Len(dfs_stack) > 1, NEW i \in 1..m, i >= Top.stackidx,
              ~Pruned(tarjan_stack[i].state), NEW u \in Neighbours(tarjan_stack[i].state)
       PROVE  \/ status[u] = "closed"
              \/ (status[u] = "onstack" /\ stack_id[u] >= f.lowlink)
  <2>1. i \in DOMAIN tarjan_stack
    BY <1>2, <1>9, TopFacts
  <2>2. \/ status[u] = "closed"
        \/ status[u] = "onstack" /\ stack_id[u] >= Top.lowlink
    BY <1>1, <1>2, <1>13, <2>1, TopSegment
  <2>3. u \in State
    <3>1. tarjan_stack[i].state \in State
      BY <1>2, <2>1, EntryFacts
    <3> QED BY <3>1, NeighboursType
  <2>4. /\ stack_id[u] \in Int /\ Top.lowlink \in Int /\ link \in Int
        /\ link <= Top.lowlink /\ f.lowlink = link
    BY <1>2, <1>3, <1>8, <1>13, <2>3, QFacts DEF TypeOK
  <2> QED BY <2>2, <2>4
<1>14. Len(dfs_stack) > 1 => GatheredOK(f.state, f.q, f.successors)'
  BY <1>8
<1> QED BY <1>1, <1>10, <1>11, <1>12, <1>13, <1>14, LeaveStep

LEMMA CloseStep == ASSUME IInv, CloseScc PROVE IInv'
<1>1. /\ pc = "sweep" /\ pc # "timeout"
      /\ UNCHANGED <<config, initial_state, stack_id, value, sweep>>
  BY DEF CloseScc
<1>2. /\ TypeOK /\ StacksOK /\ Indexed /\ ClosedComponents
      /\ dfs_stack # <<>> /\ ~Exploring(Top) /\ Top.aops = {} /\ IsRoot(Top)
  BY <1>1, Parts DEF ControlOK
<1>3. /\ Top \in DFSExplorationState /\ Top.stackidx \in 1..Len(tarjan_stack)
      /\ Len(tarjan_stack) \in Nat /\ Top.state \in State
      /\ tarjan_stack[Top.stackidx].state = Top.state
      /\ DOMAIN tarjan_stack = 1..Len(tarjan_stack)
  BY <1>1, <1>2, TopOK, TopFacts
<1>4. PICK r, len, entries, scc :
        /\ r = Top.stackidx /\ len = Len(tarjan_stack)
        /\ entries = {tarjan_stack[i] : i \in r..len}
        /\ scc = {e.state : e \in entries}
  OBVIOUS
<1>5. /\ status' = [s \in State |-> IF s \in scc THEN "closed" ELSE status[s]]
      /\ decision' = [s \in State |->
           IF s \in scc THEN (CHOOSE e \in entries : e.state = s).best_action
           ELSE decision[s]]
      /\ tarjan_stack' = SubSeq(tarjan_stack, 1, r - 1)
  BY <1>4 DEF CloseScc
<1>6. /\ r \in 1..len /\ len \in Nat /\ r - 1 \in 0..len /\ r \in Nat
      /\ \A i \in r..len : i \in DOMAIN tarjan_stack
      /\ \A i \in DOMAIN tarjan_stack : i \in 1..(r - 1) \/ i \in r..len
      /\ \A i \in 1..(r - 1) : i \in DOMAIN tarjan_stack /\ i \notin r..len
  BY <1>3, <1>4
<1>7. \A s \in State : s \in scc <=> status[s] = "onstack" /\ stack_id[s] \in r..len
  <2> TAKE s \in State
  <2>1. ASSUME s \in scc PROVE status[s] = "onstack" /\ stack_id[s] \in r..len
    <3>1. PICK i \in r..len : s = tarjan_stack[i].state
      BY <1>4, <2>1
    <3> QED BY <1>2, <1>6, <3>1 DEF Indexed
  <2>2. ASSUME status[s] = "onstack", stack_id[s] \in r..len PROVE s \in scc
    <3>1. tarjan_stack[stack_id[s]].state = s
      BY <1>2, <2>2 DEF Indexed
    <3> QED BY <1>4, <2>2, <3>1
  <2> QED BY <2>1, <2>2
<1>8. /\ tarjan_stack' \in Seq(StackInfo) /\ Len(tarjan_stack') = r - 1
      /\ \A i \in 1..(r - 1) : tarjan_stack'[i] = tarjan_stack[i]
      /\ DOMAIN tarjan_stack' = 1..(r - 1)
  <2>1. tarjan_stack \in Seq(StackInfo) /\ r - 1 \in 0..Len(tarjan_stack)
    BY <1>2, <1>4, <1>6 DEF StacksOK
  <2>2. /\ tarjan_stack' \in Seq(StackInfo) /\ Len(tarjan_stack') = r - 1
        /\ \A i \in 1..(r - 1) : tarjan_stack'[i] = tarjan_stack[i]
    BY <1>5, <2>1, PrefixFacts
  <2> QED BY <2>2
<1>9. PICK g, t : g = Below /\ t = Top.state
  OBVIOUS
<1>10. PICK q : q = AddConverged(g, t)
  OBVIOUS
<1>11. PICK f : f = [g EXCEPT !.q = q]
  OBVIOUS
<1>12. Return(f)
  BY <1>9, <1>10, <1>11 DEF CloseScc
<1>13. Frozen
  BY <1>1, <1>5 DEF Frozen
<1>14. /\ t \in State /\ status'[t] = "closed"
       /\ \A u \in State : status[u] = "closed" => status'[u] = "closed"
       /\ \A u \in State : status[u] = "onstack" => status'[u] \in {"onstack", "closed"}
       /\ status' \in [State -> {"new", "closed", "onstack"}]
  <2>1. t \in scc
    <3>1. r \in r..len
      BY <1>6
    <3> QED BY <1>3, <1>4, <1>9, <3>1
  <2>2. status \in [State -> {"new", "closed", "onstack"}]
    BY <1>2 DEF TypeOK
  <2> QED BY <1>3, <1>5, <1>9, <2>1, <2>2
<1>15. decision' \in [State -> Action \union {NoAction}]
  <2>1. ASSUME NEW s \in State, s \in scc
        PROVE  (CHOOSE e \in entries : e.state = s).best_action \in Action \union {NoAction}
    <3>1. \E e \in entries : e.state = s
      BY <1>4, <2>1
    <3>2. PICK e : e = CHOOSE x \in entries : x.state = s
      OBVIOUS
    <3>3. e \in entries
      BY <3>1, <3>2
    <3>4. e \in StackInfo
      BY <1>2, <1>4, <1>6, <3>3, EntryFacts
    <3> QED BY <3>2, <3>4 DEF StackInfo
  <2>2. decision \in [State -> Action \union {NoAction}]
    BY <1>2 DEF TypeOK
  <2> QED BY <1>5, <2>1, <2>2
<1>16. Indexed'
  <2>1. ASSUME NEW i \in 1..(r - 1)
        PROVE  status'[tarjan_stack[i].state] = "onstack" /\ stack_id[tarjan_stack[i].state] = i
    <3>1. /\ status[tarjan_stack[i].state] = "onstack"
          /\ stack_id[tarjan_stack[i].state] = i /\ tarjan_stack[i].state \in State
      BY <1>2, <1>6, EntryFacts DEF Indexed
    <3>2. tarjan_stack[i].state \notin scc
      BY <1>6, <1>7, <3>1
    <3> QED BY <1>5, <3>1, <3>2
  <2>2. ASSUME NEW s \in State, status'[s] = "onstack"
        PROVE  stack_id[s] \in 1..(r - 1) /\ tarjan_stack[stack_id[s]].state = s
    <3>1. s \notin scc /\ status[s] = "onstack"
      BY <1>5, <2>2
    <3>2. stack_id[s] \in DOMAIN tarjan_stack /\ tarjan_stack[stack_id[s]].state = s
      BY <1>2, <3>1 DEF Indexed
    <3> QED BY <1>6, <1>7, <3>1, <3>2
  <2> QED BY <1>1, <1>8, <2>1, <2>2 DEF Indexed
<1>17. ClosedComponents'
  <2> SUFFICES ASSUME NEW s \in State, status'[s] = "closed", ~Pruned(s),
                      NEW u \in Neighbours(s)
               PROVE  status'[u] = "closed"
    BY <1>1 DEF ClosedComponents, Pruned
  <2>1. u \in State
    BY NeighboursType
  <2>2. CASE s \notin scc
    <3>1. status[s] = "closed"
      BY <1>5, <2>2
    <3> QED BY <1>2, <1>14, <2>1, <3>1 DEF ClosedComponents
  <2>3. CASE s \in scc
    <3>1. /\ stack_id[s] \in r..len /\ tarjan_stack[stack_id[s]].state = s
          /\ stack_id[s] \in DOMAIN tarjan_stack
      BY <1>2, <1>6, <1>7, <2>3 DEF Indexed
    <3>2. PICK i : i = stack_id[s]
      OBVIOUS
    <3>3. i \in DOMAIN tarjan_stack /\ i >= Top.stackidx /\ tarjan_stack[i].state = s
      BY <1>4, <1>6, <3>1, <3>2
    <3>4. \/ status[u] = "closed"
          \/ status[u] = "onstack" /\ stack_id[u] >= Top.lowlink
      BY <1>1, <1>2, <3>3, TopSegment
    <3>5. CASE status[u] = "closed"
      BY <1>14, <2>1, <3>5
    <3>6. CASE status[u] = "onstack" /\ stack_id[u] >= Top.lowlink
      <4>1. stack_id[u] \in DOMAIN tarjan_stack
        BY <1>2, <2>1, <3>6 DEF Indexed
      <4>2. Top.lowlink = r
        BY <1>2, <1>4 DEF IsRoot
      <4>3. stack_id[u] \in r..len
        BY <1>3, <1>4, <1>6, <3>6, <4>1, <4>2
      <4>4. u \in scc
        BY <1>7, <2>1, <3>6, <4>3
      <4> QED BY <1>5, <2>1, <4>4
    <3> QED BY <3>4, <3>5, <3>6
  <2> QED BY <2>2, <2>3
<1>18. ASSUME Len(dfs_stack) > 1
       PROVE  /\ f \in DFSExplorationState /\ f.state = g.state
              /\ f.stackidx = g.stackidx /\ f.lowlink = g.lowlink
              /\ f.aops = g.aops /\ f.successors = g.successors
              /\ f.successor = g.successor /\ f.q.action = g.q.action
              /\ Exploring(f) /\ f.lowlink <= g.lowlink
              /\ GatheredOK(f.state, f.q, f.successors)'
  <2>1. /\ g \in DFSExplorationState /\ Exploring(g)
        /\ t \in NonSource(g.state, g.q.action) /\ t \notin g.successors
        /\ GatheredOK(g.state, g.q, g.successors \union {t})
    BY <1>1, <1>2, <1>9, <1>18, BelowOK
  <2>2. q \in QValueInfo /\ q.action = g.q.action /\ GatheredOK(g.state, q, g.successors)'
    <3>1. PICK rest : rest = g.successors
      OBVIOUS
    <3>2. value \in [State -> Bounds]
      BY <1>2 DEF TypeOK
    <3> QED BY <1>1, <1>2, <1>10, <1>14, <2>1, <3>1, <3>2, AddedConverged
  <2>3. /\ f \in DFSExplorationState /\ f.state = g.state
        /\ f.stackidx = g.stackidx /\ f.lowlink = g.lowlink
        /\ f.aops = g.aops /\ f.successors = g.successors
        /\ f.successor = g.successor /\ f.q = q
    BY <1>11, <2>1, <2>2 DEF DFSExplorationState
  <2>4. g.lowlink \in Int
    BY <2>1, QFacts
  <2> QED BY <2>2, <2>3, <2>4 DEF Exploring
<1>19. PICK m : m = r - 1
  OBVIOUS
<1>20. Leaves(f, m)
  <2>1. m \in (Top.stackidx - 1)..Len(tarjan_stack)
    BY <1>4, <1>6, <1>19
  <2>2. Len(dfs_stack) > 1 =>
          /\ f \in DFSExplorationState /\ f.state = Below.state
          /\ f.stackidx = Below.stackidx /\ f.lowlink <= Below.lowlink
          /\ f.aops = Below.aops /\ f.successors = Below.successors
          /\ f.successor = Below.successor /\ f.q.action = Below.q.action
          /\ Exploring(f)
    BY <1>9, <1>18
  <2> QED BY <1>1, <1>2, <1>8, <1>12, <1>19, <2>1, <2>2 DEF Leaves
<1>21. \A i \in 1..m : ~(i >= Top.stackidx)
  BY <1>4, <1>6, <1>19
<1>22. Len(dfs_stack) > 1 => GatheredOK(f.state, f.q, f.successors)'
  BY <1>18
<1> QED BY <1>1, <1>13, <1>14, <1>15, <1>16, <1>17, <1>20, <1>21, <1>22, LeaveStep

-----------------------------------------------------------------------------
(* The steps down.                                                         *)

(* There is room on the stack for a state that is new.                     *)
LEMMA StackRoom ==
  ASSUME StacksOK, Indexed, NEW s \in State, status[s] = "new"
  PROVE  /\ Len(tarjan_stack) \in Nat
         /\ Len(tarjan_stack) + 1 \in 1..Cardinality(State)
<1>1. PICK n : n = Len(tarjan_stack)
  OBVIOUS
<1>2. n \in Nat /\ DOMAIN tarjan_stack = 1..n
  BY <1>1 DEF StacksOK
<1>3. PICK f : f = [i \in 1..(n + 1) |-> IF i = n + 1 THEN s ELSE tarjan_stack[i].state]
  OBVIOUS
<1>4. ASSUME NEW i \in 1..n
      PROVE  /\ f[i] = tarjan_stack[i].state /\ f[i] \in State
             /\ status[f[i]] = "onstack" /\ stack_id[f[i]] = i
  <2>1. i \in 1..(n + 1) /\ i # n + 1 /\ i \in DOMAIN tarjan_stack
    BY <1>2
  <2>2. f[i] = tarjan_stack[i].state
    BY <1>3, <2>1
  <2> QED BY <2>1, <2>2, EntryFacts DEF Indexed
<1>5. f[n + 1] = s /\ \A i \in 1..(n + 1) : i \in 1..n \/ i = n + 1
  BY <1>2, <1>3
<1>6. f \in [1..(n + 1) -> State]
  BY <1>3, <1>4, <1>5
<1>7. \A i, j \in 1..(n + 1) : f[i] = f[j] => i = j
  BY <1>4, <1>5
<1>8. f \in Injection(1..(n + 1), State)
  BY <1>6, <1>7 DEF Injection, IsInjective
<1>9. IsFiniteSet(State)
  BY MDPAssumption
<1>10. PICK S : S = 1..(n + 1)
  OBVIOUS
<1>11. Cardinality(S) <= Cardinality(State)
  BY <1>8, <1>9, <1>10, FS_Injection
<1>12. Cardinality(S) = n + 1
  <2>1. n + 1 \in Int /\ 1 \in Int /\ ~(1 > n + 1)
    BY <1>2
  <2>2. Cardinality(1..(n + 1)) = (n + 1) - 1 + 1
    BY <2>1, FS_Interval
  <2> QED BY <1>2, <1>10, <2>2
<1>13. Cardinality(State) \in Nat
  BY <1>9, FS_CardinalityType
<1> QED BY <1>1, <1>2, <1>11, <1>12, <1>13

(* The frames are those in rest, where the top one has come to s.          *)
Continues(rest, s) ==
  /\ rest \in Seq(DFSExplorationState) /\ Len(rest) = Len(dfs_stack)
  /\ \A j \in DOMAIN dfs_stack :
       /\ rest[j].state = dfs_stack[j].state /\ rest[j].aops = dfs_stack[j].aops
       /\ rest[j].stackidx = dfs_stack[j].stackidx /\ rest[j].q = dfs_stack[j].q
       /\ rest[j].lowlink = dfs_stack[j].lowlink
       /\ j < Len(dfs_stack) => rest[j] = dfs_stack[j]
       /\ j = Len(dfs_stack) =>
            /\ Exploring(dfs_stack[j]) /\ rest[j].successor = s
            /\ dfs_stack[j].successors = rest[j].successors \union {s}
            /\ s \in NonSource(rest[j].state, rest[j].q.action) \ rest[j].successors

(* The stacks after s is entered.                                          *)
LEMMA EnterFacts ==
  ASSUME StacksOK, Indexed, TypeOK, NEW s \in State, status[s] = "new", NEW rest,
         Enter(s, rest), Continues(rest, s), config' = config
  PROVE  LET n == Len(dfs_stack)
             l == Len(tarjan_stack)
         IN  /\ n \in Nat /\ l \in Nat /\ DOMAIN dfs_stack = 1..n
             /\ DOMAIN tarjan_stack = 1..l /\ l + 1 \in 1..Cardinality(State)
             /\ StacksOK' /\ DOMAIN dfs_stack' = 1..(n + 1) /\ Len(dfs_stack') = n + 1
             /\ DOMAIN tarjan_stack' = 1..(l + 1) /\ Len(tarjan_stack') = l + 1
             /\ \A j \in 1..n : dfs_stack'[j] = rest[j] /\ rest[j] \in DFSExplorationState
             /\ \A i \in 1..l : tarjan_stack'[i] = tarjan_stack[i]
             /\ dfs_stack'[n + 1] =
                  [state |-> s, aops |-> IF Pruned(s) THEN {} ELSE TransitionTails(s),
                   q |-> NoTransition, successors |-> {}, successor |-> s,
                   stackidx |-> l + 1, lowlink |-> l + 1]
             /\ dfs_stack'[n + 1] \in DFSExplorationState
             /\ tarjan_stack'[l + 1] =
                  [state |-> s, conv_part |-> Point(TerminationCost[s]),
                   nconv_qs |-> <<>>, best_action |-> NoAction,
                   best_converged |-> NoAction]
             /\ tarjan_stack'[l + 1] \in StackInfo
             /\ status'[s] = "onstack" /\ stack_id'[s] = l + 1
             /\ \A t \in State \ {s} : /\ status'[t] = status[t]
                                       /\ stack_id'[t] = stack_id[t]
             /\ Frozen /\ pc' = "transition"
             /\ status' \in [State -> {"new", "closed", "onstack"}]
             /\ stack_id' \in [State -> 0..Cardinality(State)]
             /\ value' \in [State -> Bounds]
<1>1. PICK n, l : n = Len(dfs_stack) /\ l = Len(tarjan_stack)
  OBVIOUS
<1>2. /\ n \in Nat /\ l \in Nat /\ DOMAIN dfs_stack = 1..n /\ DOMAIN tarjan_stack = 1..l
      /\ tarjan_stack \in Seq(StackInfo) /\ l + 1 \in 1..Cardinality(State)
      /\ rest \in Seq(DFSExplorationState) /\ Len(rest) = n
  BY <1>1, StackRoom DEF StacksOK, Continues
<1>3. PICK f : f = [state |-> s, aops |-> IF Pruned(s) THEN {} ELSE TransitionTails(s),
                    q |-> NoTransition, successors |-> {}, successor |-> s,
                    stackidx |-> l + 1, lowlink |-> l + 1]
  OBVIOUS
<1>4. PICK e : e = [state |-> s, conv_part |-> Point(TerminationCost[s]),
                    nconv_qs |-> <<>>, best_action |-> NoAction,
                    best_converged |-> NoAction]
  OBVIOUS
<1>5. f \in DFSExplorationState
  <2>1. PICK acts : acts = IF Pruned(s) THEN {} ELSE TransitionTails(s)
    OBVIOUS
  <2>2. acts \in SUBSET Action
    BY <2>1, TailsType
  <2> QED BY <1>2, <1>3, <2>1, <2>2 DEF DFSExplorationState
<1>6. e \in StackInfo
  <2>1. TerminationCost[s] \in Int
    BY MDPAssumption
  <2>2. Point(TerminationCost[s]) \in Bounds
    BY <2>1 DEF Point, Bounds
  <2>3. <<>> \in Seq(QValueInfo)
    OBVIOUS
  <2> QED BY <1>4, <2>2, <2>3 DEF StackInfo
<1>7. /\ tarjan_stack' = Append(tarjan_stack, e) /\ dfs_stack' = Append(rest, f)
      /\ status' = [status EXCEPT ![s] = "onstack"]
      /\ stack_id' = [stack_id EXCEPT ![s] = l + 1]
      /\ value' = [value EXCEPT ![s] =
           IF config.use_interval
           THEN [lower |-> Estimate[s], upper |-> TerminationCost[s]]
           ELSE Point(Estimate[s])]
      /\ pc' = "transition"
  BY <1>1, <1>3, <1>4 DEF Enter, StackIndex
<1>8. /\ dfs_stack' \in Seq(DFSExplorationState) /\ Len(dfs_stack') = n + 1
      /\ \A j \in 1..(n + 1) : dfs_stack'[j] = IF j = n + 1 THEN f ELSE rest[j]
  BY <1>2, <1>5, <1>7, PushFacts
<1>9. /\ tarjan_stack' \in Seq(StackInfo) /\ Len(tarjan_stack') = l + 1
      /\ \A i \in 1..(l + 1) : tarjan_stack'[i] = IF i = l + 1 THEN e ELSE tarjan_stack[i]
  BY <1>1, <1>2, <1>6, <1>7, PushFacts
<1>10. /\ StacksOK' /\ DOMAIN dfs_stack' = 1..(n + 1) /\ DOMAIN tarjan_stack' = 1..(l + 1)
       /\ \A j \in 1..n : dfs_stack'[j] = rest[j] /\ rest[j] \in DFSExplorationState
       /\ \A i \in 1..l : tarjan_stack'[i] = tarjan_stack[i]
       /\ dfs_stack'[n + 1] = f /\ tarjan_stack'[l + 1] = e
  BY <1>2, <1>8, <1>9 DEF StacksOK
<1>11. /\ status' \in [State -> {"new", "closed", "onstack"}]
       /\ stack_id' \in [State -> 0..Cardinality(State)]
       /\ value' \in [State -> Bounds]
       /\ status'[s] = "onstack" /\ stack_id'[s] = l + 1
       /\ \A t \in State \ {s} : status'[t] = status[t] /\ stack_id'[t] = stack_id[t]
       /\ Frozen
  <2>1. /\ status \in [State -> {"new", "closed", "onstack"}]
        /\ stack_id \in [State -> 0..Cardinality(State)]
        /\ value \in [State -> Bounds]
    BY DEF TypeOK
  <2>2. /\ TerminationCost[s] \in Int /\ Estimate[s] \in Int
    BY MDPAssumption, HeuristicAssumption
  <2>3. l + 1 \in 0..Cardinality(State)
    BY <1>2
  <2>4. /\ [lower |-> Estimate[s], upper |-> TerminationCost[s]] \in Bounds
        /\ Point(Estimate[s]) \in Bounds
    BY <2>2 DEF Bounds, Point
  <2>5. \A t \in State : status[t] = "closed" => t # s
    OBVIOUS
  <2>6. value' \in [State -> Bounds] /\ \A t \in State : t # s => value'[t] = value[t]
    BY <1>7, <2>1, <2>4
  <2>7. /\ status' \in [State -> {"new", "closed", "onstack"}]
        /\ stack_id' \in [State -> 0..Cardinality(State)]
        /\ status'[s] = "onstack" /\ stack_id'[s] = l + 1
        /\ \A t \in State \ {s} : status'[t] = status[t] /\ stack_id'[t] = stack_id[t]
    BY <1>7, <2>1, <2>3
  <2>8. Frozen
    BY <2>5, <2>6, <2>7 DEF Frozen
  <2> QED BY <2>6, <2>7, <2>8
<1> QED BY <1>1, <1>2, <1>3, <1>4, <1>5, <1>6, <1>7, <1>8, <1>9, <1>10, <1>11

LEMMA EnterStep ==
  ASSUME IInv, pc # "timeout", NEW s \in State, status[s] = "new", NEW rest,
         Enter(s, rest), Continues(rest, s),
         UNCHANGED <<config, initial_state, sweep, decision>>
  PROVE  IInv'
<1>1. /\ TypeOK /\ StacksOK /\ Indexed /\ ClosedComponents
      /\ FramesOK /\ LowlinksOK /\ TransitionsOK /\ EntriesOK
  BY Parts
<1>2. PICK n, l, f, e :
        /\ n = Len(dfs_stack) /\ l = Len(tarjan_stack)
        /\ f = [state |-> s, aops |-> IF Pruned(s) THEN {} ELSE TransitionTails(s),
                q |-> NoTransition, successors |-> {}, successor |-> s,
                stackidx |-> l + 1, lowlink |-> l + 1]
        /\ e = [state |-> s, conv_part |-> Point(TerminationCost[s]),
                nconv_qs |-> <<>>, best_action |-> NoAction,
                best_converged |-> NoAction]
  OBVIOUS
<1>3. /\ n \in Nat /\ l \in Nat /\ DOMAIN dfs_stack = 1..n
      /\ DOMAIN tarjan_stack = 1..l /\ l + 1 \in 1..Cardinality(State)
      /\ StacksOK' /\ DOMAIN dfs_stack' = 1..(n + 1) /\ Len(dfs_stack') = n + 1
      /\ DOMAIN tarjan_stack' = 1..(l + 1) /\ Len(tarjan_stack') = l + 1
      /\ \A j \in 1..n : dfs_stack'[j] = rest[j] /\ rest[j] \in DFSExplorationState
      /\ \A i \in 1..l : tarjan_stack'[i] = tarjan_stack[i]
      /\ dfs_stack'[n + 1] = f /\ f \in DFSExplorationState
      /\ tarjan_stack'[l + 1] = e /\ e \in StackInfo
      /\ status'[s] = "onstack" /\ stack_id'[s] = l + 1
      /\ \A t \in State \ {s} : status'[t] = status[t] /\ stack_id'[t] = stack_id[t]
      /\ Frozen /\ pc' = "transition"
      /\ status' \in [State -> {"new", "closed", "onstack"}]
      /\ stack_id' \in [State -> 0..Cardinality(State)]
      /\ value' \in [State -> Bounds]
  BY <1>1, <1>2, EnterFacts
<1>4. /\ f.state = s /\ f.aops = IF Pruned(s) THEN {} ELSE TransitionTails(s)
      /\ f.q = NoTransition /\ f.successors = {} /\ f.stackidx = l + 1 /\ f.lowlink = l + 1
      /\ ~Exploring(f)
  BY <1>2, HeuristicAssumption DEF Exploring, QValueInfo, NoTransition
<1>5. /\ e.state = s /\ e.conv_part = Point(TerminationCost[s]) /\ e.nconv_qs = <<>>
      /\ e.best_converged = NoAction
  BY <1>2
<1>6. ASSUME NEW j \in 1..n
      PROVE  /\ dfs_stack'[j] = rest[j] /\ rest[j] \in DFSExplorationState
             /\ dfs_stack[j] \in DFSExplorationState
             /\ rest[j].state = dfs_stack[j].state /\ rest[j].aops = dfs_stack[j].aops
             /\ rest[j].stackidx = dfs_stack[j].stackidx /\ rest[j].q = dfs_stack[j].q
             /\ rest[j].lowlink = dfs_stack[j].lowlink
             /\ j < n => rest[j] = dfs_stack[j]
             /\ j = n =>
                  /\ Exploring(dfs_stack[j]) /\ rest[j].successor = s
                  /\ dfs_stack[j].successors = rest[j].successors \union {s}
                  /\ s \in NonSource(rest[j].state, rest[j].q.action) \ rest[j].successors
             /\ Exploring(dfs_stack[j]) /\ FrameOK(dfs_stack[j])
             /\ dfs_stack[j].stackidx \in 1..l
             /\ dfs_stack[j].lowlink <= dfs_stack[j].stackidx
             /\ dfs_stack[j].lowlink \in Int /\ dfs_stack[j].stackidx \in Int
  <2>1. j \in DOMAIN dfs_stack /\ (j < n \/ j = n)
    BY <1>3
  <2>2. /\ rest[j].state = dfs_stack[j].state /\ rest[j].aops = dfs_stack[j].aops
        /\ rest[j].stackidx = dfs_stack[j].stackidx /\ rest[j].q = dfs_stack[j].q
        /\ rest[j].lowlink = dfs_stack[j].lowlink
        /\ j < n => rest[j] = dfs_stack[j]
        /\ j = n =>
             /\ Exploring(dfs_stack[j]) /\ rest[j].successor = s
             /\ dfs_stack[j].successors = rest[j].successors \union {s}
             /\ s \in NonSource(rest[j].state, rest[j].q.action) \ rest[j].successors
    BY <1>2, <2>1 DEF Continues
  <2>3. Exploring(dfs_stack[j])
    BY <1>1, <1>2, <2>1, <2>2 DEF FramesOK
  <2>4. FrameOK(dfs_stack[j]) /\ dfs_stack[j].lowlink <= dfs_stack[j].stackidx
    BY <1>1, <2>1 DEF FramesOK, TypeOK
  <2>5. dfs_stack[j].stackidx \in 1..l
    BY <1>3, <2>4 DEF FrameOK
  <2>6. /\ dfs_stack[j] \in DFSExplorationState
        /\ dfs_stack[j].lowlink \in Int /\ dfs_stack[j].stackidx \in Int
    BY <1>1, <2>1, FrameType, QFacts
  <2> QED BY <1>3, <2>2, <2>3, <2>4, <2>5, <2>6
<1>7. \A j \in 1..(n + 1) : j \in 1..n \/ j = n + 1
  BY <1>3
<1>8. \A i \in 1..(l + 1) : i \in 1..l \/ i = l + 1
  BY <1>3
<1>9. \A i \in 1..l : /\ tarjan_stack[i] \in StackInfo /\ tarjan_stack[i].state \in State
                      /\ status[tarjan_stack[i].state] = "onstack"
                      /\ stack_id[tarjan_stack[i].state] = i
                      /\ tarjan_stack[i].state # s
  BY <1>1, <1>3, EntryFacts DEF Indexed
<1>10. TypeOK'
  <2>1. ASSUME NEW j \in 1..(n + 1)
        PROVE  /\ dfs_stack'[j] \in DFSExplorationState
               /\ dfs_stack'[j].lowlink <= dfs_stack'[j].stackidx
               /\ dfs_stack'[j].stackidx <= l + 1
    <3>1. CASE j \in 1..n
      BY <1>3, <1>6, <3>1
    <3>2. CASE j = n + 1
      BY <1>3, <1>4, <3>2
    <3> QED BY <1>7, <3>1, <3>2
  <2>2. \A i \in 1..(l + 1) : tarjan_stack'[i] \in StackInfo
    BY <1>3, <1>8, <1>9
  <2> QED BY <1>1, <1>3, <2>1, <2>2 DEF TypeOK, PCs
<1>11. Indexed'
  <2>1. ASSUME NEW i \in 1..(l + 1)
        PROVE  /\ status'[tarjan_stack'[i].state] = "onstack"
               /\ stack_id'[tarjan_stack'[i].state] = i
    <3>1. CASE i \in 1..l
      <4>1. PICK x : x = tarjan_stack[i].state
        OBVIOUS
      <4>2. x \in State \ {s} /\ status[x] = "onstack" /\ stack_id[x] = i
        BY <1>9, <3>1, <4>1
      <4>3. tarjan_stack'[i].state = x
        BY <1>3, <3>1, <4>1
      <4>4. status'[x] = status[x] /\ stack_id'[x] = stack_id[x]
        BY <1>3, <4>2
      <4> QED BY <4>2, <4>3, <4>4
    <3>2. CASE i = l + 1
      BY <1>3, <1>5, <3>2
    <3> QED BY <1>8, <3>1, <3>2
  <2>2. ASSUME NEW t \in State, status'[t] = "onstack"
        PROVE  stack_id'[t] \in 1..(l + 1) /\ tarjan_stack'[stack_id'[t]].state = t
    <3>1. CASE t = s
      BY <1>3, <1>5, <3>1
    <3>2. CASE t # s
      <4>1. status[t] = "onstack" /\ stack_id'[t] = stack_id[t]
        BY <1>3, <2>2, <3>2
      <4>2. stack_id[t] \in 1..l /\ tarjan_stack[stack_id[t]].state = t
        BY <1>1, <1>3, <4>1 DEF Indexed
      <4> QED BY <1>3, <4>1, <4>2
    <3> QED BY <3>1, <3>2
  <2> QED BY <1>3, <2>1, <2>2 DEF Indexed
<1>12. ClosedComponents'
  <2> SUFFICES ASSUME NEW x \in State, status'[x] = "closed", ~Pruned(x),
                      NEW t \in Neighbours(x)
               PROVE  status'[t] = "closed"
    BY DEF ClosedComponents, Pruned
  <2>1. x # s /\ status[x] = "closed" /\ t \in State
    BY <1>3, NeighboursType
  <2>2. status[t] = "closed"
    BY <1>1, <2>1 DEF ClosedComponents
  <2> QED BY <1>3, <2>1, <2>2
<1>13. FramesOK'
  <2>1. ASSUME NEW j \in 1..(n + 1) PROVE FrameOK(dfs_stack[j])'
    <3>1. CASE j \in 1..n
      <4>1. PICK g, h : g = dfs_stack[j] /\ h = dfs_stack'[j]
        OBVIOUS
      <4>2. /\ FrameOK(g) /\ Exploring(g) /\ g.stackidx \in 1..l
            /\ h.state = g.state /\ h.aops = g.aops /\ h.stackidx = g.stackidx
            /\ h.q = g.q /\ h.successors \subseteq g.successors
        <5>1. j < n \/ j = n
          BY <1>3, <3>1
        <5> QED BY <1>6, <3>1, <4>1, <5>1
      <4>3. h.stackidx \in DOMAIN tarjan_stack' /\ tarjan_stack'[h.stackidx].state = h.state
        BY <1>3, <4>2 DEF FrameOK
      <4>4. FrameOK(h)'
        BY <4>2, <4>3 DEF FrameOK, Pruned, Exploring
      <4> QED BY <4>1, <4>4
    <3>2. CASE j = n + 1
      <4>1. f.stackidx \in DOMAIN tarjan_stack' /\ tarjan_stack'[f.stackidx].state = s
        BY <1>3, <1>4, <1>5
      <4>2. FrameOK(f)'
        BY <1>4, <4>1 DEF FrameOK, Pruned, Exploring
      <4> QED BY <1>3, <3>2, <4>2
    <3> QED BY <1>7, <3>1, <3>2
  <2>2. ASSUME NEW j \in 1..(n + 1), NEW k \in 1..(n + 1), j < k
        PROVE  dfs_stack'[j].stackidx < dfs_stack'[k].stackidx
    <3>1. j \in 1..n /\ j \in DOMAIN dfs_stack
      BY <1>3, <2>2
    <3>2. dfs_stack'[j].stackidx = dfs_stack[j].stackidx /\ dfs_stack[j].stackidx \in 1..l
      BY <1>6, <3>1
    <3>3. CASE k \in 1..n
      <4>1. dfs_stack[j].stackidx < dfs_stack[k].stackidx
        BY <1>1, <1>3, <2>2, <3>1, <3>3 DEF FramesOK
      <4>2. dfs_stack'[k].stackidx = dfs_stack[k].stackidx
        BY <1>6, <3>3
      <4> QED BY <3>2, <4>1, <4>2
    <3>4. CASE k = n + 1
      BY <1>3, <1>4, <3>2, <3>4
    <3> QED BY <1>7, <3>3, <3>4
  <2>3. ASSUME NEW j \in 1..(n + 1), j < n + 1
        PROVE  LET g == dfs_stack'[j]
               IN  /\ Exploring(g) /\ g.successor = dfs_stack'[j + 1].state
                   /\ g.successor \in NonSource(g.state, g.q.action) \ g.successors
    <3>1. j \in 1..n /\ j \in DOMAIN dfs_stack /\ (j < n \/ j = n)
      BY <1>3, <2>3
    <3>2. CASE j < n
      <4>1. dfs_stack'[j] = dfs_stack[j] /\ j + 1 \in 1..n
        BY <1>3, <1>6, <3>1, <3>2
      <4>2. dfs_stack'[j + 1].state = dfs_stack[j + 1].state
        BY <1>6, <4>1
      <4>3. LET g == dfs_stack[j]
            IN  /\ Exploring(g) /\ g.successor = dfs_stack[j + 1].state
                /\ g.successor \in NonSource(g.state, g.q.action) \ g.successors
        BY <1>1, <1>2, <3>1, <3>2 DEF FramesOK
      <4> QED BY <4>1, <4>2, <4>3
    <3>3. CASE j = n
      <4>1. /\ dfs_stack'[j] = rest[j] /\ rest[j].q = dfs_stack[j].q
            /\ Exploring(dfs_stack[j]) /\ rest[j].successor = s
            /\ s \in NonSource(rest[j].state, rest[j].q.action) \ rest[j].successors
        BY <1>6, <3>1, <3>3
      <4>2. dfs_stack'[j + 1].state = s
        BY <1>3, <1>4, <3>3
      <4> QED BY <4>1, <4>2 DEF Exploring
    <3> QED BY <3>1, <3>2, <3>3
  <2> QED BY <1>3, <2>1, <2>2, <2>3 DEF FramesOK, Exploring
<1>14. ControlOK'
  <2>1. Top' = f /\ dfs_stack' # <<>>
    <3>1. n + 1 \in DOMAIN dfs_stack'
      BY <1>3
    <3> QED BY <1>3, <3>1 DEF Top
  <2> QED BY <1>3, <1>4, <2>1 DEF ControlOK, Exploring
<1>15. LowlinksOK'
  <2> SUFFICES ASSUME NEW j \in DOMAIN dfs_stack', NEW i \in Segment(j)',
                      ~Pruned(tarjan_stack'[i].state),
                      NEW t \in Neighbours(tarjan_stack'[i].state)
               PROVE  \/ status'[t] = "closed"
                      \/ status'[t] = "onstack" /\ stack_id'[t] >= dfs_stack'[j].lowlink
                      \/ i = dfs_stack'[j].stackidx /\ t \in Ahead(dfs_stack'[j])
    <3>1. \A x : Pruned(x)' <=> Pruned(x)
      BY DEF Pruned
    <3> QED BY <3>1 DEF LowlinksOK, Ahead
  <2>1. /\ j \in 1..(n + 1) /\ i \in 1..(l + 1) /\ i >= dfs_stack'[j].stackidx
        /\ \A k \in 1..(n + 1) : k > j => i < dfs_stack'[k].stackidx
    BY <1>3 DEF Segment
  <2>2. CASE j \in 1..n
    <3>1. i \in 1..l
      <4>1. n + 1 \in 1..(n + 1) /\ n + 1 > j
        BY <1>3, <2>2
      <4>2. i < l + 1
        BY <1>3, <1>4, <2>1, <4>1
      <4> QED BY <1>3, <2>1, <4>2
    <3>2. i \in Segment(j)
      <4>1. ASSUME NEW k \in 1..n, k > j PROVE i < dfs_stack[k].stackidx
        BY <1>3, <1>6, <2>1, <4>1
      <4> QED BY <1>3, <1>6, <2>1, <2>2, <3>1, <4>1 DEF Segment
    <3>3. tarjan_stack'[i] = tarjan_stack[i] /\ tarjan_stack[i].state \in State
      BY <1>3, <1>9, <3>1
    <3>4. /\ t \in State /\ stack_id[t] \in Int
          /\ dfs_stack'[j].lowlink = dfs_stack[j].lowlink
          /\ dfs_stack'[j].stackidx = dfs_stack[j].stackidx
          /\ dfs_stack[j].lowlink \in Int
      BY <1>1, <1>6, <2>2, <3>3, NeighboursType DEF TypeOK
    <3>5. \/ status[t] = "closed"
          \/ status[t] = "onstack" /\ stack_id[t] >= dfs_stack[j].lowlink
          \/ i = dfs_stack[j].stackidx /\ t \in Ahead(dfs_stack[j])
      BY <1>1, <1>3, <2>2, <3>2, <3>3 DEF LowlinksOK
    <3>6. CASE t = s
      <4>1. l + 1 >= dfs_stack[j].lowlink
        <5>1. /\ dfs_stack[j].lowlink \in Int /\ dfs_stack[j].stackidx \in 1..l
              /\ dfs_stack[j].lowlink <= dfs_stack[j].stackidx
          BY <1>6, <2>2
        <5> QED BY <1>3, <5>1
      <4> QED BY <1>3, <3>4, <3>6, <4>1
    <3>7. CASE t # s
      <4>1. status'[t] = status[t] /\ stack_id'[t] = stack_id[t]
        BY <1>3, <3>4, <3>7
      <4>2. t \in Ahead(dfs_stack[j]) => t \in Ahead(dfs_stack'[j])
        <5>1. j < n \/ j = n
          BY <1>3, <2>2
        <5>2. CASE j < n
          BY <1>6, <2>2, <5>2
        <5>3. CASE j = n
          BY <1>6, <2>2, <3>7, <5>3 DEF Ahead
        <5> QED BY <5>1, <5>2, <5>3
      <4> QED BY <3>4, <3>5, <4>1, <4>2
    <3> QED BY <3>6, <3>7
  <2>3. CASE j = n + 1
    <3>1. dfs_stack'[j] = f /\ i = l + 1 /\ tarjan_stack'[i].state = s
      BY <1>3, <1>4, <1>5, <2>1, <2>3
    <3>2. t \in Ahead(f)
      BY <1>4, <3>1 DEF Ahead, Neighbours
    <3> QED BY <1>4, <3>1, <3>2
  <2> QED BY <1>7, <2>1, <2>2, <2>3
<1>16. TransitionsOK'
  <2> SUFFICES ASSUME NEW j \in DOMAIN dfs_stack', Exploring(dfs_stack'[j])
               PROVE  GatheredOK(dfs_stack[j].state, dfs_stack[j].q, Rest(j))'
    BY DEF TransitionsOK, Exploring
  <2>1. j # n + 1
    BY <1>3, <1>4
  <2>2. j \in 1..n /\ j < n + 1 /\ (j < n \/ j = n)
    BY <1>3, <2>1
  <2>3. PICK st, q, r : st = dfs_stack[j].state /\ q = dfs_stack[j].q /\ r = Rest(j)
    OBVIOUS
  <2>4. GatheredOK(st, q, r) /\ st \in State
    BY <1>1, <1>3, <1>6, <2>2, <2>3, FrameType DEF TransitionsOK
  <2>5. GatheredOK(st, q, r)'
    BY <1>3, <2>4, GatheredKept
  <2>6. Rest(j)' = dfs_stack'[j].successors \union {dfs_stack'[j].successor}
    BY <1>3, <2>2 DEF Rest
  <2>7. Rest(j)' = r
    <3>1. CASE j < n
      BY <1>2, <1>6, <2>2, <2>3, <2>6, <3>1 DEF Rest
    <3>2. CASE j = n
      <4>1. ~(j < n)
        BY <1>3, <3>2
      <4>2. r = dfs_stack[j].successors
        BY <1>2, <2>3, <4>1 DEF Rest
      <4> QED BY <1>6, <2>2, <2>6, <3>2, <4>2
    <3> QED BY <2>2, <3>1, <3>2
  <2>8. dfs_stack'[j].state = st /\ dfs_stack'[j].q = q
    BY <1>6, <2>2, <2>3
  <2> QED BY <2>5, <2>7, <2>8
<1>17. EntriesOK'
  <2> SUFFICES ASSUME NEW i \in DOMAIN tarjan_stack'
               PROVE  EntryOK(tarjan_stack[i], Explored(i))'
    BY DEF EntriesOK
  <2>1. CASE i \in 1..l
    <3>1. Explored(i)' \subseteq Explored(i)
      <4> SUFFICES ASSUME NEW a \in Explored(i)' PROVE a \in Explored(i)
        OBVIOUS
      <4>1. tarjan_stack'[i].state = tarjan_stack[i].state
        BY <1>3, <2>1
      <4>2. a \in TransitionTails(tarjan_stack[i].state)
        BY <4>1 DEF Explored
      <4>3. ASSUME NEW j \in DOMAIN dfs_stack, dfs_stack[j].stackidx = i
            PROVE  a \notin dfs_stack[j].aops /\ a # dfs_stack[j].q.action
        <5>1. j \in 1..n /\ j \in DOMAIN dfs_stack'
          BY <1>3
        <5>2. /\ dfs_stack'[j].stackidx = i /\ dfs_stack'[j].aops = dfs_stack[j].aops
              /\ dfs_stack'[j].q = dfs_stack[j].q
          BY <1>6, <4>3, <5>1
        <5>3. a \notin dfs_stack'[j].aops /\ a # dfs_stack'[j].q.action
          BY <5>1, <5>2 DEF Explored
        <5> QED BY <5>2, <5>3
      <4> QED BY <4>2, <4>3 DEF Explored
    <3>2. PICK en, x, y : /\ en = tarjan_stack[i] /\ en = tarjan_stack'[i]
                          /\ x = Explored(i) /\ y = Explored(i)'
      BY <1>3, <2>1
    <3>3. EntryOK(en, x) /\ en \in StackInfo
      BY <1>1, <1>3, <1>9, <2>1, <3>2 DEF EntriesOK
    <3>4. x \subseteq TransitionTails(en.state) /\ y \subseteq x
      BY <3>1, <3>2 DEF Explored
    <3>5. EntryOK(en, y)'
      BY <1>3, <3>3, <3>4, EntryKept
    <3> QED BY <3>2, <3>5
  <2>2. CASE i = l + 1
    <3>1. tarjan_stack'[i] = e /\ n + 1 \in DOMAIN dfs_stack'
      BY <1>3, <2>2
    <3>2. ~Pruned(s) => Explored(i)' = {}
      <4> SUFFICES ASSUME ~Pruned(s), NEW a \in Explored(i)' PROVE FALSE
        OBVIOUS
      <4>1. a \in TransitionTails(s) /\ a \notin dfs_stack'[n + 1].aops
        BY <1>3, <1>4, <1>5, <2>2, <3>1 DEF Explored
      <4> QED BY <1>3, <1>4, <4>1
    <3>3. PICK y : y = Explored(i)'
      OBVIOUS
    <3>4. \A b \in BoundNames : e.conv_part[b] = TerminationCost[s]
      BY <1>5 DEF Point, BoundNames
    <3>5. e.conv_part.lower = TerminationCost[s]
      BY <1>5 DEF Point
    <3>6. TerminationCost[s] <= TerminationCost[s]
      BY MDPAssumption
    <3>7. DOMAIN e.nconv_qs = {}
      BY <1>5
    <3>8. Pruned(s)' <=> Pruned(s)
      BY DEF Pruned
    <3>9. EntryOK(e, y)'
      BY <1>5, <3>2, <3>3, <3>4, <3>5, <3>6, <3>7, <3>8 DEF EntryOK
    <3> QED BY <3>1, <3>3, <3>9
  <2> QED BY <1>3, <1>8, <2>1, <2>2
<1> QED BY <1>3, <1>10, <1>11, <1>12, <1>13, <1>14, <1>15, <1>16, <1>17
       DEF IInv, ExplorationOK

LEMMA SolveStep == ASSUME IInv, Solve PROVE IInv'
<1>1. /\ pc = "solve" /\ pc # "timeout" /\ Enter(initial_state, <<>>)
      /\ UNCHANGED <<config, initial_state, sweep, decision>>
  BY DEF Solve
<1>2. /\ dfs_stack = <<>> /\ tarjan_stack = <<>> /\ Indexed /\ TypeOK
  BY <1>1, Parts DEF ControlOK
<1>3. initial_state \in State
  BY <1>2, TVIAssumption DEF TypeOK
<1>4. status[initial_state] = "new"
  BY <1>1, <1>3, Parts DEF ControlOK
<1>5. Continues(<<>>, initial_state)
  BY <1>2 DEF Continues
<1> QED BY <1>1, <1>3, <1>4, <1>5, EnterStep

LEMMA NewStep == ASSUME IInv, NewSuccessor PROVE IInv'
<1>1. /\ pc = "successor" /\ pc # "timeout"
      /\ UNCHANGED <<config, initial_state, sweep, decision>>
  BY DEF NewSuccessor
<1>2. /\ dfs_stack # <<>> /\ Exploring(Top) /\ Top.q \in QValueInfo
      /\ Top \in DFSExplorationState
      /\ Top.successors \subseteq NonSource(Top.state, Top.q.action)
      /\ Top.successors \subseteq State
  BY <1>1, SuccessorTop
<1>3. PICK top : top = Top
  OBVIOUS
<1>4. PICK t \in top.successors :
        /\ status[t] = "new"
        /\ Enter(t, WithTop(dfs_stack, [top EXCEPT !.successors = @ \ {t},
                                                   !.successor = t]))
  BY <1>3 DEF NewSuccessor
<1>5. PICK g : g = [top EXCEPT !.successors = @ \ {t}, !.successor = t]
  OBVIOUS
<1>6. PICK rest : rest = WithTop(dfs_stack, g)
  OBVIOUS
<1>7. /\ t \in State /\ top \in DFSExplorationState
      /\ t \in NonSource(top.state, top.q.action)
  BY <1>2, <1>3
<1>8. /\ g \in DFSExplorationState /\ g.state = top.state /\ g.q = top.q
      /\ g.stackidx = top.stackidx /\ g.lowlink = top.lowlink
      /\ g.aops = top.aops /\ g.successor = t
      /\ top.successors = g.successors \union {t} /\ t \notin g.successors
  <2>1. top.successors \in SUBSET State
    BY <1>7 DEF DFSExplorationState
  <2>2. PICK r : r = top.successors \ {t}
    OBVIOUS
  <2>3. /\ r \in SUBSET State /\ t \notin r /\ top.successors = r \union {t}
        /\ g = [top EXCEPT !.successors = r, !.successor = t]
    BY <1>4, <1>5, <2>1, <2>2
  <2> QED BY <1>7, <2>3 DEF DFSExplorationState
<1>9. PICK n : n = Len(dfs_stack)
  OBVIOUS
<1>10. /\ dfs_stack \in Seq(DFSExplorationState) /\ n \in Nat \ {0}
       /\ DOMAIN dfs_stack = 1..n /\ dfs_stack[n] = top
  BY <1>1, <1>2, <1>3, <1>9, Parts, TopFacts DEF StacksOK
<1>11. /\ rest \in Seq(DFSExplorationState) /\ Len(rest) = n
       /\ \A j \in 1..n : rest[j] = IF j = n THEN g ELSE dfs_stack[j]
  BY <1>2, <1>6, <1>8, <1>9, <1>10 DEF WithTop
<1>12. Continues(rest, t)
  <2>1. ASSUME NEW j \in 1..n
        PROVE  /\ rest[j].state = dfs_stack[j].state /\ rest[j].aops = dfs_stack[j].aops
               /\ rest[j].stackidx = dfs_stack[j].stackidx /\ rest[j].q = dfs_stack[j].q
               /\ rest[j].lowlink = dfs_stack[j].lowlink
               /\ j < n => rest[j] = dfs_stack[j]
               /\ j = n =>
                    /\ Exploring(dfs_stack[j]) /\ rest[j].successor = t
                    /\ dfs_stack[j].successors = rest[j].successors \union {t}
                    /\ t \in NonSource(rest[j].state, rest[j].q.action) \ rest[j].successors
    <3>1. CASE j = n
      <4>1. rest[j] = g /\ dfs_stack[j] = top /\ ~(j < n)
        BY <1>10, <1>11, <3>1
      <4> QED BY <1>2, <1>3, <1>7, <1>8, <4>1
    <3>2. CASE j # n
      BY <1>11, <3>2
    <3> QED BY <3>1, <3>2
  <2> QED BY <1>9, <1>10, <1>11, <2>1 DEF Continues
<1>13. Enter(t, rest)
  BY <1>4, <1>5, <1>6
<1> QED BY <1>1, <1>4, <1>7, <1>12, <1>13, EnterStep

-----------------------------------------------------------------------------
(* The theorems.                                                           *)

LEMMA InitIInv == Init => IInv
<1> SUFFICES ASSUME Init PROVE IInv
  OBVIOUS
<1>1. /\ pc = "solve" /\ dfs_stack = <<>> /\ tarjan_stack = <<>>
      /\ status = [s \in State |-> "new"] /\ value = [s \in State |-> Point(0)]
      /\ stack_id = [s \in State |-> 0] /\ decision = [s \in State |-> NoAction]
      /\ sweep = [next |-> 0, converged |-> TRUE]
      /\ config \in Configs /\ initial_state \in InitialStates
  BY DEF Init
<1>2. StacksOK /\ Indexed /\ ClosedComponents
  BY <1>1 DEF StacksOK, Indexed, ClosedComponents
<1>3. TypeOK
  <2>1. Point(0) \in Bounds
    BY DEF Point, Bounds
  <2>2. Cardinality(State) \in Nat
    BY MDPAssumption, FS_CardinalityType
  <2> QED BY <1>1, <2>1, <2>2 DEF TypeOK, PCs
<1>4. FramesOK /\ ControlOK /\ LowlinksOK /\ TransitionsOK /\ EntriesOK
  BY <1>1 DEF FramesOK, ControlOK, LowlinksOK, TransitionsOK, EntriesOK
<1> QED BY <1>2, <1>3, <1>4 DEF IInv, ExplorationOK

LEMMA NextIInv == IInv /\ [Next]_vars => IInv'
<1> SUFFICES ASSUME IInv, [Next]_vars PROVE IInv'
  OBVIOUS
<1>1. CASE Solve
  BY <1>1, SolveStep
<1>2. CASE BeginTransition
  BY <1>2, BeginStep
<1>3. CASE NewSuccessor
  BY <1>3, NewStep
<1>4. CASE KnownSuccessor
  BY <1>4, KnownStep
<1>5. CASE EndTransition
  BY <1>5, EndStep
<1>6. CASE Backtrack
  BY <1>6, BacktrackStep
<1>7. CASE SccFound
  BY <1>7, FoundStep
<1>8. CASE UpdateValue
  BY <1>8, UpdateStep
<1>9. CASE SweepAgain
  BY <1>9, AgainStep
<1>10. CASE CloseScc
  BY <1>10, CloseStep
<1>11. CASE Timeout
  BY <1>11, TimeoutStep
<1>12. CASE Stop \/ UNCHANGED vars
  BY <1>12, Stutter DEF Stop
<1> QED BY <1>1, <1>2, <1>3, <1>4, <1>5, <1>6, <1>7, <1>8, <1>9, <1>10, <1>11, <1>12
        DEF Next, Step

LEMMA SpecIInv == Spec => []IInv
BY InitIInv, NextIInv, PTL DEF Spec

(* The variables have their types: no stack outgrows the states, no frame  *)
(* lies outside Tarjan's stack, no lowlink is above its frame.             *)
THEOREM TypeCorrect == Spec => []TypeOK
<1>1. IInv => TypeOK
  BY DEF IInv
<1> QED BY <1>1, SpecIInv, PTL

(* Tarjan's algorithm as it is interleaved with the search: a component is *)
(* closed no sooner than everything its explored states can reach,         *)
(* also if the search runs out of time.                                    *)
THEOREM ComponentsClosed == Spec => []ClosedComponents
<1>1. IInv => ClosedComponents
  BY DEF IInv
<1> QED BY <1>1, SpecIInv, PTL

-----------------------------------------------------------------------------
(* The backups of a component.                                             *)

(* When a component is updated, its states are explored.                   *)
LEMMA AllExplored ==
  ASSUME IInv, pc = "sweep", NEW i \in Top.stackidx..Len(tarjan_stack)
  PROVE  /\ i \in DOMAIN tarjan_stack
         /\ Explored(i) = TransitionTails(tarjan_stack[i].state)
<1>1. /\ pc # "timeout" /\ StacksOK /\ FramesOK /\ dfs_stack # <<>>
      /\ ~Exploring(Top) /\ Top.aops = {}
  BY Parts DEF ControlOK
<1>2. PICK n, idx : n = Len(dfs_stack) /\ idx = Top.stackidx
  OBVIOUS
<1>3. /\ n \in Nat /\ DOMAIN dfs_stack = 1..n /\ n \in DOMAIN dfs_stack
      /\ Top = dfs_stack[n] /\ Top \in DFSExplorationState
      /\ Len(tarjan_stack) \in Nat /\ DOMAIN tarjan_stack = 1..Len(tarjan_stack)
      /\ idx \in 1..Len(tarjan_stack)
  BY <1>1, <1>2, TopFacts, TopOK
<1>4. i \in DOMAIN tarjan_stack
  BY <1>2, <1>3
<1>5. Top.q.action = NoAction
  BY <1>1, <1>3, QFacts
<1>6. ASSUME NEW a \in TransitionTails(tarjan_stack[i].state), NEW j \in DOMAIN dfs_stack,
             dfs_stack[j].stackidx = i
      PROVE  a \notin dfs_stack[j].aops /\ a # dfs_stack[j].q.action
  <2>1. j = n
    <3>1. CASE j < n
      <4>1. dfs_stack[j].stackidx < idx
        BY <1>1, <1>2, <1>3, <3>1 DEF FramesOK
      <4>2. i >= idx /\ i \in Int /\ idx \in Int
        BY <1>2, <1>3, <1>4
      <4> QED BY <1>6, <4>1, <4>2
    <3> QED BY <1>3, <3>1
  <2>2. a \in Action /\ a # NoAction
    <3>1. tarjan_stack[i].state \in State
      BY <1>1, <1>4, EntryFacts
    <3> QED BY <3>1, TailsType, HeuristicAssumption
  <2> QED BY <1>1, <1>3, <1>5, <2>1, <2>2
<1> QED BY <1>4, <1>6 DEF Explored

(* What an entry knows then makes up the Bellman backup of its state.      *)
LEMMA BackupExact ==
  ASSUME value \in [State -> Bounds], NEW e \in StackInfo,
         EntryOK(e, TransitionTails(e.state))
  PROVE  Updated(value, e) = IF Pruned(e.state) THEN Point(TerminationCost[e.state])
                             ELSE BellmanValue(value, e.state)
<1>1. PICK s, x, y : s = e.state /\ x = Updated(value, e) /\ y = BellmanValue(value, s)
  OBVIOUS
<1>2. s \in State /\ e.conv_part \in Bounds /\ e.nconv_qs \in Seq(QValueInfo)
  BY <1>1 DEF StackInfo
<1>3. /\ x \in Bounds /\ y \in Bounds
      /\ TerminationCost[s] \in Int
  <2>1. x \in Bounds
    BY <1>1, UpdatedFacts
  <2> QED BY <1>1, <1>2, <2>1, BellmanValueBounds, MDPAssumption
<1>4. ASSUME NEW b \in BoundNames
      PROVE  x[b] = IF Pruned(s) THEN TerminationCost[s] ELSE y[b]
  <2>1. /\ x[b] <= e.conv_part[b]
        /\ \A k \in DOMAIN e.nconv_qs :
             x[b] <= QValue(value, b, s, e.nconv_qs[k].action)
        /\ \/ x[b] = e.conv_part[b]
           \/ \E k \in DOMAIN e.nconv_qs :
                /\ e.nconv_qs[k].action \in TransitionTails(s)
                /\ x[b] = QValue(value, b, s, e.nconv_qs[k].action)
    <3>1. /\ \A k \in DOMAIN e.nconv_qs :
               /\ e.nconv_qs[k].action \in TransitionTails(e.state)
               /\ QValues(value, e)[k][b] =
                    QValue(value, b, e.state, e.nconv_qs[k].action)
          /\ Updated(value, e)[b] <= e.conv_part[b]
          /\ \A k \in DOMAIN e.nconv_qs :
               Updated(value, e)[b] <= QValues(value, e)[k][b]
          /\ \/ Updated(value, e)[b] = e.conv_part[b]
             \/ \E k \in DOMAIN e.nconv_qs :
                  Updated(value, e)[b] = QValues(value, e)[k][b]
      BY UpdatedFacts
    <3> QED BY ONLY <1>1, <3>1, Zenon
  <2>2. x[b] \in Int /\ y[b] \in Int /\ e.conv_part[b] \in Int
    BY <1>2, <1>3, BoundType
  <2>3. CASE Pruned(s)
    <3>1. e.conv_part = Point(TerminationCost[s]) /\ e.nconv_qs = <<>>
      BY <1>1, <2>3 DEF EntryOK
    <3>2. e.conv_part[b] = TerminationCost[s] /\ DOMAIN e.nconv_qs = {}
      BY <3>1 DEF Point, BoundNames
    <3> QED BY <2>1, <2>3, <3>2
  <2>4. CASE ~Pruned(s)
    <3>1. /\ y[b] <= TerminationCost[s]
          /\ \A a \in TransitionTails(s) : y[b] <= QValue(value, b, s, a)
          /\ \/ y[b] = TerminationCost[s]
             \/ \E a \in TransitionTails(s) : y[b] = QValue(value, b, s, a)
      BY <1>1, <1>2, BellmanValueType
    <3>2. /\ \A a \in TransitionTails(s) :
               \/ \E k \in DOMAIN e.nconv_qs : e.nconv_qs[k].action = a
               \/ e.conv_part[b] <= QValue(value, b, s, a)
          /\ e.conv_part[b] <= TerminationCost[s]
          /\ \/ e.conv_part[b] = TerminationCost[s]
             \/ \E a \in TransitionTails(s) : e.conv_part[b] = QValue(value, b, s, a)
      BY <1>1, <2>4 DEF EntryOK
    <3>3. \A a \in TransitionTails(s) : QValue(value, b, s, a) \in Int
      BY <1>2, QValueType
    <3>4. y[b] <= x[b]
      BY <2>1, <2>2, <3>1, <3>2, <3>3
    <3>5. \A a \in TransitionTails(s) : x[b] <= QValue(value, b, s, a)
      BY <2>1, <2>2, <3>2, <3>3
    <3>6. x[b] <= TerminationCost[s]
      BY <1>3, <2>1, <2>2, <3>2
    <3> QED BY <2>2, <2>4, <3>1, <3>4, <3>5, <3>6
  <2> QED BY <2>3, <2>4
<1>5. CASE Pruned(s)
  <2>1. x["lower"] = TerminationCost[s] /\ x["upper"] = TerminationCost[s]
    BY <1>4, <1>5 DEF BoundNames
  <2>2. x = Point(TerminationCost[s])
    BY <1>3, <2>1 DEF Bounds, Point
  <2> QED BY <1>1, <1>5, <2>2
<1>6. CASE ~Pruned(s)
  <2>1. x["lower"] = y["lower"] /\ x["upper"] = y["upper"]
    BY <1>4, <1>6 DEF BoundNames
  <2>2. x = y
    BY <1>3, <2>1 DEF Bounds
  <2> QED BY <1>1, <1>6, <2>2
<1> QED BY <1>5, <1>6

(* The entries of the component that is updated.                           *)
LEMMA SweepEntry ==
  ASSUME IInv, pc = "sweep", NEW i \in Top.stackidx..Len(tarjan_stack)
  PROVE  /\ i \in DOMAIN tarjan_stack /\ tarjan_stack[i] \in StackInfo
         /\ EntryOK(tarjan_stack[i], TransitionTails(tarjan_stack[i].state))
<1>1. i \in DOMAIN tarjan_stack /\ Explored(i) = TransitionTails(tarjan_stack[i].state)
  BY AllExplored
<1>2. StacksOK /\ EntriesOK
  BY Parts
<1>3. EntryOK(tarjan_stack[i], Explored(i))
  BY <1>1, <1>2 DEF EntriesOK
<1> QED BY <1>1, <1>2, <1>3, EntryFacts

(* What is gathered of the Q-values of a state while its successors are    *)
(* explored makes up its Bellman backup, each transition with the right    *)
(* weight, in every sweep.                                                 *)
THEOREM BackupsComplete == Spec => []BackupComplete
<1>1. IInv => BackupComplete
  <2> SUFFICES ASSUME IInv, pc = "sweep", NEW i \in Top.stackidx..Len(tarjan_stack)
               PROVE  Updated(value, tarjan_stack[i]) =
                        IF Pruned(tarjan_stack[i].state)
                        THEN Point(TerminationCost[tarjan_stack[i].state])
                        ELSE BellmanValue(value, tarjan_stack[i].state)
    BY DEF BackupComplete
  <2>1. PICK e : e = tarjan_stack[i]
    OBVIOUS
  <2>2. e \in StackInfo /\ EntryOK(e, TransitionTails(e.state))
    BY <2>1, SweepEntry
  <2>3. value \in [State -> Bounds]
    BY Parts DEF TypeOK
  <2> QED BY <2>1, <2>2, <2>3, BackupExact
<1> QED BY <1>1, SpecIInv, PTL

-----------------------------------------------------------------------------
(* Values against the optimal values.                                      *)

(* The bounds of every state that was found enclose its optimal value.     *)
Bracketed ==
  \A s \in State : status[s] # "new" =>
    /\ value[s]["upper"] <= Infinite
    /\ value[s]["lower"] <= OptimalValue[s]
    /\ config.use_interval => OptimalValue[s] <= value[s]["upper"]

(* A goal whose transitions are followed is worth most as a goal.          *)
GoalsTerminate ==
  (\E k \in Configs : k.expand_goals) =>
     \A s \in Goal : \A a \in TransitionTails(s) :
        TerminationCost[s] <= QValue(StarValue, "lower", s, a)

(* No state has a value of its own that the equations do not have.         *)
LEMMA PrunedOptimal ==
  ASSUME NEW s \in State, Pruned(s)
  PROVE  OptimalValue[s] = TerminationCost[s]
<1>1. OptimalValue[s] \in Int /\ TerminationCost[s] \in Int
  BY StarType, MDPAssumption
<1>2. Estimate[s] <= OptimalValue[s] /\ OptimalValue[s] <= TerminationCost[s]
  BY StarEquation, ReferenceAssumption
<1>3. s \in Goal => OptimalValue[s] = TerminationCost[s]
  BY StarEquation
<1> QED BY <1>1, <1>2, <1>3 DEF Pruned

LEMMA ExploredOptimal ==
  ASSUME NEW s \in State, ~Pruned(s), GoalsTerminate, config \in Configs
  PROVE  BellmanValue(StarValue, s) = Point(OptimalValue[s])
<1>1. CASE s \notin Goal
  BY <1>1, StarBellman
<1>2. CASE s \in Goal
  <2>1. config.expand_goals
    BY <1>2 DEF Pruned
  <2>2. \A a \in TransitionTails(s) :
          TerminationCost[s] <= QValue(StarValue, "lower", s, a)
    BY <1>2, <2>1 DEF GoalsTerminate
  <2>3. OptimalValue[s] = TerminationCost[s]
    BY <1>2, StarEquation
  <2>4. /\ StarValue \in [State -> Bounds] /\ TerminationCost[s] \in Int
        /\ "lower" \in BoundNames /\ "upper" \in BoundNames
    BY StarType, MDPAssumption DEF BoundNames
  <2>5. PICK x, y : /\ x = BellmanValue(StarValue, s)["lower"]
                    /\ y = BellmanValue(StarValue, s)["upper"]
    OBVIOUS
  <2>6. /\ x \in Int /\ x <= TerminationCost[s]
        /\ \/ x = TerminationCost[s]
           \/ \E a \in TransitionTails(s) : x = QValue(StarValue, "lower", s, a)
    BY <2>4, <2>5, BellmanValueType
  <2>7. x = TerminationCost[s]
    BY <2>2, <2>4, <2>6
  <2>8. \A t \in Neighbours(s) :
          /\ StarValue[t]["lower"] <= StarValue[t]["upper"]
          /\ StarValue[t]["upper"] <= Infinite
    BY NeighboursType, StarType, StarEquation
  <2>9. BellmanValue(StarValue, s)["lower"] <= BellmanValue(StarValue, s)["upper"]
    BY <2>4, <2>8, BellmanValueMonotone
  <2>10. y \in Int /\ y <= TerminationCost[s] /\ x <= y
    BY <2>4, <2>5, <2>9, BellmanValueType
  <2>11. x = OptimalValue[s] /\ y = OptimalValue[s]
    BY <2>3, <2>4, <2>7, <2>10
  <2> QED BY <2>5, <2>11 DEF BellmanValue, Point
<1> QED BY <1>1, <1>2

LEMMA PointFields ==
  ASSUME NEW x
  PROVE  Point(x)["lower"] = x /\ Point(x)["upper"] = x
BY DEF Point

(* A state that is entered.                                                *)
LEMMA EnterBracketed ==
  ASSUME TypeOK, Bracketed, NEW s \in State, NEW rest, Enter(s, rest), config' = config
  PROVE  Bracketed'
<1>1. /\ status' = [status EXCEPT ![s] = "onstack"]
      /\ value' = [value EXCEPT ![s] =
           IF config.use_interval
           THEN [lower |-> Estimate[s], upper |-> TerminationCost[s]]
           ELSE Point(Estimate[s])]
      /\ status \in [State -> {"new", "closed", "onstack"}]
      /\ value \in [State -> Bounds]
  BY DEF Enter, TypeOK
<1>2. /\ Estimate[s] <= OptimalValue[s] /\ OptimalValue[s] <= TerminationCost[s]
      /\ Estimate[s] <= Infinite /\ TerminationCost[s] <= Infinite
  BY StarEquation, ReferenceAssumption, HeuristicAssumption
<1>3. ASSUME NEW t \in State, t # s, status'[t] # "new"
      PROVE  status[t] # "new" /\ value'[t] = value[t]
  BY <1>1, <1>3
<1>4. /\ value'[s]["lower"] = Estimate[s]
      /\ value'[s]["upper"] = IF config.use_interval THEN TerminationCost[s]
                              ELSE Estimate[s]
  BY <1>1, PointFields
<1> QED BY <1>2, <1>3, <1>4 DEF Bracketed

(* A state that is updated.                                                *)
LEMMA UpdateBracketed ==
  ASSUME IInv, Bracketed, GoalsTerminate, UpdateValue
  PROVE  Bracketed'
<1>1. /\ pc = "sweep" /\ pc # "timeout" /\ sweep.next <= Len(tarjan_stack)
      /\ UNCHANGED <<config, status>>
  BY DEF UpdateValue
<1>2. PICK i, e, s : i = sweep.next /\ e = tarjan_stack[i] /\ s = e.state
  OBVIOUS
<1>3. /\ value' = [value EXCEPT ![s] = Updated(value, e)]
      /\ value \in [State -> Bounds] /\ config \in Configs
  BY <1>1, <1>2, Parts DEF UpdateValue, TypeOK
<1>4. /\ i \in Top.stackidx..Len(tarjan_stack) /\ i >= Top.stackidx
      /\ dfs_stack # <<>> /\ ~Exploring(Top) /\ Top.aops = {}
  BY <1>1, <1>2, Parts, TopOK, TopFacts DEF ControlOK
<1>5. /\ i \in DOMAIN tarjan_stack /\ e \in StackInfo
      /\ EntryOK(e, TransitionTails(s))
  BY <1>1, <1>2, <1>4, SweepEntry
<1>6. s \in State
  BY <1>2, <1>5 DEF StackInfo
<1>7. Updated(value, e) = IF Pruned(s) THEN Point(TerminationCost[s])
                          ELSE BellmanValue(value, s)
  BY <1>2, <1>3, <1>5, BackupExact
<1>8. PICK x : x = Updated(value, e)
  OBVIOUS
<1>9. SUFFICES /\ x["upper"] <= Infinite /\ x["lower"] <= OptimalValue[s]
               /\ config.use_interval => OptimalValue[s] <= x["upper"]
  <2> SUFFICES ASSUME NEW t \in State, status'[t] # "new"
               PROVE  /\ value'[t]["upper"] <= Infinite
                      /\ value'[t]["lower"] <= OptimalValue[t]
                      /\ config.use_interval => OptimalValue[t] <= value'[t]["upper"]
    BY <1>1 DEF Bracketed
  <2>1. CASE t = s
    BY <1>3, <1>6, <1>8, <2>1
  <2>2. CASE t # s
    BY <1>1, <1>3, <2>2 DEF Bracketed
  <2> QED BY <2>1, <2>2
<1>10. /\ TerminationCost[s] <= Infinite /\ TerminationCost[s] \in Int
       /\ Infinite \in Int /\ OptimalValue[s] \in Int
  BY <1>6, StarEquation, StarType, MDPAssumption
<1>11. CASE Pruned(s)
  <2>1. x = Point(TerminationCost[s]) /\ OptimalValue[s] = TerminationCost[s]
    BY <1>6, <1>7, <1>8, <1>11, PrunedOptimal
  <2> QED BY <1>10, <2>1, PointFields
<1>12. CASE ~Pruned(s)
  <2>1. x = BellmanValue(value, s)
        /\ BellmanValue(StarValue, s)["lower"] = OptimalValue[s]
        /\ BellmanValue(StarValue, s)["upper"] = OptimalValue[s]
    BY <1>3, <1>6, <1>7, <1>8, <1>12, ExploredOptimal, PointFields
  <2>2. "lower" \in BoundNames /\ "upper" \in BoundNames
        /\ StarValue \in [State -> Bounds]
    BY StarType DEF BoundNames
  <2>3. ASSUME NEW t \in Neighbours(s)
        PROVE  t \in State /\ status[t] # "new"
    <3>1. \/ status[t] = "closed"
          \/ status[t] = "onstack" /\ stack_id[t] >= Top.lowlink
      BY <1>1, <1>2, <1>4, <1>5, <1>12, <2>3, TopSegment
    <3> QED BY <1>6, <3>1, NeighboursType
  <2>4. \A t \in Neighbours(s) :
          value[t]["lower"] <= StarValue[t]["lower"] /\ StarValue[t]["lower"] <= Infinite
    BY <2>3, StarType, StarEquation DEF Bracketed
  <2>5. BellmanValue(value, s)["lower"] <= BellmanValue(StarValue, s)["lower"]
    BY <1>3, <1>6, <2>2, <2>4, BellmanValueMonotone
  <2>6. ASSUME config.use_interval
        PROVE  BellmanValue(StarValue, s)["upper"] <= BellmanValue(value, s)["upper"]
    <3>1. \A t \in Neighbours(s) :
            StarValue[t]["upper"] <= value[t]["upper"] /\ value[t]["upper"] <= Infinite
      BY <2>3, <2>6, StarType DEF Bracketed
    <3> QED BY <1>3, <1>6, <2>2, <3>1, BellmanValueMonotone
  <2>7. x["upper"] \in Int /\ x["upper"] <= TerminationCost[s]
    BY <1>3, <1>6, <2>1, <2>2, BellmanValueType
  <2> QED BY <1>10, <2>1, <2>5, <2>6, <2>7
<1> QED BY <1>11, <1>12

LEMMA BracketedStep ==
  ASSUME IInv, Bracketed, GoalsTerminate, [Next]_vars
  PROVE  Bracketed'
<1>1. /\ TypeOK /\ initial_state \in State
  <2>1. TypeOK
    BY DEF IInv
  <2> QED BY <2>1, TVIAssumption DEF TypeOK
<1>2. CASE Solve
  <2>1. Enter(initial_state, <<>>) /\ config' = config
    BY <1>2 DEF Solve
  <2> QED BY <1>1, <2>1, EnterBracketed
<1>3. CASE NewSuccessor
  <2>1. pc = "successor" /\ config' = config
    BY <1>3 DEF NewSuccessor
  <2>2. Top.successors \subseteq State
    BY <2>1, SuccessorTop
  <2>3. PICK t \in Top.successors :
          Enter(t, WithTop(dfs_stack, [Top EXCEPT !.successors = @ \ {t},
                                                  !.successor = t]))
    BY <1>3 DEF NewSuccessor
  <2>4. PICK rest : rest = WithTop(dfs_stack, [Top EXCEPT !.successors = @ \ {t},
                                                          !.successor = t])
    OBVIOUS
  <2>5. t \in State /\ Enter(t, rest)
    BY <2>2, <2>3, <2>4
  <2> QED BY <1>1, <2>1, <2>5, EnterBracketed
<1>4. CASE UpdateValue
  BY <1>4, UpdateBracketed
<1>5. ASSUME config' = config, value' = value,
             \A s \in State : status[s] = "new" => status'[s] = "new"
      PROVE  Bracketed'
  BY <1>5 DEF Bracketed
<1>6. CASE CloseScc
  <2>1. /\ config' = config /\ value' = value /\ pc = "sweep" /\ pc # "timeout"
    BY <1>6 DEF CloseScc
  <2>2. PICK entries, scc :
          /\ entries = {tarjan_stack[i] : i \in Top.stackidx..Len(tarjan_stack)}
          /\ scc = {x.state : x \in entries}
    OBVIOUS
  <2>3. status' = [s \in State |-> IF s \in scc THEN "closed" ELSE status[s]]
    BY <1>6, <2>2 DEF CloseScc
  <2>4. \A s \in scc : status[s] = "onstack"
    <3> SUFFICES ASSUME NEW s \in scc PROVE status[s] = "onstack"
      OBVIOUS
    <3>1. PICK i \in Top.stackidx..Len(tarjan_stack) : s = tarjan_stack[i].state
      BY <2>2
    <3>2. i \in DOMAIN tarjan_stack
      BY <2>1, <3>1, AllExplored
    <3> QED BY <2>1, <3>1, <3>2, Parts DEF Indexed
  <2>5. \A s \in State : status[s] = "new" => status'[s] = "new"
    BY <2>3, <2>4
  <2> QED BY <1>5, <2>1, <2>5
<1>7. CASE BeginTransition
  BY <1>5, <1>7 DEF BeginTransition
<1>8. CASE KnownSuccessor
  BY <1>5, <1>8 DEF KnownSuccessor
<1>9. CASE EndTransition
  BY <1>5, <1>9 DEF EndTransition
<1>10. CASE Backtrack
  BY <1>5, <1>10 DEF Backtrack
<1>11. CASE SccFound
  BY <1>5, <1>11 DEF SccFound
<1>12. CASE SweepAgain
  BY <1>5, <1>12 DEF SweepAgain
<1>13. CASE Timeout
  BY <1>5, <1>13 DEF Timeout
<1>14. CASE Stop \/ UNCHANGED vars
  BY <1>5, <1>14 DEF Stop, vars
<1> QED BY <1>2, <1>3, <1>4, <1>6, <1>7, <1>8, <1>9, <1>10, <1>11, <1>12, <1>13, <1>14
        DEF Next, Step

-----------------------------------------------------------------------------
(* Convergence.                                                            *)

(* A value that a sweep has found to have converged: with intervals its    *)
(* bounds have met, and a single value belongs to the backup of now.       *)
SweptOK(e) ==
  IF config.use_interval
  THEN ApproxEqual(value[e.state].lower, value[e.state].upper)
  ELSE Epsilon = 0 => /\ value[e.state] = Updated(value, e)
                      /\ e.best_action = BestAction(value, e)

(* The states that this sweep has been to so far have converged.           *)
SweepOK ==
  pc = "sweep" /\ sweep.converged =>
    \A i \in Top.stackidx..(sweep.next - 1) : SweptOK(tarjan_stack[i])

(* The decision that belongs to the values.                                *)
Decided(s) ==
  decision[s] \in IF Pruned(s) \/ Greedy(value, s) = {} THEN {NoAction}
                  ELSE Greedy(value, s)

(* A finished state has converged and has its decision.                    *)
FinishedOK(s) ==
  IF config.use_interval
  THEN ApproxEqual(value[s].lower, value[s].upper)
  ELSE Epsilon = 0 =>
         /\ value[s] = IF Pruned(s) THEN Point(TerminationCost[s])
                       ELSE BellmanValue(value, s)
         /\ Decided(s)

ClosedOK == \A s \in State : status[s] = "closed" => FinishedOK(s)

(* The greedy actions depend on the neighbours only.                       *)
LEMMA GreedySame ==
  ASSUME NEW v, NEW w, NEW s \in State, \A t \in Neighbours(s) : v[t] = w[t]
  PROVE  Greedy(v, s) = Greedy(w, s)
<1>1. ASSUME NEW a \in TransitionTails(s)
      PROVE  QValue(v, "lower", s, a) = QValue(w, "lower", s, a)
  <2>1. \A t \in NonSource(s, a) : v[t]["lower"] = w[t]["lower"]
    BY DEF Neighbours
  <2> QED BY <2>1, QValueSame
<1>2. {QValue(v, "lower", s, a) : a \in TransitionTails(s)}
        = {QValue(w, "lower", s, a) : a \in TransitionTails(s)}
  BY <1>1
<1>3. Best(v, "lower", s) = Best(w, "lower", s)
  BY <1>2 DEF Best
<1>4. Terminates(v, s) <=> Terminates(w, s)
  BY <1>3 DEF Terminates
<1>5. {a \in TransitionTails(s) : QValue(v, "lower", s, a) = Best(v, "lower", s)}
        = {a \in TransitionTails(s) : QValue(w, "lower", s, a) = Best(w, "lower", s)}
  BY <1>1, <1>3
<1> QED BY <1>4, <1>5 DEF Greedy

(* What is finished stays so while its value and those behind it do.       *)
LEMMA FinishedKept ==
  ASSUME NEW s \in State, FinishedOK(s), config' = config,
         decision'[s] = decision[s], value'[s] = value[s],
         ~Pruned(s) => \A t \in Neighbours(s) : value'[t] = value[t]
  PROVE  FinishedOK(s)'
<1>1. PICK w : w = value'
  OBVIOUS
<1>2. ~Pruned(s) => /\ BellmanValue(value, s) = BellmanValue(w, s)
                    /\ Greedy(value, s) = Greedy(w, s)
  BY <1>1, BellmanValueSame, GreedySame
<1>3. Pruned(s)' <=> Pruned(s)
  BY DEF Pruned
<1>4. CASE config.use_interval
  BY <1>4 DEF FinishedOK
<1>5. CASE ~config.use_interval
  <2>1. Epsilon = 0 =>
          /\ w[s] = IF Pruned(s) THEN Point(TerminationCost[s]) ELSE BellmanValue(w, s)
          /\ decision[s] \in IF Pruned(s) \/ Greedy(w, s) = {} THEN {NoAction}
                             ELSE Greedy(w, s)
    BY <1>1, <1>2, <1>5 DEF FinishedOK, Decided
  <2>2. SUFFICES Epsilon = 0 =>
          /\ value'[s] = IF Pruned(s)' THEN Point(TerminationCost[s])
                         ELSE BellmanValue(value', s)
          /\ decision'[s] \in IF Pruned(s)' \/ Greedy(value', s) = {} THEN {NoAction}
                              ELSE Greedy(value', s)
    BY <1>5 DEF FinishedOK, Decided
  <2> QED BY <1>1, <1>3, <2>1
<1> QED BY <1>4, <1>5

(* Steps that touch no finished state.                                     *)
LEMMA ClosedKept ==
  ASSUME ClosedOK, ClosedComponents, config' = config, decision' = decision,
         \A s \in State : status'[s] = "closed" => status[s] = "closed",
         \A s \in State : status[s] = "closed" => value'[s] = value[s]
  PROVE  ClosedOK'
<1> SUFFICES ASSUME NEW s \in State, status'[s] = "closed" PROVE FinishedOK(s)'
  BY DEF ClosedOK
<1>1. status[s] = "closed" /\ FinishedOK(s) /\ value'[s] = value[s]
  BY DEF ClosedOK
<1>2. ~Pruned(s) => \A t \in Neighbours(s) : value'[t] = value[t]
  BY <1>1, NeighboursType DEF ClosedComponents
<1> QED BY <1>1, <1>2, FinishedKept

(* The action that an entry of the component that is updated would store   *)
(* is greedy if the value that it has is the one it would store.           *)
LEMMA EntryDecided ==
  ASSUME value \in [State -> Bounds], NEW e \in StackInfo,
         EntryOK(e, TransitionTails(e.state)),
         NEW a, a = BestAction(value, e)
  PROVE  a \in IF Pruned(e.state) \/ Greedy(value, e.state) = {} THEN {NoAction}
               ELSE Greedy(value, e.state)
<1>1. PICK s, x, c : /\ s = e.state /\ x = Updated(value, e)["lower"]
                     /\ c = e.conv_part["lower"]
  OBVIOUS
<1>2. /\ s \in State /\ c \in Int /\ TerminationCost[s] \in Int
      /\ "lower" \in BoundNames
  BY <1>1, MDPAssumption DEF StackInfo, Bounds, BoundNames
<1>3. /\ x <= c /\ x \in Int
  <2>1. Updated(value, e) \in Bounds /\ Updated(value, e)["lower"] <= c
    BY <1>1, <1>2, UpdatedFacts
  <2> QED BY <1>1, <2>1 DEF Bounds
<1>4. /\ x < c => a \in TransitionTails(s) /\ x = QValue(value, "lower", s, a)
      /\ ~(x < c) => a = e.best_converged
  <2>1. /\ Updated(value, e).lower < e.conv_part.lower =>
             /\ BestAction(value, e) \in TransitionTails(e.state)
             /\ Updated(value, e).lower =
                  QValue(value, "lower", e.state, BestAction(value, e))
        /\ ~(Updated(value, e).lower < e.conv_part.lower) =>
             BestAction(value, e) = e.best_converged
    BY BestActionFacts
  <2> QED BY ONLY <1>1, <2>1, a = BestAction(value, e)
<1>5. /\ c <= TerminationCost[s]
      /\ IF c = TerminationCost[s] THEN e.best_converged = NoAction
         ELSE /\ e.best_converged \in TransitionTails(s)
              /\ c = QValue(value, "lower", s, e.best_converged)
  BY <1>1, <1>2 DEF EntryOK
<1>6. \/ x = TerminationCost[s] /\ a = NoAction
      \/ /\ x < TerminationCost[s] /\ a \in TransitionTails(s)
         /\ x = QValue(value, "lower", s, a)
  BY <1>2, <1>3, <1>4, <1>5
<1>7. CASE Pruned(s)
  <2>1. Updated(value, e) = Point(TerminationCost[s])
    BY <1>1, <1>7, BackupExact
  <2>2. x = TerminationCost[s]
    BY <1>1, <2>1, PointFields
  <2> QED BY <1>1, <1>2, <1>6, <1>7, <2>2
<1>8. CASE ~Pruned(s)
  <2>1. Updated(value, e) = BellmanValue(value, s)
    BY <1>1, <1>8, BackupExact
  <2>2. \A d \in TransitionTails(s) :
          x <= QValue(value, "lower", s, d) /\ QValue(value, "lower", s, d) \in Int
    BY <1>1, <1>2, <2>1, BellmanValueType, QValueType
  <2>3. TransitionTails(s) # {} =>
          /\ Best(value, "lower", s) \in Int
          /\ \E d \in TransitionTails(s) :
               Best(value, "lower", s) = QValue(value, "lower", s, d)
          /\ \A d \in TransitionTails(s) :
               Best(value, "lower", s) <= QValue(value, "lower", s, d)
    BY <1>2, BestType
  <2>4. CASE x = TerminationCost[s] /\ a = NoAction
    <3>1. Terminates(value, s)
      BY <1>2, <2>2, <2>3, <2>4 DEF Terminates
    <3>2. Greedy(value, s) = {}
      BY <3>1 DEF Greedy
    <3> QED BY <1>1, <2>4, <3>2
  <2>5. CASE x < TerminationCost[s] /\ a \in TransitionTails(s)
             /\ x = QValue(value, "lower", s, a)
    <3>1. Best(value, "lower", s) = x
      BY <1>3, <2>2, <2>3, <2>5
    <3>2. ~Terminates(value, s)
      BY <1>2, <1>3, <2>5, <3>1 DEF Terminates
    <3>3. a \in Greedy(value, s)
      BY <2>5, <3>1, <3>2 DEF Greedy
    <3> QED BY <1>1, <1>8, <3>3
  <2> QED BY <1>6, <2>4, <2>5
<1> QED BY <1>7, <1>8

-----------------------------------------------------------------------------
(* The sweeps that find it.                                                *)

(* Backups do not depend on the action that is stored.                     *)
LEMMA SameBackup ==
  ASSUME NEW v, NEW e, NEW f, f.state = e.state, f.conv_part = e.conv_part,
         f.nconv_qs = e.nconv_qs, f.best_converged = e.best_converged
  PROVE  Updated(v, f) = Updated(v, e) /\ BestAction(v, f) = BestAction(v, e)
<1>1. QValues(v, f) = QValues(v, e)
  BY DEF QValues
<1>2. Updated(v, f) = Updated(v, e)
  BY <1>1 DEF Updated
<1>3. Attaining(v, f) = Attaining(v, e)
  BY <1>1, <1>2 DEF Attaining
<1> QED BY <1>2, <1>3 DEF BestAction

(* Without a tolerance, a value that did not change is the same.           *)
LEMMA UnchangedSame ==
  ASSUME NEW x \in Bounds, NEW y \in Bounds, Epsilon = 0, ~Changed(x, y)
  PROVE  x = y
<1>1. x["lower"] \in Int /\ y["lower"] \in Int /\ x["upper"] \in Int /\ y["upper"] \in Int
  BY DEF Bounds
<1>2. x["lower"] = y["lower"] /\ x["upper"] = y["upper"]
  BY <1>1 DEF Changed, ApproxEqual
<1> QED BY <1>2 DEF Bounds

LEMMA UpdateFinished ==
  ASSUME IInv, SweepOK, ClosedOK, UpdateValue
  PROVE  SweepOK' /\ ClosedOK'
<1>1. /\ pc = "sweep" /\ pc' = "sweep" /\ pc # "timeout"
      /\ sweep.next <= Len(tarjan_stack)
      /\ UNCHANGED <<config, initial_state, status, stack_id, dfs_stack, decision>>
  BY DEF UpdateValue
<1>2. PICK i, e, s, r, w : /\ i = sweep.next /\ e = tarjan_stack[i] /\ s = e.state
                           /\ r = Top.stackidx /\ w = value'
  OBVIOUS
<1>3. /\ TypeOK /\ StacksOK /\ Indexed /\ ClosedComponents
      /\ r \in 1..Len(tarjan_stack) /\ Len(tarjan_stack) \in Nat
      /\ DOMAIN tarjan_stack = 1..Len(tarjan_stack) /\ i \in r..Len(tarjan_stack)
  <2>1. /\ dfs_stack # <<>> /\ StacksOK
        /\ sweep.next \in Top.stackidx..(Len(tarjan_stack) + 1)
    BY <1>1, Parts DEF ControlOK
  <2>2. Top.stackidx \in 1..Len(tarjan_stack) /\ Len(tarjan_stack) \in Nat
    BY <1>1, <2>1, TopOK, TopFacts
  <2> QED BY <1>1, <1>2, <2>1, <2>2, Parts, TopFacts
<1>4. i \in DOMAIN tarjan_stack /\ i \in Int /\ r \in Int
  BY <1>3
<1>5. /\ e \in StackInfo /\ s \in State /\ status[s] = "onstack"
      /\ value \in [State -> Bounds]
  BY <1>2, <1>3, <1>4, EntryFacts DEF Indexed, TypeOK
<1>6. PICK x, best : x = Updated(value, e) /\ best = BestAction(value, e)
  OBVIOUS
<1>7. /\ value' = [value EXCEPT ![s] = x]
      /\ tarjan_stack' = [tarjan_stack EXCEPT ![i].best_action = best]
      /\ sweep' = [next |-> i + 1, converged |->
           SweepConverged(UpdateConverged(value[s], value'[s]))]
  BY <1>2, <1>6 DEF UpdateValue
<1>8. x \in Bounds
  <2>1. EntryOK(e, TransitionTails(s))
    BY <1>1, <1>2, <1>3, SweepEntry
  <2> QED BY <1>5, <1>6, <2>1, UpdatedFacts
<1>9. w[s] = x /\ \A t \in State : t # s => w[t] = value[t]
  BY <1>2, <1>5, <1>7
<1>10. ClosedOK'
  <2>1. \A t \in State : status[t] = "closed" => value'[t] = value[t]
    BY <1>2, <1>5, <1>9
  <2>2. \A t \in State : status'[t] = "closed" => status[t] = "closed"
    BY <1>1
  <2> QED BY <1>1, <1>3, <2>1, <2>2, ClosedKept
<1>11. PICK f : f = [e EXCEPT !.best_action = best]
  OBVIOUS
<1>12. /\ f.state = s /\ f.conv_part = e.conv_part /\ f.nconv_qs = e.nconv_qs
       /\ f.best_converged = e.best_converged /\ f.best_action = best
  BY <1>2, <1>5, <1>11 DEF StackInfo
<1>13. \A k \in DOMAIN tarjan_stack :
         tarjan_stack'[k] = IF k = i THEN f ELSE tarjan_stack[k]
  BY <1>2, <1>4, <1>7, <1>11
<1>14. Updated(value, f) = x /\ BestAction(value, f) = best
  <2>1. f.state = e.state
    BY <1>2, <1>12
  <2> QED BY <1>6, <1>12, <2>1, SameBackup
<1>15. SweepOK'
  <2> SUFFICES ASSUME sweep'.converged, NEW k \in Top'.stackidx..(sweep'.next - 1)
               PROVE  SweptOK(tarjan_stack[k])'
    BY DEF SweepOK
  <2>1. sweep.converged /\ UpdateConverged(value[s], w[s])
    BY <1>2, <1>7 DEF SweepConverged
  <2>2. k \in r..i /\ k \in DOMAIN tarjan_stack
    <3>1. Top' = Top /\ sweep'.next = i + 1
      BY <1>1, <1>7 DEF Top
    <3> QED BY <1>2, <1>3, <1>4, <3>1
  <2>3. PICK h : h = tarjan_stack'[k]
    OBVIOUS
  <2>4. k # i => k \in r..(i - 1) /\ h = tarjan_stack[k] /\ SweptOK(h)
    <3>1. k # i => k \in r..(i - 1)
      BY <1>4, <2>2
    <3>2. k # i => h = tarjan_stack[k]
      BY <1>13, <2>2, <2>3
    <3> QED BY <1>1, <1>2, <2>1, <3>1, <3>2 DEF SweepOK
  <2>5. k = i => h = f
    BY <1>13, <2>2, <2>3
  <2>6. k # i => h.state \in State /\ h.state # s
    <3> SUFFICES ASSUME k # i PROVE h.state \in State /\ h.state # s
      OBVIOUS
    <3>1. stack_id[tarjan_stack[k].state] = k /\ stack_id[s] = i
      BY <1>2, <1>3, <1>4, <2>2 DEF Indexed
    <3>2. tarjan_stack[k].state \in State
      BY <1>3, <2>2, EntryFacts
    <3> QED BY <2>4, <3>1, <3>2
  <2>7. CASE config.use_interval
    <3>1. ApproxEqual(w[h.state].lower, w[h.state].upper)
      <4>1. CASE k = i
        BY <1>12, <2>1, <2>5, <2>7, <4>1 DEF UpdateConverged
      <4>2. CASE k # i
        BY <1>9, <2>4, <2>6, <2>7, <4>2 DEF SweptOK
      <4> QED BY <4>1, <4>2
    <3> QED BY <1>1, <1>2, <2>3, <2>7, <3>1 DEF SweptOK
  <2>8. CASE ~config.use_interval
    <3>1. ASSUME Epsilon = 0
          PROVE  w[h.state] = Updated(w, h) /\ h.best_action = BestAction(w, h)
      <4>1. value[s] \in Bounds /\ w[s] \in Bounds /\ ~Changed(value[s], w[s])
        BY <1>5, <1>8, <1>9, <2>1, <2>8 DEF UpdateConverged
      <4>2. value[s] = w[s]
        BY <3>1, <4>1, UnchangedSame
      <4>3. w = value
        BY <1>2, <1>5, <1>7, <1>9, <4>2
      <4>4. CASE k = i
        BY <1>9, <1>12, <1>14, <2>5, <4>3, <4>4
      <4>5. CASE k # i
        BY <2>4, <2>8, <3>1, <4>3, <4>5 DEF SweptOK
      <4> QED BY <4>4, <4>5
    <3> QED BY <1>1, <1>2, <2>3, <2>8, <3>1 DEF SweptOK
  <2> QED BY <2>7, <2>8
<1> QED BY <1>10, <1>15

LEMMA CloseFinished ==
  ASSUME IInv, SweepOK, ClosedOK, CloseScc
  PROVE  SweepOK' /\ ClosedOK'
<1>1. /\ pc = "sweep" /\ pc # "timeout" /\ sweep.next > Len(tarjan_stack)
      /\ sweep.converged
      /\ UNCHANGED <<config, initial_state, stack_id, value, sweep>>
  BY DEF CloseScc
<1>2. SweepOK'
  <2>1. pc' # "sweep"
    BY DEF CloseScc, Return
  <2> QED BY <2>1 DEF SweepOK
<1>3. PICK r, len, entries, scc :
        /\ r = Top.stackidx /\ len = Len(tarjan_stack)
        /\ entries = {tarjan_stack[i] : i \in r..len}
        /\ scc = {e.state : e \in entries}
  OBVIOUS
<1>4. /\ status' = [s \in State |-> IF s \in scc THEN "closed" ELSE status[s]]
      /\ decision' = [s \in State |->
           IF s \in scc THEN (CHOOSE e \in entries : e.state = s).best_action
           ELSE decision[s]]
  BY <1>3 DEF CloseScc
<1>5. /\ TypeOK /\ StacksOK /\ Indexed /\ ClosedComponents
      /\ value \in [State -> Bounds]
  BY <1>1, Parts DEF TypeOK
<1>6. ASSUME NEW i \in r..len
      PROVE  /\ i \in DOMAIN tarjan_stack /\ tarjan_stack[i] \in StackInfo
             /\ EntryOK(tarjan_stack[i], TransitionTails(tarjan_stack[i].state))
             /\ SweptOK(tarjan_stack[i])
  <2>1. i \in Top.stackidx..Len(tarjan_stack)
    BY <1>3
  <2>2. i \in Top.stackidx..(sweep.next - 1)
    <3>1. sweep.next \in Top.stackidx..(Len(tarjan_stack) + 1) /\ dfs_stack # <<>>
      BY <1>1, Parts DEF ControlOK
    <3>2. Top.stackidx \in Int /\ Len(tarjan_stack) \in Int
      BY <1>1, <1>5, <3>1, TopOK, TopFacts
    <3> QED BY <1>1, <2>1, <3>1, <3>2
  <2>3. SweptOK(tarjan_stack[i])
    BY <1>1, <2>2 DEF SweepOK
  <2> QED BY <1>1, <2>1, <2>3, SweepEntry
<1>7. ClosedOK'
  <2> SUFFICES ASSUME NEW s \in State, status'[s] = "closed" PROVE FinishedOK(s)'
    BY DEF ClosedOK
  <2>1. CASE s \notin scc
    <3>1. /\ status[s] = "closed" /\ decision'[s] = decision[s]
          /\ FinishedOK(s)
      BY <1>4, <2>1 DEF ClosedOK
    <3> QED BY <1>1, <3>1, FinishedKept
  <2>2. CASE s \in scc
    <3>1. PICK i \in r..len : s = tarjan_stack[i].state
      BY <1>3, <2>2
    <3>2. PICK e : e = tarjan_stack[i]
      OBVIOUS
    <3>3. /\ e \in StackInfo /\ EntryOK(e, TransitionTails(e.state)) /\ SweptOK(e)
          /\ e.state = s /\ e \in entries
      BY <1>3, <1>6, <3>1, <3>2
    <3>4. \A x \in entries : x.state = s => x = e
      <4> SUFFICES ASSUME NEW k \in r..len, tarjan_stack[k].state = s
                   PROVE  tarjan_stack[k] = e
        BY <1>3
      <4>1. stack_id[s] = k /\ stack_id[s] = i
        BY <1>5, <1>6, <3>1 DEF Indexed
      <4> QED BY <3>2, <4>1
    <3>5. decision'[s] = e.best_action
      <4>1. (CHOOSE x \in entries : x.state = s) = e
        BY <3>3, <3>4
      <4> QED BY <1>4, <2>2, <4>1
    <3>6. CASE config.use_interval
      <4>1. ApproxEqual(value[s].lower, value[s].upper)
        BY <3>3, <3>6 DEF SweptOK
      <4> QED BY <1>1, <3>6, <4>1 DEF FinishedOK
    <3>7. CASE ~config.use_interval
      <4>1. ASSUME Epsilon = 0
            PROVE  /\ value[s] = IF Pruned(s) THEN Point(TerminationCost[s])
                                 ELSE BellmanValue(value, s)
                   /\ e.best_action \in
                        IF Pruned(s) \/ Greedy(value, s) = {} THEN {NoAction}
                        ELSE Greedy(value, s)
        <5>1. value[s] = Updated(value, e) /\ e.best_action = BestAction(value, e)
          BY <3>3, <3>7, <4>1 DEF SweptOK
        <5>2. PICK a : a = e.best_action
          OBVIOUS
        <5>3. a \in IF Pruned(e.state) \/ Greedy(value, e.state) = {} THEN {NoAction}
                    ELSE Greedy(value, e.state)
          <6>1. a = BestAction(value, e)
            BY <5>1, <5>2
          <6> QED BY <1>5, <3>3, <6>1, EntryDecided
        <5>4. Updated(value, e) = IF Pruned(e.state) THEN Point(TerminationCost[e.state])
                                  ELSE BellmanValue(value, e.state)
          BY <1>5, <3>3, BackupExact
        <5> QED BY ONLY <3>3, <5>1, <5>2, <5>3, <5>4
      <4>2. Pruned(s)' <=> Pruned(s)
        BY <1>1 DEF Pruned
      <4> QED BY <1>1, <3>5, <3>7, <4>1, <4>2 DEF FinishedOK, Decided
    <3> QED BY <3>6, <3>7
  <2> QED BY <2>1, <2>2
<1> QED BY <1>2, <1>7

LEMMA FinishedStep ==
  ASSUME IInv, SweepOK, ClosedOK, [Next]_vars
  PROVE  SweepOK' /\ ClosedOK'
<1>1. /\ TypeOK /\ ClosedComponents /\ status \in [State -> {"new", "closed", "onstack"}]
      /\ value \in [State -> Bounds] /\ initial_state \in State
  <2>1. TypeOK /\ ClosedComponents
    BY DEF IInv
  <2> QED BY <2>1, TVIAssumption DEF TypeOK
<1>2. ASSUME NEW s \in State, NEW rest, Enter(s, rest), status[s] = "new",
             config' = config, decision' = decision
      PROVE  SweepOK' /\ ClosedOK'
  <2>1. /\ pc' = "transition" /\ status' = [status EXCEPT ![s] = "onstack"]
        /\ \A t \in State : t # s => value'[t] = value[t]
    BY <1>1, <1>2 DEF Enter
  <2>2. /\ \A t \in State : status'[t] = "closed" => status[t] = "closed"
        /\ \A t \in State : status[t] = "closed" => value'[t] = value[t]
    BY <1>1, <1>2, <2>1
  <2>3. ClosedOK'
    BY <1>1, <1>2, <2>2, ClosedKept
  <2> QED BY <2>1, <2>3 DEF SweepOK
<1>3. CASE Solve
  <2>1. /\ Enter(initial_state, <<>>) /\ config' = config /\ decision' = decision
        /\ pc = "solve" /\ pc # "timeout"
    BY <1>3 DEF Solve
  <2>2. status[initial_state] = "new"
    BY <1>1, <2>1, Parts DEF ControlOK
  <2> QED BY <1>1, <1>2, <2>1, <2>2
<1>4. CASE NewSuccessor
  <2>1. pc = "successor" /\ config' = config /\ decision' = decision
    BY <1>4 DEF NewSuccessor
  <2>2. Top.successors \subseteq State
    BY <2>1, SuccessorTop
  <2>3. PICK t \in Top.successors :
          /\ status[t] = "new"
          /\ Enter(t, WithTop(dfs_stack, [Top EXCEPT !.successors = @ \ {t},
                                                     !.successor = t]))
    BY <1>4 DEF NewSuccessor
  <2>4. PICK rest : rest = WithTop(dfs_stack, [Top EXCEPT !.successors = @ \ {t},
                                                          !.successor = t])
    OBVIOUS
  <2>5. t \in State /\ Enter(t, rest)
    BY <2>2, <2>3, <2>4
  <2> QED BY <1>2, <2>1, <2>3, <2>5
<1>5. CASE UpdateValue
  BY <1>5, UpdateFinished
<1>6. CASE CloseScc
  BY <1>6, CloseFinished
<1>7. ASSUME config' = config, decision' = decision, value' = value, status' = status
      PROVE  ClosedOK'
  BY <1>1, <1>7, ClosedKept
<1>8. ASSUME pc' # "sweep" PROVE SweepOK'
  BY <1>8 DEF SweepOK
<1>9. CASE BeginTransition
  BY <1>7, <1>8, <1>9 DEF BeginTransition
<1>10. CASE KnownSuccessor
  <2>1. pc' # "sweep"
    BY <1>10 DEF KnownSuccessor
  <2>2. config' = config /\ decision' = decision /\ value' = value /\ status' = status
    BY <1>10 DEF KnownSuccessor
  <2> QED BY <1>7, <1>8, <2>1, <2>2
<1>11. CASE EndTransition
  BY <1>7, <1>8, <1>11 DEF EndTransition
<1>12. CASE Backtrack
  <2>1. pc' # "sweep"
    BY <1>12 DEF Backtrack, Return
  <2>2. config' = config /\ decision' = decision /\ value' = value /\ status' = status
    BY <1>12 DEF Backtrack
  <2> QED BY <1>7, <1>8, <2>1, <2>2
<1>13. CASE SccFound \/ SweepAgain
  <2>1. /\ config' = config /\ decision' = decision /\ value' = value /\ status' = status
        /\ dfs_stack' = dfs_stack
        /\ sweep' = [next |-> Top.stackidx, converged |-> TRUE] /\ pc # "timeout"
        /\ pc \in {"transition", "sweep"}
    BY <1>13 DEF SccFound, SweepAgain
  <2>2. dfs_stack # <<>>
    BY <2>1, Parts DEF ControlOK
  <2>3. Top.stackidx \in Int
    <3>1. StacksOK /\ Len(tarjan_stack) \in Nat
      BY <2>1, <2>2, Parts, TopFacts
    <3>2. Top.stackidx \in DOMAIN tarjan_stack /\ DOMAIN tarjan_stack = 1..Len(tarjan_stack)
      BY <2>1, <2>2, <3>1, TopOK, TopFacts
    <3> QED BY <3>1, <3>2
  <2>4. Top'.stackidx..(sweep'.next - 1) = {}
    BY <2>1, <2>3 DEF Top
  <2>5. SweepOK'
    BY <2>4 DEF SweepOK
  <2> QED BY <1>7, <2>1, <2>5
<1>14. CASE Timeout
  BY <1>7, <1>8, <1>14 DEF Timeout
<1>15. CASE Stop \/ UNCHANGED vars
  <2>1. UNCHANGED vars
    BY <1>15 DEF Stop
  <2> QED BY <2>1 DEF vars, SweepOK, SweptOK, ClosedOK, FinishedOK, Decided, Pruned, Top
<1> QED BY <1>3, <1>4, <1>5, <1>6, <1>9, <1>10, <1>11, <1>12, <1>13, <1>14, <1>15
        DEF Next, Step

-----------------------------------------------------------------------------
(* The optimal values.                                                     *)

(* What holds of the values while the search goes on.                      *)
ValuesOK == IInv /\ SweepOK /\ ClosedOK

LEMMA SpecValues == Spec => []ValuesOK
<1>1. Init => ValuesOK
  <2>1. Init => IInv
    BY InitIInv
  <2>2. Init => SweepOK /\ ClosedOK
    BY DEF Init, SweepOK, ClosedOK
  <2> QED BY <2>1, <2>2 DEF ValuesOK
<1>2. ValuesOK /\ [Next]_vars => ValuesOK'
  BY NextIInv, FinishedStep DEF ValuesOK
<1> QED BY <1>1, <1>2, PTL DEF Spec

LEMMA SpecBracketed == ASSUME GoalsTerminate PROVE Spec => []Bracketed
<1>1. Init => Bracketed
  BY DEF Init, Bracketed
<1>2. IInv /\ Bracketed /\ [Next]_vars => Bracketed'
  BY BracketedStep
<1> QED BY <1>1, <1>2, SpecIInv, PTL DEF Spec

(* Single values without a tolerance: a finished state has its decision.   *)
LEMMA FinishedGreedy ==
  ASSUME ClosedOK, Epsilon = 0, ~config.use_interval
  PROVE  PolicyGreedy
BY DEF ClosedOK, FinishedOK, Decided, PolicyGreedy

(* Intervals: bounds that have met at the optimal value.                   *)
LEMMA BoundsMet ==
  ASSUME TypeOK, ClosedOK, Bracketed, config.use_interval,
         NEW s \in State, status[s] = "closed"
  PROVE  ~Changed(value[s], Point(OptimalValue[s]))
<1>1. ApproxEqual(value[s].lower, value[s].upper)
  BY DEF ClosedOK, FinishedOK
<1>2. /\ value[s].lower <= OptimalValue[s] /\ OptimalValue[s] <= value[s].upper
      /\ value[s].lower \in Int /\ value[s].upper \in Int
      /\ OptimalValue[s] \in Int /\ Epsilon \in Nat
  BY StarType, HeuristicAssumption DEF Bracketed, TypeOK, Bounds
<1> QED BY <1>1, <1>2 DEF Changed, ApproxEqual, Point

(* Single values: the equations have one solution where no way leads back. *)
LEMMA EquationsSolved ==
  ASSUME TypeOK, ClosedComponents, ClosedOK, GoalsTerminate, ~config.use_interval,
         Epsilon = 0, Layered
  PROVE  \A s \in State : status[s] = "closed" => value[s] = Point(OptimalValue[s])
<1>1. PICK layer \in [State -> Nat] :
        \A s \in State : \A t \in Neighbours(s) : layer[t] < layer[s]
  BY DEF Layered
<1> DEFINE Wrong == {s \in State : /\ status[s] = "closed"
                                   /\ value[s] # Point(OptimalValue[s])}
<1>2. SUFFICES ASSUME Wrong # {} PROVE FALSE
  OBVIOUS
<1>3. PICK s \in Wrong : \A t \in Wrong : layer[s] <= layer[t]
  <2>1. Wrong \in SUBSET State
    OBVIOUS
  <2> HIDE DEF Wrong
  <2> QED BY <1>2, <2>1, FirstLayer
<1>4. /\ s \in State /\ status[s] = "closed" /\ value[s] # Point(OptimalValue[s])
      /\ config \in Configs
  BY <1>3 DEF TypeOK
<1>5. value[s] = IF Pruned(s) THEN Point(TerminationCost[s]) ELSE BellmanValue(value, s)
  BY <1>4 DEF ClosedOK, FinishedOK
<1>6. CASE Pruned(s)
  BY <1>4, <1>5, <1>6, PrunedOptimal
<1>7. CASE ~Pruned(s)
  <2>1. \A t \in Neighbours(s) : value[t] = StarValue[t]
    <3> SUFFICES ASSUME NEW t \in Neighbours(s) PROVE value[t] = StarValue[t]
      OBVIOUS
    <3>1. t \in State /\ status[t] = "closed"
      BY <1>4, <1>7, NeighboursType DEF ClosedComponents
    <3>2. layer[t] < layer[s] /\ layer[t] \in Int /\ layer[s] \in Int
      BY <1>1, <1>4, <3>1
    <3>3. t \notin Wrong
      BY <1>3, <3>2
    <3> QED BY <3>1, <3>3 DEF StarValue
  <2>2. BellmanValue(value, s) = BellmanValue(StarValue, s)
    BY <1>4, <2>1, BellmanValueSame
  <2> QED BY <1>4, <1>5, <1>7, <2>2, ExploredOptimal
<1> QED BY <1>6, <1>7

(* "Computes a full optimal state value table": with intervals in every    *)
(* MDP, up to the tolerance; with single values exactly, without a         *)
(* tolerance and where no way leads back.  A search that runs out of time  *)
(* is no exception: the components that it has finished are right.         *)
THEOREM ClosedStatesOptimal ==
  ASSUME GoalsTerminate, \A k \in Configs : k.use_interval \/ (Epsilon = 0 /\ Layered)
  PROVE  Spec => []ClosedOptimal
<1>1. ValuesOK /\ Bracketed => ClosedOptimal
  <2> SUFFICES ASSUME ValuesOK, Bracketed PROVE ClosedOptimal
    OBVIOUS
  <2>1. /\ TypeOK /\ ClosedComponents /\ ClosedOK
        /\ config.use_interval \/ (Epsilon = 0 /\ Layered)
    BY DEF ValuesOK, IInv, TypeOK
  <2>2. ASSUME NEW s \in State, status[s] = "closed"
        PROVE  ~Changed(value[s], Point(OptimalValue[s]))
    <3>1. CASE config.use_interval
      BY <2>1, <2>2, <3>1, BoundsMet
    <3>2. CASE ~config.use_interval
      <4>1. value[s] = Point(OptimalValue[s])
        BY <2>1, <2>2, <3>2, EquationsSolved
      <4> QED BY <4>1, ApproxEqualReflexive DEF Changed
    <3> QED BY <3>1, <3>2
  <2>3. ~config.use_interval => PolicyGreedy
    BY <2>1, FinishedGreedy
  <2> QED BY <2>2, <2>3 DEF ClosedOptimal
<1> QED BY <1>1, SpecValues, SpecBracketed, PTL

(* "The optimal action": with single values and without a tolerance, the   *)
(* extracted policy is greedy for the values that it comes with, in every  *)
(* MDP, cycles or not.  With intervals it need not be: a sweep may read    *)
(* values of which some are stale, and end with bounds that have met.      *)
THEOREM SingleValuesGreedy ==
  ASSUME Epsilon = 0
  PROVE  Spec => [](~config.use_interval => PolicyGreedy)
<1>1. ValuesOK => (~config.use_interval => PolicyGreedy)
  BY FinishedGreedy DEF ValuesOK
<1> QED BY <1>1, SpecValues, PTL
=============================================================================
